--------------------------- MODULE FindingsProofs ---------------------------
(***************************************************************************)
(* Proofs about the life of a finding, for every set of scan series and    *)
(* analysts, any number of stored reports and every clock.                 *)
(***************************************************************************)
EXTENDS Findings, NumberLemmas

-----------------------------------------------------------------------------
(* Typing.                                                                 *)

Lives == {"none", "open", "reopened", "fixed", "accepted"}
Sources == {"scanner", "hub", "nvd", "none"}
Risks == {"none", "open", "closed"}
Books == [life : Lives, scanner : [Series -> Evidence], primary : Sources]
Targets == [life : Lives, intel : IntelEvidence, primary : Sources]
Sessions == [kind : {"read", "assessed"}, life : Lives, primary : Sources, to : Targets,
             risk : Risks, overlapped : BOOLEAN]

Typed == TypeOK /\ session \in {Idle} \cup Sessions

LEMMA StrengthDomain == DOMAIN Strength = Sources
  BY DEF Strength, Sources

LEMMA TimesAreNumbers == Times \subseteq Nat /\ MaxTime \in Times /\ 0 \in Times /\ Never \notin Times
  BY BoundsAssumption DEF Times, Never

LEMMA DecisionTimes ==
    ASSUME TypeOK, NEW a \in Analysts
    PROVE  manual[a].at \in Int
<1>1. manual[a] \in Decision
  BY DEF TypeOK
<1>2. manual[a].at \in Times \cup {Never}
  BY <1>1 DEF Decision
<1>3. QED
  BY <1>2, BoundsAssumption DEF Times, Never

LEMMA MaxOfTwo ==
    ASSUME NEW a \in Times, NEW b \in Times
    PROVE  Max({a, b}) \in Times /\ Max({a, b}) >= a /\ Max({a, b}) >= b
<1>1. \E x \in {a, b} : \A y \in {a, b} : x >= y
  BY BoundsAssumption DEF Times
<1>2. QED
  BY <1>1 DEF Max

(* No analyst has decided later than the last decision.                    *)
LEMMA LastDecisionBounds ==
    ASSUME TypeOK
    PROVE  /\ LastDecision \in Times \cup {Never}
           /\ \A a \in Analysts : manual[a].at <= LastDecision
<1> DEFINE D == {manual[a].at : a \in Analysts} \cup {Never}
<1>1. D \subseteq Times \cup {Never}
  BY DEF TypeOK, Decision
<1>2. D # {} /\ D \subseteq Int /\ \A x \in D : x <= MaxTime
  BY <1>1, BoundsAssumption DEF Times, Never
<1>3. \E x \in D : \A y \in D : y <= x
  <2> HIDE DEF D
  <2>1. D \in SUBSET Int /\ MaxTime \in Int
    BY <1>2, BoundsAssumption
  <2>2. QED
    BY <1>2, <2>1, Greatest
<1>4. \E x \in D : \A y \in D : x >= y
  BY <1>2, <1>3
<1>5. Max(D) \in D /\ \A y \in D : Max(D) >= y
  <2> HIDE DEF D
  <2>1. QED
    BY <1>4 DEF Max
<1>6. LastDecision = Max(D)
  BY DEF LastDecision
<1> HIDE DEF LastDecision
<1>7. QED
  BY <1>1, <1>2, <1>5, <1>6

-----------------------------------------------------------------------------
(* The operators on evidence.                                              *)

LEMMA EffectiveTimeTyped ==
    ASSUME NEW o \in Report
    PROVE  EffectiveTime(o) \in Times
  BY DEF Report, EffectiveTime

LEMMA UpsertTyped ==
    ASSUME NEW e \in Evidence, NEW i \in 1..MaxImports, NEW o \in Report, o.state # "absent"
    PROVE  Upsert(e, i, o) \in Evidence /\ Upsert(e, i, o).obs # 0
<1>1. /\ EffectiveTime(o) \in Times /\ e.last \in Times
      /\ Max({e.last, EffectiveTime(o)}) \in Times
  <2>1. EffectiveTime(o) \in Times /\ e.last \in Times
    BY EffectiveTimeTyped DEF Evidence
  <2>2. QED
    BY <2>1, MaxOfTwo
<1>2. ASSUME NEW last \in Times
      PROVE  Represents(i, o, last) \in Evidence /\ Represents(i, o, last).obs # 0
  BY <1>2, BoundsAssumption DEF Represents, Evidence, Report
<1>3. e.obs = i => Revisited(e, o) \in Evidence /\ Revisited(e, o).obs # 0
  <2>1. o.state \in {"open", "fixed"} /\ i # 0
    BY BoundsAssumption DEF Report
  <2>2. [e EXCEPT !.life = o.state, !.uncorrelated = FALSE] \in Evidence
    BY <2>1 DEF Evidence
  <2>3. e.obs = i => [e EXCEPT !.life = o.state, !.uncorrelated = FALSE].obs # 0
    BY <2>1 DEF Evidence
  <2>4. QED
    BY <2>1, <2>2, <2>3 DEF Revisited
<1>4. e.obs # 0 => /\ [e EXCEPT !.last = Max({e.last, EffectiveTime(o)})] \in Evidence
                   /\ [e EXCEPT !.last = Max({e.last, EffectiveTime(o)})].obs # 0
  BY <1>1 DEF Evidence
<1>5. i # 0
  BY BoundsAssumption
<1>6. QED
  BY <1>1, <1>2, <1>3, <1>4, <1>5 DEF Upsert

LEMMA AggregatedTyped ==
    ASSUME NEW l \in Lives, NEW ev
    PROVE  Aggregated(l, ev) \in Lives
  BY DEF Aggregated, Lives

LEMMA SelectedTyped ==
    ASSUME NEW ev, NEW in
    PROVE  Selected(ev, in) \in Sources
  BY DEF Selected, Sources

LEMMA PromoteTyped ==
    ASSUME NEW b \in Books, NEW i \in 1..MaxImports, NEW o \in Report, NEW at
    PROVE  Promote(b, i, o, at) \in Books
<1> DEFINE ev == [b.scanner EXCEPT ![o.series] = Upsert(@, i, o)]
           created == IF b.life # "none" THEN b.life ELSE IF o.future THEN "open" ELSE o.state
<1>1. CASE o.state = "absent" \/ ~Matches(at)
  BY <1>1 DEF Promote
<1>2. CASE o.state # "absent" /\ Matches(at)
  <2>1. o.series \in Series /\ b.scanner \in [Series -> Evidence] /\ b.life \in Lives
    BY DEF Report, Books
  <2>2. ev \in [Series -> Evidence]
    BY <1>2, <2>1, UpsertTyped
  <2>3. created \in Lives
    BY <1>2, <2>1 DEF Report, Lives
  <2>4. Promote(b, i, o, at) = [life |-> Aggregated(created, ev), scanner |-> ev,
                                primary |-> Selected(ev, intel)]
    BY <1>2 DEF Promote
  <2>5. QED
    BY <2>2, <2>3, <2>4, AggregatedTyped, SelectedTyped DEF Books
<1>3. QED
  BY <1>1, <1>2

LEMMA ResolveAbsentTyped ==
    ASSUME NEW b \in Books, NEW i, NEW o \in Report
    PROVE  ResolveAbsent(b, i, o) \in Books
<1> DEFINE ev == [b.scanner EXCEPT ![o.series] = [@ EXCEPT !.life = "fixed", !.resolved = o.at]]
<1>1. o.series \in Series /\ b.scanner \in [Series -> Evidence] /\ b.life \in Lives /\ o.at \in Times
  BY DEF Report, Books
<1>2. [b.scanner[o.series] EXCEPT !.life = "fixed", !.resolved = o.at] \in Evidence
  BY <1>1 DEF Evidence
<1>3. ev \in [Series -> Evidence]
  BY <1>1, <1>2
<1>4. \/ ResolveAbsent(b, i, o) = b
      \/ ResolveAbsent(b, i, o) = [life |-> Aggregated(b.life, ev), scanner |-> ev,
                                   primary |-> Selected(ev, intel)]
  BY DEF ResolveAbsent
<1> HIDE DEF ev
<1>5. QED
  BY <1>1, <1>3, <1>4, AggregatedTyped, SelectedTyped DEF Books

(* An annotation changes nothing that the status of a finding depends on.  *)
SameEvidence(e, f) ==
    e.obs = f.obs /\ e.life = f.life /\ e.ingested = f.ingested /\ Revision(e) = Revision(f)

LEMMA AnnotateTyped ==
    ASSUME NEW b \in Books, NEW i, NEW o \in Report, NEW at
    PROVE  /\ Annotate(b, i, o, at) \in Books
           /\ Annotate(b, i, o, at).life = b.life
           /\ \A s \in Series : SameEvidence(Annotate(b, i, o, at).scanner[s], b.scanner[s])
<1> DEFINE ev == [b.scanner EXCEPT ![o.series] = [@ EXCEPT !.uncorrelated = TRUE]]
<1>1. o.series \in Series /\ b.scanner \in [Series -> Evidence]
  BY DEF Report, Books
<1>2. \A s \in Series : /\ [b.scanner[s] EXCEPT !.uncorrelated = TRUE] \in Evidence
                        /\ SameEvidence([b.scanner[s] EXCEPT !.uncorrelated = TRUE], b.scanner[s])
  BY <1>1 DEF Evidence, SameEvidence, Revision
<1>3. ev \in [Series -> Evidence] /\ \A s \in Series : SameEvidence(ev[s], b.scanner[s])
  <2>1. \A s \in Series : SameEvidence(b.scanner[s], b.scanner[s])
    BY DEF SameEvidence
  <2>2. QED
    BY <1>1, <1>2, <2>1
<1>4. CASE Annotate(b, i, o, at) = b
  BY <1>4 DEF SameEvidence
<1>5. CASE Annotate(b, i, o, at) = [b EXCEPT !.scanner = ev]
  <2> HIDE DEF ev
  <2>1. Annotate(b, i, o, at) \in Books /\ Annotate(b, i, o, at).life = b.life
           /\ Annotate(b, i, o, at).scanner = ev
    BY <1>3, <1>5 DEF Books
  <2>2. QED
    BY <1>3, <2>1
<1>6. Annotate(b, i, o, at) = b \/ Annotate(b, i, o, at) = [b EXCEPT !.scanner = ev]
  BY DEF Annotate
<1>7. QED
  BY <1>4, <1>5, <1>6, Zenon

-----------------------------------------------------------------------------
(* Recorrelation reads the stored reports one after the other: what holds  *)
(* of the finding as it is, and is kept by each report, holds of the       *)
(* result.  The function of the definition exists for every number of      *)
(* reports, by induction, and its values are in B, by induction again.     *)

IsFold(f, at, k) ==
    f = [i \in 0..k |-> IF i = 0 THEN Book ELSE Applied(f[i - 1], i, imports[i], at)]

LEMMA FoldExists ==
    ASSUME NEW at, NEW n \in Nat
    PROVE  \E f : IsFold(f, at, n)
<1> DEFINE S == {k \in Nat : \E f : IsFold(f, at, k)}
<1>1. 0 \in S
  <2> DEFINE f == [i \in 0..0 |-> Book]
  <2>1. IsFold(f, at, 0)
    BY DEF IsFold
  <2>2. QED
    BY <2>1
<1>2. ASSUME NEW k \in Nat, k \in S PROVE k + 1 \in S
  <2>1. PICK f : IsFold(f, at, k)
    BY <1>2
  <2> DEFINE g == [i \in 0..(k + 1) |-> IF i <= k THEN f[i]
                                          ELSE Applied(f[k], k + 1, imports[k + 1], at)]
  <2>2. \A i \in 0..k : g[i] = f[i]
    OBVIOUS
  <2>3. ASSUME NEW i \in 0..(k + 1)
        PROVE  g[i] = IF i = 0 THEN Book ELSE Applied(g[i - 1], i, imports[i], at)
    <3>1. CASE i = k + 1
      <4>1. i # 0 /\ i - 1 = k /\ ~(i <= k) /\ g[k] = f[k]
        BY <3>1, <2>2
      <4>2. g[i] = Applied(f[k], k + 1, imports[k + 1], at)
        BY <3>1, <4>1
      <4>3. QED
        BY <3>1, <4>1, <4>2
    <3>2. CASE i # k + 1
      <4>1. i \in 0..k /\ g[i] = f[i]
        BY <2>2, <3>2
      <4>2. f[i] = IF i = 0 THEN Book ELSE Applied(f[i - 1], i, imports[i], at)
        BY <2>1, <4>1 DEF IsFold
      <4>3. i # 0 => g[i - 1] = f[i - 1]
        BY <4>1, <2>2
      <4>4. QED
        BY <4>1, <4>2, <4>3
    <3>3. QED
      BY <3>1, <3>2
  <2>4. IsFold(g, at, k + 1)
    <3>1. g = [i \in 0..(k + 1) |-> g[i]]
      OBVIOUS
    <3> HIDE DEF g
    <3>2. QED
      BY <2>3, <3>1 DEF IsFold
  <2>5. QED
    BY <2>4
<1>3. QED
  <2> HIDE DEF S
  <2>1. Nat \subseteq S
    BY <1>1, <1>2, Induction
  <2>2. QED
    BY <2>1 DEF S

LEMMA RecorrelatedIn ==
    ASSUME TypeOK, NEW at, NEW B, Book \in B,
           \A b \in B : \A i \in 1..Len(imports) : Applied(b, i, imports[i], at) \in B
    PROVE  Recorrelated(at) \in B
<1> DEFINE n == Len(imports)
           after == CHOOSE f : IsFold(f, at, n)
<1>1. n \in Nat
  BY DEF TypeOK
<1>2. IsFold(after, at, n)
  BY <1>1, FoldExists
<1>3. Recorrelated(at) = after[n]
  BY DEF Recorrelated, IsFold
<1> DEFINE S == {k \in Nat : k <= n => after[k] \in B}
<1> HIDE DEF after
<1>4. 0 \in S
  BY <1>1, <1>2 DEF IsFold
<1>5. ASSUME NEW k \in Nat, k \in S PROVE k + 1 \in S
  <2> SUFFICES ASSUME k + 1 <= n PROVE after[k + 1] \in B
    OBVIOUS
  <2>1. k + 1 \in 0..n /\ k + 1 \in 1..n /\ after[k] \in B
    BY <1>1, <1>5
  <2>2. after[k + 1] = Applied(after[k], k + 1, imports[k + 1], at)
    BY <1>2, <2>1 DEF IsFold
  <2>3. QED
    BY <2>1, <2>2
<1>6. n \in S
  <2> HIDE DEF S
  <2>1. QED
    BY <1>1, <1>4, <1>5, Induction
<1>7. QED
  BY <1>1, <1>3, <1>6

-----------------------------------------------------------------------------
(* What one report does to a finding that the scanners speak about.        *)

(* No scanner reports a finding that is fixed.                             *)
Closes(b) == b.life = "fixed" => \A s \in Series : b.scanner[s].obs # 0 => b.scanner[s].life # "open"

(* Some source speaks for a finding that is active, or an analyst has      *)
(* overruled a scanner.                                                    *)
Backed(b) ==
    b.life \in Active =>
        \/ AnyActive(b.scanner, intel)
        \/ \E s \in Series : b.scanner[s].obs # 0 /\ s \notin Heard(b.scanner)

LEMMA AggregatedFacts ==
    ASSUME NEW l \in Lives, NEW ev \in [Series -> Evidence]
    PROVE  /\ l \in Protected => Aggregated(l, ev) = l
           /\ l # "none" => Aggregated(l, ev) # "none"
           /\ LastDecision = Never /\ Aggregated(l, ev) = "fixed" =>
                 \A s \in Series : ev[s].obs # 0 => ev[s].life # "open"
           /\ (\E s \in Series : ev[s].obs # 0) /\ Aggregated(l, ev) \in Active =>
                 \/ \E s \in Series : ev[s].obs # 0 /\ ev[s].life = "open"
                 \/ \E s \in Series : ev[s].obs # 0 /\ s \notin Heard(ev)
<1>1. l \in Protected => Aggregated(l, ev) = l
  BY DEF Aggregated
<1>2. l # "none" => Aggregated(l, ev) # "none"
  BY DEF Aggregated
<1>3. ASSUME LastDecision = Never, Aggregated(l, ev) = "fixed"
      PROVE  \A s \in Series : ev[s].obs # 0 => ev[s].life # "open"
  <2>1. Heard(ev) = {s \in Series : ev[s].obs # 0}
    BY <1>3 DEF Heard
  <2>2. l \notin Protected
    BY <1>3 DEF Aggregated, Protected
  <2>3. CASE Heard(ev) = {}
    BY <2>1, <2>3
  <2>4. CASE Heard(ev) # {}
    BY <1>3, <2>1, <2>2, <2>4 DEF Aggregated
  <2>5. QED
    BY <2>3, <2>4
<1>4. ASSUME \E s \in Series : ev[s].obs # 0, Aggregated(l, ev) \in Active
      PROVE  \/ \E s \in Series : ev[s].obs # 0 /\ ev[s].life = "open"
             \/ \E s \in Series : ev[s].obs # 0 /\ s \notin Heard(ev)
  <2>1. l \notin Protected
    BY <1>1, <1>4 DEF Protected, Active
  <2>2. CASE Heard(ev) = {}
    BY <1>4, <2>2
  <2>3. CASE Heard(ev) # {}
    <3>1. ~(\A s \in Heard(ev) : ev[s].life # "open")
      BY <1>4, <2>1, <2>3 DEF Aggregated, Active
    <3>2. QED
      BY <3>1 DEF Heard
  <2>4. QED
    BY <2>2, <2>3
<1>5. QED
  BY <1>1, <1>2, <1>3, <1>4

(* A book that a report has aggregated.                                    *)
Aggregates(b, c) ==
    /\ b.life # "none" => c.life = Aggregated(b.life, c.scanner)
    /\ \E l \in Lives : c.life = Aggregated(l, c.scanner)
    /\ \E s \in Series : c.scanner[s].obs # 0

LEMMA PromoteAggregates ==
    ASSUME NEW b \in Books, NEW i \in 1..MaxImports, NEW o \in Report, NEW at
    PROVE  Promote(b, i, o, at) = b \/ Aggregates(b, Promote(b, i, o, at))
<1> DEFINE ev == [b.scanner EXCEPT ![o.series] = Upsert(@, i, o)]
           created == IF b.life # "none" THEN b.life ELSE IF o.future THEN "open" ELSE o.state
<1> SUFFICES ASSUME o.state # "absent", Matches(at)
             PROVE  Aggregates(b, Promote(b, i, o, at))
  BY DEF Promote
<1>1. o.series \in Series /\ b.scanner \in [Series -> Evidence] /\ b.life \in Lives
  BY DEF Report, Books
<1>2. ev[o.series].obs # 0
  BY <1>1, UpsertTyped
<1>3. created \in Lives /\ (b.life # "none" => created = b.life)
  BY <1>1 DEF Report, Lives
<1>4. Promote(b, i, o, at) = [life |-> Aggregated(created, ev), scanner |-> ev,
                              primary |-> Selected(ev, intel)]
  BY DEF Promote
<1> HIDE DEF ev, created
<1>5. QED
  BY <1>1, <1>2, <1>3, <1>4 DEF Aggregates

LEMMA ResolveAggregates ==
    ASSUME NEW b \in Books, NEW i, NEW o \in Report
    PROVE  ResolveAbsent(b, i, o) = b \/ Aggregates(b, ResolveAbsent(b, i, o))
<1> DEFINE e == b.scanner[o.series]
           ev == [b.scanner EXCEPT ![o.series] = [@ EXCEPT !.life = "fixed", !.resolved = o.at]]
<1>1. o.series \in Series /\ b.scanner \in [Series -> Evidence] /\ b.life \in Lives
  BY DEF Report, Books
<1>2. \/ ResolveAbsent(b, i, o) = b
      \/ /\ e.obs # 0
         /\ ResolveAbsent(b, i, o) = [life |-> Aggregated(b.life, ev), scanner |-> ev,
                                      primary |-> Selected(ev, intel)]
  BY DEF ResolveAbsent
<1>3. ev[o.series].obs = e.obs
  BY <1>1 DEF Evidence
<1> HIDE DEF e, ev
<1>4. QED
  BY <1>1, <1>2, <1>3 DEF Aggregates

LEMMA AggregatesKeeps ==
    ASSUME NEW b \in Books, NEW c \in Books, c = b \/ Aggregates(b, c)
    PROVE  /\ b.life \in Protected => c.life = b.life
           /\ b.life # "none" => c.life # "none"
           /\ LastDecision = Never /\ Closes(b) => Closes(c)
           /\ Backed(b) => Backed(c)
<1>1. CASE c = b
  BY <1>1
<1>2. CASE Aggregates(b, c)
  <2>1. PICK l \in Lives : c.life = Aggregated(l, c.scanner)
    BY <1>2 DEF Aggregates
  <2>2. c.scanner \in [Series -> Evidence] /\ b.life \in Lives
    BY DEF Books
  <2>3. b.life # "none" => c.life = Aggregated(b.life, c.scanner)
    BY <1>2 DEF Aggregates
  <2>4. \E s \in Series : c.scanner[s].obs # 0
    BY <1>2 DEF Aggregates
  <2>5. b.life \in Protected => c.life = b.life
    BY <2>2, <2>3, AggregatedFacts DEF Protected
  <2>6. b.life # "none" => c.life # "none"
    BY <2>2, <2>3, AggregatedFacts
  <2>7. LastDecision = Never => Closes(c)
    BY <2>1, <2>2, AggregatedFacts DEF Closes
  <2>8. Backed(c)
    BY <2>1, <2>2, <2>4, AggregatedFacts DEF Backed, AnyActive
  <2>9. QED
    BY <2>5, <2>6, <2>7, <2>8
<1>3. QED
  BY <1>1, <1>2

LEMMA AnnotateKeeps ==
    ASSUME NEW b \in Books, NEW i, NEW o \in Report, NEW at
    PROVE  /\ Closes(b) => Closes(Annotate(b, i, o, at))
           /\ Backed(b) => Backed(Annotate(b, i, o, at))
<1> DEFINE c == Annotate(b, i, o, at)
<1>1. c \in Books /\ c.life = b.life
  BY AnnotateTyped
<1>2. \A s \in Series : SameEvidence(c.scanner[s], b.scanner[s])
  BY AnnotateTyped
<1>3. \A s \in Series : /\ c.scanner[s].obs = b.scanner[s].obs
                        /\ c.scanner[s].life = b.scanner[s].life
                        /\ c.scanner[s].ingested = b.scanner[s].ingested
                        /\ Revision(c.scanner[s]) = Revision(b.scanner[s])
  <2> HIDE DEF c
  <2>1. QED
    BY <1>2 DEF SameEvidence
<1>4. Heard(c.scanner) = Heard(b.scanner)
  <2> HIDE DEF c
  <2>1. QED
    BY <1>3 DEF Heard
<1> HIDE DEF c
<1>5. Closes(b) => Closes(c)
  BY <1>1, <1>3 DEF Closes
<1>6. Backed(b) => Backed(c)
  BY <1>1, <1>3, <1>4 DEF Backed, AnyActive
<1>7. QED
  BY <1>5, <1>6 DEF c

LEMMA ReportKeeps ==
    ASSUME NEW b \in Books, NEW i \in 1..MaxImports, NEW o \in Report, NEW at,
           NEW c, c = ResolveAbsent(Promote(b, i, o, at), i, o)
    PROVE  /\ c \in Books
           /\ b.life \in Protected => c.life = b.life
           /\ b.life # "none" => c.life # "none"
           /\ LastDecision = Never /\ Closes(b) => Closes(c)
           /\ Backed(b) => Backed(c)
<1> DEFINE m == Promote(b, i, o, at)
<1>1. m \in Books /\ c \in Books
  BY PromoteTyped, ResolveAbsentTyped
<1>2. m = b \/ Aggregates(b, m)
  BY PromoteAggregates
<1>3. c = m \/ Aggregates(m, c)
  BY <1>1, ResolveAggregates
<1> HIDE DEF m
<1>4. QED
  BY <1>1, <1>2, <1>3, AggregatesKeeps DEF Books

LEMMA AppliedKeeps ==
    ASSUME NEW b \in Books, NEW i \in 1..MaxImports, NEW o \in Report, NEW at
    PROVE  /\ Applied(b, i, o, at) \in Books
           /\ b.life \in Protected => Applied(b, i, o, at).life = b.life
           /\ b.life # "none" => Applied(b, i, o, at).life # "none"
           /\ LastDecision = Never /\ Closes(b) => Closes(Applied(b, i, o, at))
           /\ Backed(b) => Backed(Applied(b, i, o, at))
<1> DEFINE a == Annotate(b, i, o, at)
           c == Applied(b, i, o, at)
<1>1. a \in Books /\ a.life = b.life
  BY AnnotateTyped
<1>2. (Closes(b) => Closes(a)) /\ (Backed(b) => Backed(a))
  BY AnnotateKeeps
<1>3. c = ResolveAbsent(Promote(a, i, o, at), i, o)
  BY DEF Applied
<1> HIDE DEF a, c
<1>4. /\ c \in Books
      /\ a.life \in Protected => c.life = a.life
      /\ a.life # "none" => c.life # "none"
      /\ LastDecision = Never /\ Closes(a) => Closes(c)
      /\ Backed(a) => Backed(c)
  BY <1>1, <1>3, ReportKeeps
<1>5. QED
  BY <1>1, <1>2, <1>4 DEF c

LEMMA BookTyped ==
    ASSUME TypeOK
    PROVE  Book \in Books /\ Book.life = life /\ Book.scanner = scanner
  BY StrengthDomain DEF TypeOK, Book, Books, Lives

LEMMA RecorrelatedKeeps ==
    ASSUME TypeOK, NEW at
    PROVE  /\ Recorrelated(at) \in Books
           /\ life \in Protected => Recorrelated(at).life = life
           /\ life # "none" => Recorrelated(at).life # "none"
           /\ LastDecision = Never /\ Closes(Book) => Closes(Recorrelated(at))
           /\ Backed(Book) => Backed(Recorrelated(at))
<1>1. ASSUME NEW i \in 1..Len(imports)
      PROVE  i \in 1..MaxImports /\ imports[i] \in Report
  BY BoundsAssumption DEF TypeOK
<1> DEFINE B == {b \in Books :
              /\ life \in Protected => b.life = life
              /\ life # "none" => b.life # "none"
              /\ LastDecision = Never /\ Closes(Book) => Closes(b)
              /\ Backed(Book) => Backed(b)}
<1>2. Book \in B
  BY BookTyped
<1>3. \A b \in B : \A i \in 1..Len(imports) : Applied(b, i, imports[i], at) \in B
  BY <1>1, AppliedKeeps
<1>4. Recorrelated(at) \in B
  <2> HIDE DEF B
  <2>1. QED
    BY <1>2, <1>3, RecorrelatedIn
<1>5. QED
  BY <1>4

-----------------------------------------------------------------------------
(* The inductive invariant.  A transaction of the hub that nobody overtook *)
(* holds the finding and the risk as they are, and the target of the       *)
(* record or of the withdrawal it is about.  A finding that does not exist *)
(* has no intelligence, and never ceases to exist.                         *)

HubRecord(at) == WithRecord("hub", at, life, intel, primary)
HubWithdrawal ==
    LET in == [intel EXCEPT !["hub"] = Withdrawn(@)]
    IN  [life |-> Retired(life, scanner, in), intel |-> in["hub"],
         primary |-> Selected(scanner, in)]

Fresh ==
    /\ session.life = life /\ session.primary = primary
    /\ session.kind = "assessed" => session.risk = risk
    /\ \/ life # "none" /\ session.to = HubWithdrawal
       \/ \E at \in Times : session.to = HubRecord(at)

SessionInv ==
    session # Idle =>
        /\ session.to.life # "none"
        /\ session.life # "none" => life # "none"
        /\ ~session.overlapped => Fresh

NoFindingNoIntel == life = "none" => \A f \in Feeds : intel[f].life = "none" /\ ~intel[f].listed

(* The clock moves on when an analyst decides.                             *)
DecidedBefore == \A a \in Analysts : manual[a].at < now

FindingInv ==
    Typed /\ RiskFollowsFinding /\ NoFindingNoIntel /\ SessionInv /\ DecidedBefore

(* What every step keeps; the last two are the bodies of properties.       *)
ProtectedStands == life \in Protected /\ manual' = manual /\ ~StaleCommit => life' = life
LastWord == Evidenced /\ ~StaleCommit => Evidenced'
OneSource ==
    LastDecision = Never /\ life \in Active /\ life' = "fixed" /\ manual' = manual /\ ~StaleCommit
        => \A s \in Series : scanner'[s].obs # 0 => scanner'[s].life # "open"
Claims == ProtectedStands /\ LastWord /\ OneSource

LEMMA AssessedTyped == ASSUME NEW l PROVE Assessed(l) \in Risks
  BY DEF Assessed, Risks

LEMMA IdleIsNoSession == Idle \notin Sessions
<1>1. Idle.kind = "idle"
  BY DEF Idle
<1>2. \A s \in Sessions : s.kind # "idle"
  BY DEF Sessions
<1>3. QED
  BY <1>1, <1>2

(* Whoever writes the finding overtakes the transaction that is open.      *)
LEMMA OverlapKeeps ==
    ASSUME session \in {Idle} \cup Sessions, SessionInv, Overlap, life # "none" => life' # "none"
    PROVE  session' \in {Idle} \cup Sessions /\ SessionInv' /\ session'.kind \in {"idle", "read", "assessed"}
<1>1. CASE session = Idle
  BY <1>1 DEF Overlap, SessionInv, Idle
<1>2. CASE session \in Sessions
  <2>1. session' = [session EXCEPT !.overlapped = TRUE]
    BY <1>2, IdleIsNoSession DEF Overlap
  <2>2. /\ session' \in Sessions /\ session'.overlapped = TRUE /\ session'.life = session.life
        /\ session'.to = session.to /\ session'.kind \in {"idle", "read", "assessed"}
    BY <1>2, <2>1 DEF Sessions
  <2>3. session # Idle
    BY <1>2, IdleIsNoSession
  <2>4. QED
    BY <2>2, <2>3 DEF SessionInv
<1>3. QED
  BY <1>1, <1>2

LEMMA EvidencedIsBacked ==
    ASSUME TypeOK
    PROVE  Evidenced <=> Backed(Book)
  BY BookTyped DEF Evidenced, Backed

(* A step that writes what the scanners make of the finding.               *)
LEMMA WriteStep ==
    ASSUME FindingInv, NEW b \in Books, Write(b), UNCHANGED <<now, intel, manual, nvdMark>>,
           endpoint' \in {"none", "open", "missing", "uncovered"},
           imports' \in Seq(Report) /\ Len(imports') <= MaxImports,
           life \in Protected => b.life = life,
           life # "none" => b.life # "none",
           LastDecision = Never /\ Closes(Book) => Closes(b),
           Backed(Book) => Backed(b)
    PROVE  FindingInv' /\ Claims
<1>1. TypeOK /\ session \in {Idle} \cup Sessions /\ SessionInv
  BY DEF FindingInv, Typed
<1>2. life' = b.life /\ scanner' = b.scanner /\ primary' = b.primary /\ risk' = Assessed(b.life)
        /\ overtaken' = FALSE /\ Overlap
  BY DEF Write
<1>3. session' \in {Idle} \cup Sessions /\ SessionInv' /\ session'.kind \in {"idle", "read", "assessed"}
  BY <1>1, <1>2, OverlapKeeps
<1>4. b.life \in Lives /\ b.scanner \in [Series -> Evidence] /\ b.primary \in Sources
  BY DEF Books
<1>5. risk' \in Risks
  BY <1>2, AssessedTyped
<1>6. Typed'
  BY <1>1, <1>2, <1>3, <1>4, <1>5, StrengthDomain DEF Typed, TypeOK, Lives, Risks
<1>7. RiskFollowsFinding'
  BY <1>2 DEF RiskFollowsFinding
<1>8. NoFindingNoIntel'
  BY <1>2 DEF FindingInv, NoFindingNoIntel
<1>9. ProtectedStands
  BY <1>2 DEF ProtectedStands
<1>10. LastWord
  <2>1. Evidenced' <=> Backed(b)
    BY <1>2 DEF Evidenced, Backed, AnyActive, Heard, LastDecision
  <2>2. QED
    BY <1>1, <2>1, EvidencedIsBacked DEF LastWord
<1>11. OneSource
  <2> SUFFICES ASSUME LastDecision = Never, life \in Active, life' = "fixed"
               PROVE  \A s \in Series : scanner'[s].obs # 0 => scanner'[s].life # "open"
    BY DEF OneSource
  <2>1. Closes(Book)
    BY <1>1, BookTyped DEF Closes, Active
  <2>2. QED
    BY <1>2, <2>1 DEF Closes
<1>12. DecidedBefore'
  BY DEF FindingInv, DecidedBefore
<1>13. QED
  BY <1>3, <1>6, <1>7, <1>8, <1>9, <1>10, <1>11, <1>12 DEF FindingInv, Claims

LEMMA ImportScanStep ==
    ASSUME FindingInv, NEW s \in Series, NEW state \in {"open", "fixed", "absent"}, NEW at \in Times,
           NEW future \in BOOLEAN, ImportScan(s, state, at, future)
    PROVE  FindingInv' /\ Claims
<1> DEFINE i == Len(imports) + 1
           o == [series |-> s, state |-> state, at |-> at, future |-> future, received |-> now]
           b == ResolveAbsent(Promote(Book, i, o, endpoint), i, o)
<1>1. TypeOK
  BY DEF FindingInv, Typed
<1>2. o \in Report
  BY <1>1 DEF Report, TypeOK
<1>3. i \in 1..MaxImports
  BY <1>1, BoundsAssumption DEF TypeOK, ImportScan
<1>4. imports' = Append(imports, o) /\ Write(b) /\ UNCHANGED <<now, endpoint, intel, manual, nvdMark>>
  BY DEF ImportScan
<1>5. imports' \in Seq(Report) /\ Len(imports') <= MaxImports
  <2> HIDE DEF o
  <2>1. QED
    BY <1>1, <1>2, <1>3, <1>4 DEF TypeOK
<1>6. endpoint' \in {"none", "open", "missing", "uncovered"}
  BY <1>1, <1>4 DEF TypeOK
<1> HIDE DEF i, o
<1>7. /\ b \in Books
      /\ Book.life \in Protected => b.life = Book.life
      /\ Book.life # "none" => b.life # "none"
      /\ LastDecision = Never /\ Closes(Book) => Closes(b)
      /\ Backed(Book) => Backed(b)
  BY <1>1, <1>2, <1>3, BookTyped, ReportKeeps
<1> HIDE DEF b
<1>8. QED
  BY <1>1, <1>4, <1>5, <1>6, <1>7, BookTyped, WriteStep

LEMMA IngestInventoryStep ==
    ASSUME FindingInv, NEW at \in {"open", "missing", "uncovered"}, IngestInventory(at)
    PROVE  FindingInv' /\ Claims
<1>1. TypeOK
  BY DEF FindingInv, Typed
<1>2. imports' \in Seq(Report) /\ Len(imports') <= MaxImports
  BY <1>1 DEF TypeOK, IngestInventory
<1>3. QED
  BY <1>1, <1>2, RecorrelatedKeeps, WriteStep DEF IngestInventory

-----------------------------------------------------------------------------
(* Records of a feed and their withdrawal.                                 *)

(* What a feed makes of a finding: its new status, with new evidence e.    *)
Sound(l, f, e) ==
    LET in == [intel EXCEPT ![f] = e]
    IN  /\ l # "none"
        /\ life \in Protected => l = life
        /\ LastDecision = Never /\ life \in Active /\ l = "fixed" =>
              \A s \in Series : scanner[s].obs # 0 => scanner[s].life # "open"
        /\ Evidenced /\ l \in Active =>
              \/ AnyActive(scanner, in)
              \/ \E s \in Series : scanner[s].obs # 0 /\ s \notin Heard(scanner)

LEMMA RecordSound ==
    ASSUME TypeOK, NoFindingNoIntel, NEW f \in Feeds, NEW at \in Times,
           NEW w, w = WithRecord(f, at, life, intel, primary)
    PROVE  w \in Targets /\ Sound(w.life, f, w.intel)
<1> DEFINE e == Refreshed(intel[f], at)
<1>1. intel \in [Feeds -> IntelEvidence] /\ life \in Lives /\ primary \in Sources /\ f \in Sources
  BY StrengthDomain DEF TypeOK, Lives, Feeds, Sources
<1>2. e \in IntelEvidence /\ (e.life = "open" \/ e.life = intel[f].life)
  BY <1>1 DEF Refreshed, IntelEvidence
<1>3. life = "none" => e.life = "open"
  BY <1>1 DEF NoFindingNoIntel, Refreshed
<1>4. CASE life = "none"
  <2>1. w = [life |-> "open", intel |-> e, primary |-> f]
    BY <1>4 DEF WithRecord
  <2> DEFINE in == [intel EXCEPT ![f] = e]
  <2>2. in[f].life = "open"
    BY <1>1, <1>3, <1>4
  <2>3. AnyActive(scanner, in)
    BY <2>2 DEF AnyActive
  <2> HIDE DEF e
  <2>4. QED
    <3>1. w \in Targets
      BY <1>1, <1>2, <2>1 DEF Targets, Lives
    <3>2. Sound("open", f, e)
      BY <1>4, <2>3 DEF Sound, Protected, Active
    <3>3. QED
      BY <2>1, <3>1, <3>2
<1>5. CASE life # "none" /\ ~SourceIsCurrent(intel[f], at)
  <2>1. w = [life |-> life, intel |-> intel[f], primary |-> primary]
    BY <1>5 DEF WithRecord
  <2>2. [intel EXCEPT ![f] = intel[f]] = intel
    BY <1>1
  <2>3. intel[f] \in IntelEvidence
    BY <1>1
  <2>4. Sound(life, f, intel[f])
    BY <1>5, <2>2 DEF Sound, Evidenced, Active
  <2>5. QED
    BY <1>1, <2>1, <2>3, <2>4 DEF Targets
<1>6. CASE life # "none" /\ SourceIsCurrent(intel[f], at)
  <2>1. w.life = Reactivated(life, e, at) /\ w.intel = e /\ w \in Targets
    <3>1. w = [life |-> Reactivated(life, e, at), intel |-> e,
               primary |-> IF Strength[f] >= Strength[primary] THEN f ELSE primary]
      BY <1>6 DEF WithRecord
    <3>2. Reactivated(life, e, at) \in Lives
      BY <1>1 DEF Reactivated, Lives
    <3> HIDE DEF e
    <3>3. QED
      BY <1>1, <1>2, <3>1, <3>2 DEF Targets
  <2> DEFINE in == [intel EXCEPT ![f] = e]
  <2>2. in[f] = e /\ \A g \in Feeds \ {f} : in[g] = intel[g]
    BY <1>1
  <2>3. w.life # "none" /\ (life \in Protected => w.life = life) /\ (life \in Active => w.life = life)
    BY <1>6, <2>1 DEF Reactivated, Protected, Active
  <2>4. ASSUME Evidenced, w.life \in Active
        PROVE  \/ AnyActive(scanner, in)
               \/ \E s \in Series : scanner[s].obs # 0 /\ s \notin Heard(scanner)
    <3>1. CASE life \in Active
      <4>1. \/ AnyActive(scanner, intel)
            \/ \E s \in Series : scanner[s].obs # 0 /\ s \notin Heard(scanner)
        BY <2>4, <3>1 DEF Evidenced
      <4>2. AnyActive(scanner, intel) => AnyActive(scanner, in)
        <5> HIDE DEF in, e
        <5>1. QED
          BY <1>2, <2>2 DEF AnyActive
      <4>3. QED
        BY <4>1, <4>2
    <3>2. CASE life \notin Active
      <4>1. e.life = "open"
        BY <2>1, <2>4, <3>2 DEF Reactivated
      <4> HIDE DEF in, e
      <4>2. QED
        BY <2>2, <4>1 DEF AnyActive
    <3>3. QED
      BY <3>1, <3>2
  <2>5. life \in Active => w.life # "fixed"
    BY <2>3 DEF Active
  <2> HIDE DEF e
  <2>6. Sound(w.life, f, w.intel)
    BY <2>1, <2>3, <2>4, <2>5 DEF Sound
  <2>7. QED
    BY <2>1, <2>6
<1>7. QED
  BY <1>4, <1>5, <1>6

LEMMA WithdrawalSound ==
    ASSUME TypeOK, life # "none", NEW f \in Feeds,
           NEW in, in = [intel EXCEPT ![f] = Withdrawn(@)]
    PROVE  /\ in \in [Feeds -> IntelEvidence] /\ in = [intel EXCEPT ![f] = in[f]]
           /\ Retired(life, scanner, in) \in Lives
           /\ Sound(Retired(life, scanner, in), f, in[f])
<1>1. intel \in [Feeds -> IntelEvidence] /\ life \in Lives
  BY DEF TypeOK, Lives
<1>2. Withdrawn(intel[f]) \in IntelEvidence
  BY <1>1, TimesAreNumbers DEF Withdrawn, IntelEvidence
<1>3. in \in [Feeds -> IntelEvidence] /\ in = [intel EXCEPT ![f] = in[f]]
  BY <1>1, <1>2
<1> DEFINE l == Retired(life, scanner, in)
<1>4. l \in Lives /\ l # "none" /\ (life \in Protected => l = life)
  BY <1>1 DEF Retired, Lives
<1>5. l \in Active => AnyActive(scanner, in)
  BY DEF Retired, Active, Protected
<1>6. life \in Active /\ l = "fixed" => ~AnyActive(scanner, in)
  BY DEF Retired, Active
<1> HIDE DEF l
<1>7. Sound(l, f, in[f])
  BY <1>3, <1>4, <1>5, <1>6 DEF Sound, AnyActive
<1>8. QED
  BY <1>3, <1>4, <1>7 DEF l

(* A step that writes what a feed makes of the finding.                    *)
LEMMA FeedStep ==
    ASSUME TypeOK, NEW f \in Feeds, NEW e \in IntelEvidence, NEW l \in Lives, NEW p \in Sources,
           Sound(l, f, e),
           life' = l, primary' = p, intel' = [intel EXCEPT ![f] = e],
           UNCHANGED <<now, endpoint, imports, scanner, manual>>,
           risk' \in Risks, nvdMark' \in Times \cup {Never}, overtaken' \in BOOLEAN,
           session'.kind \in {"idle", "read", "assessed"}
    PROVE  TypeOK' /\ NoFindingNoIntel' /\ Claims
<1>1. TypeOK'
  BY StrengthDomain DEF TypeOK, Lives, Risks
<1>2. NoFindingNoIntel'
  BY DEF NoFindingNoIntel, Sound
<1>3. ProtectedStands
  BY DEF ProtectedStands, Sound
<1>4. LastWord
  <2> SUFFICES ASSUME Evidenced, life' \in Active
               PROVE  \/ AnyActive(scanner, intel)'
                      \/ (\E s \in Series : scanner[s].obs # 0 /\ s \notin Heard(scanner))'
    BY DEF LastWord, Evidenced
  <2>1. \/ AnyActive(scanner, [intel EXCEPT ![f] = e])
        \/ \E s \in Series : scanner[s].obs # 0 /\ s \notin Heard(scanner)
    BY DEF Sound
  <2>2. AnyActive(scanner, [intel EXCEPT ![f] = e]) => AnyActive(scanner, intel)'
    BY DEF AnyActive
  <2>3. Heard(scanner)' = Heard(scanner)
    BY DEF Heard, LastDecision
  <2>4. QED
    BY <2>1, <2>2, <2>3
<1>5. OneSource
  BY DEF OneSource, Sound
<1>6. QED
  BY <1>1, <1>2, <1>3, <1>4, <1>5 DEF Claims

(* A step that changes neither the finding nor its evidence.               *)
LEMMA QuietClaims ==
    ASSUME UNCHANGED <<life, scanner, intel, manual>>
    PROVE  Claims
<1>1. ProtectedStands
  BY DEF ProtectedStands
<1>2. LastWord
  BY DEF LastWord, Evidenced, AnyActive, Heard, LastDecision
<1>3. OneSource
  BY DEF OneSource, Active
<1>4. QED
  BY <1>1, <1>2, <1>3 DEF Claims

LEMMA SyncNvdStep ==
    ASSUME FindingInv, NEW at \in Times, NEW rev \in Times \cup {Never}, SyncNvd(at, rev)
    PROVE  FindingInv' /\ Claims
<1>1. TypeOK /\ session \in {Idle} \cup Sessions /\ SessionInv /\ NoFindingNoIntel /\ RiskFollowsFinding
  BY DEF FindingInv, Typed
<1>2. /\ nvdMark' = at /\ Overlap /\ UNCHANGED <<now, endpoint, imports, scanner, manual>>
  BY DEF SyncNvd
<1>3. /\ life \in Lives /\ primary \in Sources /\ risk \in Risks
      /\ intel \in [Feeds -> IntelEvidence] /\ overtaken \in BOOLEAN /\ "nvd" \in Feeds
  BY <1>1, StrengthDomain DEF TypeOK, Lives, Risks, Feeds
<1>0. DecidedBefore'
  BY <1>2 DEF FindingInv, DecidedBefore
<1>4. CASE UNCHANGED <<life, primary, intel, risk, overtaken>>
  <2>1. session' \in {Idle} \cup Sessions /\ SessionInv' /\ session'.kind \in {"idle", "read", "assessed"}
    BY <1>1, <1>2, <1>4, OverlapKeeps
  <2>2. Typed'
    BY <1>1, <1>2, <1>4, <2>1 DEF Typed, TypeOK
  <2>3. RiskFollowsFinding' /\ NoFindingNoIntel'
    BY <1>1, <1>4 DEF RiskFollowsFinding, NoFindingNoIntel
  <2>4. QED
    BY <1>0, <1>2, <1>4, <2>1, <2>2, <2>3, QuietClaims DEF FindingInv
<1>5. ASSUME NEW l \in Lives, NEW e \in IntelEvidence, NEW p \in Sources, Sound(l, "nvd", e),
             life' = l, primary' = p, intel' = [intel EXCEPT !["nvd"] = e],
             risk' \in Risks, overtaken' \in BOOLEAN, RiskFollowsFinding'
      PROVE  FindingInv' /\ Claims
  <2>1. l # "none"
    BY <1>5 DEF Sound
  <2>2. session' \in {Idle} \cup Sessions /\ SessionInv' /\ session'.kind \in {"idle", "read", "assessed"}
    BY <1>1, <1>2, <1>5, <2>1, OverlapKeeps
  <2>3. TypeOK' /\ NoFindingNoIntel' /\ Claims
    BY <1>1, <1>2, <1>3, <1>5, <2>2, FeedStep
  <2>4. QED
    BY <1>0, <1>5, <2>2, <2>3 DEF FindingInv, Typed
<1>6. CASE rev # Never /\ Matches(endpoint)
  <2> DEFINE w == WithRecord("nvd", rev, life, intel, primary)
  <2>1. w \in Targets /\ Sound(w.life, "nvd", w.intel)
    BY <1>1, <1>3, <1>6, RecordSound
  <2>2. life' = w.life /\ primary' = w.primary /\ intel' = [intel EXCEPT !["nvd"] = w.intel]
    BY <1>6 DEF SyncNvd
  <2>3. \/ life = "none" \/ SourceIsCurrent(intel["nvd"], rev)
        \/ w.life = life
    BY DEF WithRecord
  <2>4. \/ risk' = Assessed(w.life) /\ overtaken' = FALSE
        \/ w.life = life /\ UNCHANGED <<risk, overtaken>>
    BY <1>6, <2>3 DEF SyncNvd
  <2>5. w.life \in Lives /\ w.intel \in IntelEvidence /\ w.primary \in Sources
    BY <2>1 DEF Targets
  <2> HIDE DEF w
  <2>6. risk' \in Risks /\ overtaken' \in BOOLEAN /\ RiskFollowsFinding'
    BY <1>1, <1>3, <2>2, <2>4, AssessedTyped DEF RiskFollowsFinding
  <2>7. QED
    BY <1>5, <2>1, <2>2, <2>5, <2>6
<1>7. CASE rev = Never /\ intel["nvd"].life # "none"
  <2> DEFINE in == [intel EXCEPT !["nvd"] = Withdrawn(@)]
  <2>1. life # "none"
    BY <1>1, <1>3, <1>7 DEF NoFindingNoIntel
  <2>2. /\ intel' = in /\ life' = Retired(life, scanner, in) /\ primary' = Selected(scanner, in)
        /\ risk' = Assessed(life') /\ overtaken' = FALSE
    BY <1>7 DEF SyncNvd
  <2>3. /\ in \in [Feeds -> IntelEvidence] /\ in = [intel EXCEPT !["nvd"] = in["nvd"]]
        /\ life' \in Lives /\ Sound(life', "nvd", in["nvd"])
    BY <1>1, <1>3, <2>1, <2>2, WithdrawalSound
  <2>4. primary' \in Sources
    BY <2>2, SelectedTyped
  <2>5. risk' \in Risks /\ RiskFollowsFinding'
    BY <2>2, AssessedTyped DEF RiskFollowsFinding
  <2> HIDE DEF in
  <2>6. in["nvd"] \in IntelEvidence
    BY <1>3, <2>3
  <2>7. QED
    BY <1>5, <2>2, <2>3, <2>4, <2>5, <2>6
<1>8. QED
  BY <1>4, <1>6, <1>7 DEF SyncNvd

LEMMA DecideStep ==
    ASSUME FindingInv, NEW a \in Analysts, NEW l \in {"open", "fixed", "accepted"}, Decide(a, l)
    PROVE  FindingInv' /\ Claims
<1>1. TypeOK /\ session \in {Idle} \cup Sessions /\ SessionInv
  BY DEF FindingInv, Typed
<1>2. /\ life' = IF l = "open" /\ life = "fixed" THEN "reopened" ELSE l
      /\ manual' = [manual EXCEPT ![a] = [life |-> l, at |-> now]]
      /\ risk' = Assessed(l) /\ overtaken' = FALSE /\ Overlap /\ now' = now + 1 /\ now < MaxTime
      /\ UNCHANGED <<endpoint, imports, primary, scanner, intel, nvdMark>>
  BY DEF Decide
<1>3. life' \in Lives /\ life' # "none" /\ Assessed(life') = Assessed(l)
  BY <1>2 DEF Lives, Assessed, Active
<1>4. session' \in {Idle} \cup Sessions /\ SessionInv' /\ session'.kind \in {"idle", "read", "assessed"}
  BY <1>1, <1>2, <1>3, OverlapKeeps
<1>5. now \in Times /\ now' \in Times /\ manual \in [Analysts -> Decision]
  BY <1>1, <1>2, BoundsAssumption DEF TypeOK, Times
<1>6. [life |-> l, at |-> now] \in Decision
  BY <1>5 DEF Decision
<1>7. manual' \in [Analysts -> Decision] /\ manual'[a].life = l /\ manual'[a].at = now
  BY <1>2, <1>5, <1>6
<1>8. risk' \in Risks
  BY <1>2, AssessedTyped
<1>9. Typed'
  BY <1>1, <1>2, <1>3, <1>4, <1>5, <1>7, <1>8 DEF Typed, TypeOK, Lives, Risks
<1>10. RiskFollowsFinding' /\ NoFindingNoIntel'
  BY <1>2, <1>3 DEF RiskFollowsFinding, NoFindingNoIntel
<1>11. LastWord
  <2>1. life' \in Active => l = "open"
    BY <1>2 DEF Active
  <2>2. l = "open" => AnyActive(scanner, intel)'
    BY <1>7 DEF AnyActive
  <2>3. QED
    BY <2>1, <2>2 DEF LastWord, Evidenced
<1>12. manual' # manual
  BY <1>5, <1>7 DEF FindingInv, DecidedBefore, Times
<1>13. DecidedBefore'
  <2> SUFFICES ASSUME NEW c \in Analysts PROVE manual'[c].at < now + 1
    BY <1>2 DEF DecidedBefore
  <2>1. manual'[c].at = now \/ manual'[c] = manual[c]
    BY <1>2, <1>5, <1>7
  <2>2. manual[c].at < now /\ now \in Nat
    BY <1>5, TimesAreNumbers DEF FindingInv, DecidedBefore
  <2>3. manual[c].at \in Int
    BY <1>1, DecisionTimes
  <2>4. QED
    BY <2>1, <2>2, <2>3
<1>14. ProtectedStands /\ OneSource
  BY <1>12 DEF ProtectedStands, OneSource
<1>15. QED
  BY <1>4, <1>9, <1>10, <1>11, <1>13, <1>14 DEF FindingInv, Claims

LEMMA ReassessStep ==
    ASSUME FindingInv, ReassessFinding
    PROVE  FindingInv' /\ Claims
<1>1. TypeOK /\ session \in {Idle} \cup Sessions /\ SessionInv
  BY DEF FindingInv, Typed
<1>2. /\ risk' = Assessed(life) /\ overtaken' = FALSE /\ Overlap
      /\ UNCHANGED <<now, endpoint, imports, life, primary, scanner, intel, manual, nvdMark>>
  BY DEF ReassessFinding
<1>3. session' \in {Idle} \cup Sessions /\ SessionInv' /\ session'.kind \in {"idle", "read", "assessed"}
  BY <1>1, <1>2, OverlapKeeps
<1>4. risk' \in Risks
  BY <1>2, AssessedTyped
<1>5. Typed'
  BY <1>1, <1>2, <1>3, <1>4 DEF Typed, TypeOK, Risks
<1>6. RiskFollowsFinding' /\ NoFindingNoIntel' /\ DecidedBefore'
  BY <1>2 DEF FindingInv, RiskFollowsFinding, NoFindingNoIntel, DecidedBefore
<1>7. QED
  BY <1>2, <1>3, <1>5, <1>6, QuietClaims DEF FindingInv

(* A transaction of the hub that begins is fresh.                          *)
LEMMA BeginStep ==
    ASSUME FindingInv, NEW target \in Targets, target.life # "none",
           (life # "none" /\ target = HubWithdrawal) \/ \E at \in Times : target = HubRecord(at),
           session' = FirstRead(target),
           UNCHANGED <<now, endpoint, imports, life, primary, scanner, intel, manual, risk,
                       nvdMark, overtaken>>
    PROVE  FindingInv' /\ Claims
<1>1. TypeOK /\ life \in Lives /\ primary \in Sources
  BY StrengthDomain DEF FindingInv, Typed, TypeOK, Lives
<1>2. session' \in Sessions /\ session'.kind = "read" /\ session'.to = target
        /\ session'.life = life /\ session'.primary = primary
  BY <1>1 DEF FirstRead, Sessions, Risks
<1>3. Typed'
  BY <1>1, <1>2 DEF Typed, TypeOK
<1>4. HubWithdrawal' = HubWithdrawal /\ \A at : HubRecord(at)' = HubRecord(at)
  BY DEF HubWithdrawal, HubRecord, Retired, AnyActive, WithRecord, Reactivated, LastDecision
<1>5. Fresh'
  BY <1>2, <1>4 DEF Fresh
<1>6. SessionInv'
  BY <1>2, <1>5 DEF SessionInv
<1>7. RiskFollowsFinding' /\ NoFindingNoIntel' /\ DecidedBefore'
  BY DEF FindingInv, RiskFollowsFinding, NoFindingNoIntel, DecidedBefore
<1>8. QED
  BY <1>3, <1>6, <1>7, QuietClaims DEF FindingInv

LEMMA BeginCorrelationStep ==
    ASSUME FindingInv, NEW at \in Times, BeginCorrelation(at)
    PROVE  FindingInv' /\ Claims
<1> DEFINE w == HubRecord(at)
<1>1. "hub" \in Feeds
  BY DEF Feeds
<1>2. w \in Targets /\ w.life # "none"
  BY <1>1, RecordSound DEF FindingInv, Typed, HubRecord, Sound
<1>3. session' = FirstRead(w)
  BY DEF BeginCorrelation, HubRecord
<1>4. QED
  BY <1>2, <1>3, BeginStep DEF BeginCorrelation

LEMMA BeginWithdrawalStep ==
    ASSUME FindingInv, BeginWithdrawal
    PROVE  FindingInv' /\ Claims
<1> DEFINE in == [intel EXCEPT !["hub"] = Withdrawn(@)]
<1>1. "hub" \in Feeds
  BY DEF Feeds
<1>2. life # "none"
  BY <1>1 DEF BeginWithdrawal, FindingInv, Typed, NoFindingNoIntel
<1>3. /\ in \in [Feeds -> IntelEvidence] /\ Retired(life, scanner, in) \in Lives
      /\ Sound(Retired(life, scanner, in), "hub", in["hub"])
  BY <1>1, <1>2, WithdrawalSound DEF FindingInv, Typed
<1>4. HubWithdrawal = [life |-> Retired(life, scanner, in), intel |-> in["hub"],
                       primary |-> Selected(scanner, in)]
  BY DEF HubWithdrawal
<1>5. session' = FirstRead(HubWithdrawal)
  BY DEF BeginWithdrawal, HubWithdrawal
<1> HIDE DEF in
<1>6. HubWithdrawal \in Targets /\ HubWithdrawal.life # "none"
  BY <1>1, <1>3, <1>4, SelectedTyped DEF Targets, Sound
<1>7. QED
  BY <1>2, <1>5, <1>6, BeginStep DEF BeginWithdrawal

LEMMA ReadRiskStep ==
    ASSUME FindingInv, ReadRisk
    PROVE  FindingInv' /\ Claims
<1>1. TypeOK /\ risk \in Risks
  BY DEF FindingInv, Typed, TypeOK, Risks
<1>2. session \in Sessions /\ session # Idle
  BY IdleIsNoSession DEF FindingInv, Typed, ReadRisk, Idle
<1>3. session' = [session EXCEPT !.kind = "assessed", !.risk = risk]
  BY DEF ReadRisk
<1>4. session' \in Sessions
  BY <1>1, <1>2, <1>3 DEF Sessions
<1>5. /\ session'.kind = "assessed" /\ session'.to = session.to /\ session'.risk = risk
      /\ session'.life = session.life /\ session'.primary = session.primary
      /\ session'.overlapped = session.overlapped
  BY <1>2, <1>3 DEF Sessions
<1>6. UNCHANGED <<now, endpoint, imports, life, primary, scanner, intel, manual, risk,
                  nvdMark, overtaken>>
  BY DEF ReadRisk
<1>7. HubWithdrawal' = HubWithdrawal /\ \A at : HubRecord(at)' = HubRecord(at)
  BY <1>6 DEF HubWithdrawal, HubRecord, Retired, AnyActive, WithRecord, Reactivated, LastDecision
<1>8. Fresh => Fresh'
  BY <1>5, <1>6, <1>7 DEF Fresh
<1>9. SessionInv'
  BY <1>2, <1>5, <1>6, <1>8 DEF FindingInv, SessionInv
<1>10. Typed'
  BY <1>1, <1>4, <1>5, <1>6 DEF Typed, TypeOK
<1>11. RiskFollowsFinding' /\ NoFindingNoIntel' /\ DecidedBefore'
  BY <1>6 DEF FindingInv, RiskFollowsFinding, NoFindingNoIntel, DecidedBefore
<1>12. QED
  BY <1>6, <1>9, <1>10, <1>11, QuietClaims DEF FindingInv

LEMMA TickStep ==
    ASSUME FindingInv, Tick
    PROVE  FindingInv' /\ Claims
<1>1. TypeOK
  BY DEF FindingInv, Typed
<1>2. now' = now + 1 /\ now' \in Times /\ now \in Nat
  BY <1>1, BoundsAssumption DEF TypeOK, Tick, Times
<1>3. UNCHANGED <<endpoint, imports, life, primary, scanner, intel, manual, risk, nvdMark,
                  session, overtaken>>
  BY DEF Tick
<1>4. Typed'
  BY <1>1, <1>2, <1>3 DEF FindingInv, Typed, TypeOK
<1>5. HubWithdrawal' = HubWithdrawal /\ \A at : HubRecord(at)' = HubRecord(at)
  BY <1>3 DEF HubWithdrawal, HubRecord, Retired, AnyActive, WithRecord, Reactivated, LastDecision
<1>6. Fresh' <=> Fresh
  BY <1>3, <1>5 DEF Fresh
<1>7. SessionInv' /\ RiskFollowsFinding' /\ NoFindingNoIntel'
  BY <1>3, <1>6 DEF FindingInv, SessionInv, RiskFollowsFinding, NoFindingNoIntel
<1>8. DecidedBefore'
  <2> SUFFICES ASSUME NEW a \in Analysts PROVE manual[a].at < now + 1
    BY <1>2, <1>3 DEF DecidedBefore
  <2>1. manual[a].at < now /\ manual[a].at \in Int
    BY <1>1, DecisionTimes DEF FindingInv, DecidedBefore
  <2>2. QED
    BY <1>2, <2>1
<1>9. QED
  BY <1>3, <1>4, <1>7, <1>8, QuietClaims DEF FindingInv

(* The hub commits.  When nobody overtook it, what it writes is what the   *)
(* record or the withdrawal makes of the finding as it is.                 *)
LEMMA CommitStep ==
    ASSUME FindingInv, Commit
    PROVE  FindingInv' /\ Claims
<1>1. TypeOK /\ NoFindingNoIntel /\ RiskFollowsFinding
  BY DEF FindingInv, Typed
<1>2. session \in Sessions /\ session # Idle
  BY IdleIsNoSession DEF FindingInv, Typed, Commit, Idle
<1>3. /\ session' = Idle /\ session.kind = "assessed"
      /\ UNCHANGED <<now, endpoint, imports, scanner, manual, nvdMark>>
  BY DEF Commit
<1>4. session'.kind = "idle" /\ SessionInv'
  BY <1>3 DEF Idle, SessionInv
<1>5. DecidedBefore'
  BY <1>3 DEF FindingInv, DecidedBefore
<1>6. /\ session.to.life \in Lives /\ session.to.intel \in IntelEvidence
      /\ session.to.primary \in Sources /\ session.overlapped \in BOOLEAN
      /\ session.life \in Lives /\ session.primary \in Sources /\ session.risk \in Risks
  BY <1>2 DEF Sessions, Targets
<1>7. /\ life \in Lives /\ primary \in Sources /\ risk \in Risks /\ "hub" \in Feeds
      /\ intel \in [Feeds -> IntelEvidence] /\ overtaken \in BOOLEAN
  BY <1>1, StrengthDomain DEF TypeOK, Lives, Risks, Feeds
<1>8. CASE UNCHANGED <<life, primary, intel, risk, overtaken>>
  <2>1. Typed'
    BY <1>1, <1>3, <1>4, <1>8 DEF Typed, TypeOK
  <2>2. RiskFollowsFinding' /\ NoFindingNoIntel'
    BY <1>1, <1>8 DEF RiskFollowsFinding, NoFindingNoIntel
  <2>3. QED
    BY <1>3, <1>4, <1>5, <1>8, <2>1, <2>2, QuietClaims DEF FindingInv
<1>9. CASE /\ session.life = "none" => life = "none"
           /\ life' = Changed(session.life, session.to.life, life)
           /\ primary' = Changed(session.primary, session.to.primary, primary)
           /\ intel' = [intel EXCEPT !["hub"] = session.to.intel]
           /\ risk' = Changed(session.risk, Assessed(session.to.life), risk)
           /\ overtaken' = session.overlapped
  <2>1. life' \in Lives /\ primary' \in Sources /\ risk' \in Risks /\ overtaken' \in BOOLEAN
          /\ intel' \in [Feeds -> IntelEvidence]
    BY <1>6, <1>7, <1>9, AssessedTyped DEF Changed
  <2>2. Typed'
    BY <1>1, <1>3, <1>4, <2>1, StrengthDomain DEF Typed, TypeOK, Lives, Risks
  <2>3. life' # "none"
    <3>1. session.to.life # "none" /\ (session.life # "none" => life # "none")
      BY <1>2 DEF FindingInv, SessionInv
    <3>2. QED
      BY <1>9, <3>1 DEF Changed
  <2>4. NoFindingNoIntel'
    BY <2>3 DEF NoFindingNoIntel
  <2>5. CASE session.overlapped
    <3>1. RiskFollowsFinding'
      BY <1>9, <2>5 DEF RiskFollowsFinding
    <3>2. StaleCommit
      BY <1>3, <2>5 DEF StaleCommit
    <3>3. Claims
      BY <3>2 DEF Claims, ProtectedStands, LastWord, OneSource
    <3>4. QED
      BY <1>4, <1>5, <2>2, <2>4, <3>1, <3>3 DEF FindingInv
  <2>6. CASE ~session.overlapped
    <3>1. /\ session.life = life /\ session.risk = risk
          /\ \/ life # "none" /\ session.to = HubWithdrawal
             \/ \E at \in Times : session.to = HubRecord(at)
      BY <1>2, <1>3, <2>6 DEF FindingInv, SessionInv, Fresh
    <3>2. life' = session.to.life /\ risk' = Assessed(session.to.life)
      <4>1. life' = IF session.life = session.to.life THEN life ELSE session.to.life
        BY <1>9 DEF Changed
      <4>2. risk' = IF session.risk = Assessed(session.to.life) THEN risk
                    ELSE Assessed(session.to.life)
        BY <1>9 DEF Changed
      <4>3. session.life = life /\ session.risk = risk
        BY <3>1
      <4>4. life' = session.to.life
        BY <4>1, <4>3
      <4>5. risk' = Assessed(session.to.life)
        BY <4>2, <4>3
      <4>6. QED
        BY <4>4, <4>5
    <3>3. RiskFollowsFinding'
      BY <3>2 DEF RiskFollowsFinding
    <3>4. Sound(session.to.life, "hub", session.to.intel)
      <4>1. CASE life # "none" /\ session.to = HubWithdrawal
        <5> DEFINE in == [intel EXCEPT !["hub"] = Withdrawn(@)]
        <5>1. session.to.life = Retired(life, scanner, in) /\ session.to.intel = in["hub"]
          BY <4>1 DEF HubWithdrawal
        <5>2. in = [intel EXCEPT !["hub"] = Withdrawn(@)] /\ life # "none" /\ "hub" \in Feeds
          BY <1>7, <4>1
        <5> HIDE DEF in
        <5>3. Sound(Retired(life, scanner, in), "hub", in["hub"])
          BY <1>1, <5>2, WithdrawalSound
        <5>4. QED
          BY <5>1, <5>3
      <4>2. ASSUME NEW at \in Times, session.to = HubRecord(at)
            PROVE  Sound(session.to.life, "hub", session.to.intel)
        BY <1>1, <1>7, <4>2, RecordSound DEF HubRecord
      <4>3. QED
        BY <3>1, <4>1, <4>2
    <3>5. nvdMark' \in Times \cup {Never}
      BY <1>1, <1>3 DEF TypeOK
    <3>6. Claims
      <4>1. \A l \in Lives, e \in IntelEvidence, p \in Sources :
               Sound(l, "hub", e) /\ life' = l /\ primary' = p /\ intel' = [intel EXCEPT !["hub"] = e]
                 => Claims
        BY <1>1, <1>3, <1>4, <1>7, <2>1, <3>5, FeedStep
      <4>2. intel' = [intel EXCEPT !["hub"] = session.to.intel]
        BY <1>9
      <4>3. QED
        BY <1>6, <2>1, <3>2, <3>4, <4>1, <4>2
    <3>7. QED
      BY <1>4, <1>5, <2>2, <2>4, <3>3, <3>6 DEF FindingInv
  <2>7. QED
    BY <1>6, <2>5, <2>6
<1>10. QED
  BY <1>8, <1>9 DEF Commit

LEMMA FindingInit == Init => FindingInv
<1> SUFFICES ASSUME Init PROVE FindingInv
  OBVIOUS
<1>1. /\ NoEvidence \in Evidence /\ NoIntel \in IntelEvidence /\ Undecided \in Decision
      /\ 0 \in Times /\ now = 0
  BY BoundsAssumption DEF Init, NoEvidence, Evidence, NoIntel, IntelEvidence, Undecided, Decision, Times
<1>2. Typed
  <2>1. imports \in Seq(Report) /\ Len(imports) <= MaxImports
    <3>1. imports = << >> /\ Len(imports) = 0
      BY DEF Init
    <3>2. QED
      BY <3>1, BoundsAssumption
  <2>2. scanner \in [Series -> Evidence] /\ intel \in [Feeds -> IntelEvidence]
          /\ manual \in [Analysts -> Decision]
    BY <1>1 DEF Init
  <2>3. primary \in DOMAIN Strength
    BY StrengthDomain DEF Init, Sources
  <2>4. session = Idle /\ session.kind = "idle"
    BY DEF Init, Idle
  <2>5. QED
    BY <1>1, <2>1, <2>2, <2>3, <2>4 DEF Init, Typed, TypeOK
<1>3. RiskFollowsFinding /\ SessionInv
  BY DEF Init, RiskFollowsFinding, Assessed, SessionInv
<1>4. NoFindingNoIntel
  BY DEF Init, NoFindingNoIntel, NoIntel
<1>5. DecidedBefore
  BY <1>1 DEF Init, DecidedBefore, Undecided, Never
<1>6. QED
  BY <1>2, <1>3, <1>4, <1>5 DEF FindingInv

LEMMA FindingStep ==
    ASSUME FindingInv, [Next]_vars
    PROVE  FindingInv' /\ Claims
<1>1. CASE UNCHANGED vars
  <2>1. HubWithdrawal' = HubWithdrawal /\ \A at : HubRecord(at)' = HubRecord(at)
    BY <1>1 DEF vars, HubWithdrawal, HubRecord, Retired, AnyActive, WithRecord, Reactivated, LastDecision
  <2>2. Fresh' <=> Fresh
    BY <1>1, <2>1 DEF Fresh, vars
  <2>3. FindingInv'
    BY <1>1, <2>2 DEF FindingInv, Typed, TypeOK, SessionInv, RiskFollowsFinding, NoFindingNoIntel,
                      DecidedBefore, vars
  <2>4. QED
    BY <1>1, <2>3, QuietClaims DEF vars
<1>2. CASE Next
  BY <1>2, ImportScanStep, IngestInventoryStep, DecideStep, SyncNvdStep, ReassessStep,
     BeginCorrelationStep, BeginWithdrawalStep, ReadRiskStep, CommitStep, TickStep DEF Next
<1>3. QED
  BY <1>1, <1>2

(* The invariant holds, and with it the types of the model's variables.    *)
THEOREM FindingInvHolds == Spec => []FindingInv
<1>1. FindingInv /\ [Next]_vars => FindingInv'
  BY FindingStep
<1>2. QED
  BY <1>1, FindingInit, PTL DEF Spec

(* Every row keeps the type its columns give it (FindingRow,               *)
(* FindingEvidenceRow, RiskRow).                                           *)
THEOREM TypeCorrect == Spec => []TypeOK
<1>1. FindingInv => TypeOK
  BY DEF FindingInv, Typed
<1>2. QED
  BY <1>1, FindingInvHolds, PTL

(* The risk of a finding is open exactly while the finding is active, after*)
(* every import, inventory, synchronisation and decision, until the hub    *)
(* assesses it from a finding it read before somebody else changed it.     *)
THEOREM RiskAlwaysFollows == Spec => []RiskFollowsFinding
<1>1. FindingInv => RiskFollowsFinding
  BY DEF FindingInv
<1>2. QED
  BY <1>1, FindingInvHolds, PTL

(* The step that withdraws the last word for a finding closes it           *)
(* (_aggregate_scanner_finding_lifecycle, retire_nvd_snapshot,             *)
(* retire_record_effects), for any number of scan series, stored reports   *)
(* and analysts.                                                           *)
THEOREM LastWordAlwaysCloses == Spec => LastWordCloses
<1>1. FindingInv /\ [Next]_vars => [Evidenced /\ ~StaleCommit => Evidenced']_vars
  BY FindingStep DEF Claims, LastWord
<1>2. QED
  BY <1>1, FindingInvHolds, PTL DEF Spec, LastWordCloses

(* Until an analyst decides, no report, snapshot or withdrawal closes a    *)
(* finding that another scan series still reports.                         *)
THEOREM OneSourceNeverCloses == Spec => OneSourceNeverClosesAnother
<1>1. FindingInv /\ [Next]_vars =>
         [LastDecision = Never /\ life \in Active /\ life' = "fixed" /\ manual' = manual
            /\ ~StaleCommit
            => \A s \in Series : scanner'[s].obs # 0 => scanner'[s].life # "open"]_vars
  BY FindingStep DEF Claims, OneSource
<1>2. QED
  BY <1>1, FindingInvHolds, PTL DEF Spec, OneSourceNeverClosesAnother

-----------------------------------------------------------------------------
(* Evidence and the reports it was taken from.  A report that may replace  *)
(* the row of its series observes the finding; a snapshot without it omits *)
(* it.                                                                     *)

Observes(im, s, i) == im[i].series = s /\ im[i].state # "absent" /\ ~im[i].future
Omits(im, s, i) == im[i].series = s /\ im[i].state = "absent"

(* Report j is not older than what was reported before it.                 *)
Settled(im, s, j) ==
    \A i \in 1..(j - 1) : Observes(im, s, i) =>
        /\ EffectiveTime(im[i]) <= EffectiveTime(im[j])
        /\ \A a \in (i + 1)..(j - 1) : Omits(im, s, a) => im[a].at <= EffectiveTime(im[j])

(* A row is a report of its series, and of the reports before it none is   *)
(* newer; a quarantined one is only kept while there is no other.          *)
RowInv(im, s, e) ==
    /\ e.resolved # Never => ~e.future /\ e.last <= e.resolved
    /\ e.obs # 0 =>
        /\ e.obs \in 1..Len(im) /\ im[e.obs].series = s /\ im[e.obs].state # "absent"
        /\ e.future = im[e.obs].future /\ e.ingested = im[e.obs].received
        /\ EffectiveTime(im[e.obs]) <= Revision(e)
        /\ \A i \in 1..(e.obs - 1) : Observes(im, s, i) => ~e.future
        /\ Settled(im, s, e.obs)

(* The first k reports have been read: the row is no older than any.       *)
ReadUpTo(im, k, s, e) ==
    \A i \in 1..k : Observes(im, s, i) =>
        /\ e.obs # 0 /\ ~e.future /\ EffectiveTime(im[i]) <= Revision(e)
        /\ \A a \in (i + 1)..k : Omits(im, s, a) => im[a].at <= Revision(e)

(* While the reports are read again an older one may take the row from one *)
(* that was heard, but only until that one, j, is read: nothing before it  *)
(* will keep it from the row.                                              *)
HeardRow(e) == e.obs # 0 /\ e.ingested > LastDecision /\ Revision(e) > LastDecision
Returns(im, k, s, e, j) ==
    /\ Observes(im, s, j) /\ im[j].received > LastDecision /\ EffectiveTime(im[j]) > LastDecision
    /\ e.obs # 0 /\ ~e.future /\ Revision(e) <= EffectiveTime(im[j])
    /\ \A i \in (k + 1)..(j - 1) :
          /\ Observes(im, s, i) => EffectiveTime(im[i]) <= EffectiveTime(im[j])
          /\ Omits(im, s, i) => im[i].at <= EffectiveTime(im[j])
Promised(im, k, s, e) == HeardRow(e) \/ \E j \in (k + 1)..Len(im) : Returns(im, k, s, e, j)

(* Reports are numbered as they are received.                              *)
Ordered(im) == \A i, j \in 1..Len(im) : i <= j => im[i].received <= im[j].received

Reports(im) == im \in Seq(Report) /\ Len(im) <= MaxImports

LEMMA ReportTyped ==
    ASSUME NEW im, Reports(im), NEW i \in 1..Len(im)
    PROVE  /\ i \in 1..MaxImports /\ i \in Nat /\ im[i] \in Report /\ Len(im) \in Nat
           /\ EffectiveTime(im[i]) \in Nat /\ im[i].received \in Nat /\ im[i].at \in Nat
           /\ im[i].future \in BOOLEAN
<1>1. im[i] \in Report /\ i \in 1..MaxImports /\ i \in Nat /\ Len(im) \in Nat
  BY BoundsAssumption DEF Reports
<1>2. EffectiveTime(im[i]) \in Times
  BY <1>1, EffectiveTimeTyped
<1>3. QED
  BY <1>1, <1>2, BoundsAssumption DEF Report, Times

LEMMA RowTyped ==
    ASSUME NEW e \in Evidence
    PROVE  /\ e.last \in Nat /\ e.ingested \in Nat /\ Revision(e) \in Nat /\ e.obs \in Nat
           /\ e.future \in BOOLEAN /\ e.resolved \in Int
           /\ e.resolved # Never => Revision(e) = e.resolved
           /\ e.resolved = Never => Revision(e) = e.last
<1>1. /\ e.last \in Times /\ e.ingested \in Times /\ e.resolved \in Times \cup {Never}
      /\ e.obs \in 0..MaxImports /\ e.future \in BOOLEAN
  BY DEF Evidence
<1>2. e.resolved # Never => Revision(e) = e.resolved
  BY DEF Revision
<1>3. e.resolved = Never => Revision(e) = e.last
  BY DEF Revision
<1>4. QED
  BY <1>1, <1>2, <1>3, BoundsAssumption DEF Times, Never

LEMMA DecisionNumber ==
    ASSUME TypeOK
    PROVE  LastDecision \in Int
<1>1. LastDecision \in Times \cup {Never}
  BY LastDecisionBounds
<1> HIDE DEF LastDecision
<1>2. QED
  BY <1>1, BoundsAssumption DEF Times, Never

LEMMA MaxIsOne ==
    ASSUME NEW a \in Times, NEW b \in Times
    PROVE  Max({a, b}) \in {a, b}
<1>1. \E x \in {a, b} : \A y \in {a, b} : x >= y
  BY BoundsAssumption DEF Times
<1>2. QED
  BY <1>1 DEF Max

(* An observation either leaves the row what it is or takes it.            *)
Carried(e, f) ==
    f.obs = e.obs /\ f.future = e.future /\ f.ingested = e.ingested /\ f.resolved = e.resolved
KeepsRow(e, f, i, o) ==
    /\ e.obs # 0 /\ Carried(e, f) /\ e.last <= f.last
    /\ f.last # e.last => f.last <= Revision(e)
    /\ ~o.future => ~e.future /\ (e.obs = i \/ EffectiveTime(o) < Revision(e))
TakesRow(e, f, i, o) ==
    /\ f.obs = i /\ f.future = o.future /\ f.ingested = o.received /\ f.resolved = Never
    /\ EffectiveTime(o) <= f.last
    /\ f.last # EffectiveTime(o) => e.obs # 0 /\ f.last = e.last
    /\ e.obs # 0 => ~o.future /\ e.last <= f.last /\ (e.future \/ Revision(e) <= EffectiveTime(o))

LEMMA UpsertRow ==
    ASSUME NEW im, Reports(im), NEW i \in 1..Len(im), im[i].state # "absent",
           NEW e \in Evidence, RowInv(im, im[i].series, e)
    PROVE  LET f == Upsert(e, i, im[i])
           IN  KeepsRow(e, f, i, im[i]) \/ TakesRow(e, f, i, im[i])
<1> DEFINE o == im[i]
           t == EffectiveTime(o)
           f == Upsert(e, i, o)
<1>1. i \in 1..MaxImports /\ o \in Report /\ i \in Nat /\ t \in Times /\ o.future \in BOOLEAN
  BY ReportTyped, EffectiveTimeTyped
<1>2. /\ e.last \in Nat /\ Revision(e) \in Nat /\ e.obs \in Nat /\ e.future \in BOOLEAN
      /\ e.last \in Times
  BY RowTyped DEF Evidence
<1>3. t \in Nat
  BY <1>1, ReportTyped
<1>4. Max({e.last, t}) \in {e.last, t} /\ Max({e.last, t}) >= e.last /\ Max({e.last, t}) >= t
        /\ Max({e.last, t}) \in Nat
  BY <1>1, <1>2, <1>3, MaxOfTwo, MaxIsOne
<1>5. CASE e.obs = 0
  <2>1. f = Represents(i, o, t)
    BY <1>5 DEF Upsert
  <2>2. TakesRow(e, f, i, o)
    <3> HIDE DEF f, t, o
    <3>1. QED
      BY <1>3, <1>5, <2>1 DEF TakesRow, Represents, t
  <2>3. QED
    BY <2>2
<1>6. CASE e.obs = i
  <2>1. f = Revisited(e, o) /\ e.obs # 0
    BY <1>1, <1>6 DEF Upsert
  <2>2. f = e \/ f = [e EXCEPT !.life = o.state, !.uncorrelated = FALSE]
    BY <2>1 DEF Revisited
  <2>3. Carried(e, f) /\ f.last = e.last
    <3> HIDE DEF f, o
    <3>1. QED
      BY <2>2 DEF Carried, Evidence
  <2>4. e.future = o.future
    BY <1>6, <2>1 DEF RowInv
  <2>5. KeepsRow(e, f, i, o)
    <3> HIDE DEF f, o, t
    <3>1. QED
      BY <1>2, <1>6, <2>1, <2>3, <2>4 DEF KeepsRow
  <2>6. QED
    BY <2>5
<1>7. CASE e.obs \notin {0, i} /\ Replaces(o, e)
  <2>1. f = Represents(i, o, Max({e.last, t}))
    BY <1>7 DEF Upsert
  <2>2. ~o.future /\ (e.future \/ t >= Revision(e))
    BY <1>7 DEF Replaces
  <2> DEFINE m == Max({e.last, t})
  <2>3. f.obs = i /\ f.future = o.future /\ f.ingested = o.received /\ f.resolved = Never /\ f.last = m
    BY <2>1 DEF Represents
  <2> HIDE DEF f, m, o, t
  <2>4. t <= m /\ e.last <= m /\ (m # t => m = e.last)
    BY <1>2, <1>3, <1>4 DEF m
  <2>5. e.future \/ Revision(e) <= t
    BY <1>2, <1>3, <2>2
  <2>6. TakesRow(e, f, i, o)
    BY <1>7, <2>2, <2>3, <2>4, <2>5 DEF TakesRow, t
  <2>7. QED
    BY <2>6 DEF f, o
<1>8. CASE e.obs \notin {0, i} /\ ~Replaces(o, e)
  <2>1. f = IF o.future THEN e ELSE [e EXCEPT !.last = Max({e.last, t})]
    BY <1>8 DEF Upsert
  <2>2. ~o.future => ~e.future /\ t < Revision(e)
    <3>1. ~o.future => ~e.future /\ ~(t >= Revision(e))
      BY <1>8 DEF Replaces
    <3> HIDE DEF t, o
    <3>2. QED
      BY <1>2, <1>3, <3>1
  <2> DEFINE m == Max({e.last, t})
  <2>3. Carried(e, f) /\ (f.last = e.last \/ (~o.future /\ f.last = m))
    <3> HIDE DEF m, o
    <3>1. f = e \/ (~o.future /\ f = [e EXCEPT !.last = m])
      BY <2>1 DEF m
    <3> HIDE DEF f
    <3>2. QED
      BY <3>1 DEF Carried, Evidence
  <2> HIDE DEF f, m, o, t
  <2>4. e.last <= m /\ (m # e.last => m = t)
    BY <1>2, <1>3, <1>4 DEF m
  <2>5. e.last <= f.last /\ (f.last # e.last => f.last <= Revision(e))
    BY <1>2, <1>3, <2>2, <2>3, <2>4
  <2>6. KeepsRow(e, f, i, o)
    BY <1>8, <2>2, <2>3, <2>5 DEF KeepsRow, t
  <2>7. QED
    BY <2>6 DEF f, o
<1>9. QED
  BY <1>5, <1>6, <1>7, <1>8

(* A row never becomes older.                                              *)
LEMMA RowAdvances ==
    ASSUME NEW im, Reports(im), NEW i \in 1..Len(im), NEW s,
           NEW e \in Evidence, RowInv(im, s, e), NEW f \in Evidence,
           KeepsRow(e, f, i, im[i]) \/ TakesRow(e, f, i, im[i])
    PROVE  /\ f.obs # 0 /\ e.last <= Revision(e)
           /\ e.obs # 0 => Revision(e) <= Revision(f)
           /\ KeepsRow(e, f, i, im[i]) => Revision(f) = Revision(e)
           /\ TakesRow(e, f, i, im[i]) => Revision(f) = f.last
<1>1. /\ e.last \in Nat /\ Revision(e) \in Nat /\ e.obs \in Nat /\ e.future \in BOOLEAN
      /\ f.last \in Nat /\ Revision(f) \in Nat /\ f.obs \in Nat
      /\ EffectiveTime(im[i]) \in Nat /\ i \in 1..MaxImports
  BY RowTyped, ReportTyped
<1>2. /\ e.resolved # Never => Revision(e) = e.resolved
      /\ e.resolved = Never => Revision(e) = e.last
      /\ f.resolved # Never => Revision(f) = f.resolved
      /\ f.resolved = Never => Revision(f) = f.last
      /\ e.resolved \in Int
  BY RowTyped
<1>3. e.last <= Revision(e)
  <2>1. e.resolved # Never => e.last <= e.resolved
    BY DEF RowInv
  <2>2. QED
    BY <1>1, <1>2, <2>1
<1>4. CASE KeepsRow(e, f, i, im[i])
  <2>1. /\ f.obs = e.obs /\ f.resolved = e.resolved /\ e.last <= f.last /\ e.obs # 0
        /\ f.last # e.last => f.last <= Revision(e)
    BY <1>4 DEF KeepsRow, Carried
  <2>2. Revision(f) = Revision(e)
    BY <1>1, <1>2, <1>3, <2>1
  <2>3. TakesRow(e, f, i, im[i]) => Revision(f) = f.last
    BY <1>2 DEF TakesRow
  <2>4. Revision(e) <= Revision(f)
    BY <1>1, <2>2
  <2>5. QED
    BY <1>3, <2>1, <2>2, <2>3, <2>4
<1>5. CASE TakesRow(e, f, i, im[i]) /\ ~KeepsRow(e, f, i, im[i])
  <2>1. /\ f.obs = i /\ f.resolved = Never /\ EffectiveTime(im[i]) <= f.last
        /\ e.obs # 0 => e.last <= f.last /\ (e.future \/ Revision(e) <= EffectiveTime(im[i]))
    BY <1>5 DEF TakesRow
  <2>2. Revision(f) = f.last
    BY <1>2, <2>1
  <2>3. e.obs # 0 /\ e.future => Revision(e) <= f.last
    <3>1. e.future => e.resolved = Never
      BY DEF RowInv
    <3>2. QED
      BY <1>2, <2>1, <3>1
  <2>4. e.obs # 0 /\ Revision(e) <= EffectiveTime(im[i]) => Revision(e) <= f.last
    BY <1>1, <2>1
  <2>5. f.obs # 0
    BY <1>1, <2>1
  <2>6. QED
    BY <1>3, <1>5, <2>1, <2>2, <2>3, <2>4, <2>5
<1>6. QED
  BY <1>4, <1>5

LEMMA ReadRow ==
    ASSUME NEW im, Reports(im), NEW i \in 1..Len(im), NEW s,
           im[i].series = s, im[i].state # "absent",
           NEW e \in Evidence, RowInv(im, s, e), ReadUpTo(im, i - 1, s, e), NEW f \in Evidence,
           KeepsRow(e, f, i, im[i]) \/ TakesRow(e, f, i, im[i])
    PROVE  RowInv(im, s, f) /\ ReadUpTo(im, i, s, f)
<1> DEFINE o == im[i]
           t == EffectiveTime(o)
<1>1. /\ e.last \in Nat /\ Revision(e) \in Nat /\ e.obs \in Nat /\ e.future \in BOOLEAN
      /\ f.last \in Nat /\ Revision(f) \in Nat /\ f.obs \in Nat
      /\ t \in Nat /\ i \in 1..MaxImports /\ i \in Nat /\ o.future \in BOOLEAN
  BY RowTyped, ReportTyped
<1>2. /\ f.obs # 0 /\ e.last <= Revision(e)
      /\ e.obs # 0 => Revision(e) <= Revision(f)
      /\ KeepsRow(e, f, i, o) => Revision(f) = Revision(e)
      /\ TakesRow(e, f, i, o) => Revision(f) = f.last
  BY RowAdvances
<1>3. e.obs # 0 => EffectiveTime(im[e.obs]) \in Nat /\ EffectiveTime(im[e.obs]) <= Revision(e)
  BY ReportTyped DEF RowInv
<1>4. ASSUME Observes(im, s, i)
      PROVE  ~f.future /\ t <= Revision(f)
  <2>1. ~o.future
    BY <1>4 DEF Observes
  <2>2. CASE KeepsRow(e, f, i, o)
    <3>1. e.obs # 0 /\ f.future = e.future /\ ~e.future /\ (e.obs = i \/ t < Revision(e))
      BY <2>1, <2>2 DEF KeepsRow, Carried
    <3>2. e.obs = i => t <= Revision(e)
      BY <1>3, <3>1
    <3>3. t <= Revision(e)
      <4> HIDE DEF t
      <4>1. QED
        BY <1>1, <3>1, <3>2
    <3>4. QED
      BY <1>2, <2>2, <3>1, <3>3
  <2>3. CASE TakesRow(e, f, i, o)
    <3>1. f.future = o.future /\ t <= f.last
      BY <2>3 DEF TakesRow
    <3>2. QED
      BY <1>2, <2>1, <2>3, <3>1
  <2>4. QED
    BY <2>2, <2>3
<1>5. ASSUME NEW h \in 1..(i - 1), Observes(im, s, h)
      PROVE  /\ e.obs # 0 /\ ~e.future /\ ~f.future
             /\ EffectiveTime(im[h]) <= Revision(e) /\ EffectiveTime(im[h]) <= Revision(f)
             /\ \A a \in (h + 1)..(i - 1) : Omits(im, s, a) =>
                   im[a].at <= Revision(e) /\ im[a].at <= Revision(f)
  <2>1. /\ e.obs # 0 /\ ~e.future /\ EffectiveTime(im[h]) <= Revision(e)
        /\ \A a \in (h + 1)..(i - 1) : Omits(im, s, a) => im[a].at <= Revision(e)
    BY <1>5 DEF ReadUpTo
  <2>2. /\ h \in 1..Len(im) /\ EffectiveTime(im[h]) \in Nat
        /\ \A a \in (h + 1)..(i - 1) : im[a].at \in Nat
    <3>1. h \in 1..Len(im) /\ \A a \in (h + 1)..(i - 1) : a \in 1..Len(im)
      BY <1>1, ReportTyped
    <3>2. QED
      BY <3>1, ReportTyped
  <2>3. Revision(e) <= Revision(f)
    BY <1>2, <2>1
  <2>4. ~f.future
    <3>1. CASE KeepsRow(e, f, i, o)
      BY <2>1, <3>1 DEF KeepsRow, Carried
    <3>2. CASE TakesRow(e, f, i, o)
      BY <2>1, <3>2 DEF TakesRow
    <3>3. QED
      BY <3>1, <3>2
  <2>5. EffectiveTime(im[h]) <= Revision(f)
    BY <1>1, <2>1, <2>2, <2>3
  <2>6. \A a \in (h + 1)..(i - 1) : Omits(im, s, a) => im[a].at <= Revision(f)
    BY <1>1, <2>1, <2>2, <2>3
  <2>7. QED
    BY <2>1, <2>4, <2>5, <2>6
<1>6. ReadUpTo(im, i, s, f)
  <2> SUFFICES ASSUME NEW h \in 1..i, Observes(im, s, h)
               PROVE  /\ ~f.future /\ EffectiveTime(im[h]) <= Revision(f)
                      /\ \A a \in (h + 1)..i : Omits(im, s, a) => im[a].at <= Revision(f)
    BY <1>2 DEF ReadUpTo
  <2>1. ~Omits(im, s, i)
    BY DEF Omits
  <2>2. CASE h = i
    <3>1. (h + 1)..i = {}
      BY <1>1, <2>2
    <3>2. QED
      BY <1>4, <2>2, <3>1
  <2>3. CASE h # i
    <3>1. h \in 1..(i - 1)
      BY <1>1, <2>3
    <3>2. \A a \in (h + 1)..i : a = i \/ a \in (h + 1)..(i - 1)
      BY <1>1
    <3>3. /\ ~f.future /\ EffectiveTime(im[h]) <= Revision(f)
          /\ \A a \in (h + 1)..(i - 1) : Omits(im, s, a) => im[a].at <= Revision(f)
      BY <1>5, <3>1
    <3>4. QED
      BY <2>1, <3>2, <3>3
  <2>4. QED
    BY <2>2, <2>3
<1>7. RowInv(im, s, f)
  <2>1. CASE KeepsRow(e, f, i, o)
    <3>1. /\ f.obs = e.obs /\ f.future = e.future /\ f.ingested = e.ingested /\ f.resolved = e.resolved
          /\ f.last # e.last => f.last <= Revision(e)
      BY <2>1 DEF KeepsRow, Carried
    <3>2. f.resolved # Never => ~f.future /\ f.last <= f.resolved
      <4>1. f.resolved # Never => ~e.future /\ e.last <= e.resolved /\ Revision(e) = e.resolved
        BY <3>1, RowTyped DEF RowInv
      <4>2. QED
        BY <3>1, <4>1
    <3>3. EffectiveTime(im[f.obs]) <= Revision(f)
      BY <1>2, <1>3, <2>1, <3>1
    <3>4. QED
      BY <1>2, <3>1, <3>2, <3>3 DEF RowInv
  <2>2. CASE TakesRow(e, f, i, o)
    <3>1. /\ f.obs = i /\ f.future = o.future /\ f.ingested = o.received /\ f.resolved = Never
          /\ t <= f.last
          /\ e.obs # 0 => e.future \/ Revision(e) <= t
      BY <2>2 DEF TakesRow
    <3>2. t <= Revision(f)
      BY <1>2, <2>2, <3>1
    <3>3. Settled(im, s, i)
      <4> SUFFICES ASSUME NEW h \in 1..(i - 1), Observes(im, s, h)
                   PROVE  /\ EffectiveTime(im[h]) <= t
                          /\ \A a \in (h + 1)..(i - 1) : Omits(im, s, a) => im[a].at <= t
        BY DEF Settled
      <4>1. /\ e.obs # 0 /\ ~e.future /\ EffectiveTime(im[h]) <= Revision(e)
            /\ \A a \in (h + 1)..(i - 1) : Omits(im, s, a) => im[a].at <= Revision(e)
        BY <1>5
      <4>2. /\ h \in 1..Len(im) /\ EffectiveTime(im[h]) \in Nat
            /\ \A a \in (h + 1)..(i - 1) : im[a].at \in Nat
        <5>1. h \in 1..Len(im) /\ \A a \in (h + 1)..(i - 1) : a \in 1..Len(im)
          BY <1>1, ReportTyped
        <5>2. QED
          BY <5>1, ReportTyped
      <4>3. Revision(e) <= t
        BY <3>1, <4>1
      <4> HIDE DEF t
      <4>4. QED
        BY <1>1, <4>1, <4>2, <4>3
    <3>4. \A h \in 1..(i - 1) : Observes(im, s, h) => ~f.future
      BY <1>5
    <3>5. QED
      BY <1>2, <3>1, <3>2, <3>3, <3>4 DEF RowInv
  <2>3. QED
    BY <2>1, <2>2
<1>8. QED
  BY <1>6, <1>7

(* A row that was heard still is, or will be when its report is read.      *)
LEMMA ReadPromised ==
    ASSUME TypeOK, NEW im, Reports(im), Ordered(im), NEW i \in 1..Len(im), NEW s,
           im[i].series = s, im[i].state # "absent",
           NEW e \in Evidence, RowInv(im, s, e), NEW f \in Evidence,
           KeepsRow(e, f, i, im[i]) \/ TakesRow(e, f, i, im[i]),
           Promised(im, i - 1, s, e)
    PROVE  Promised(im, i, s, f)
<1> DEFINE o == im[i]
           t == EffectiveTime(o)
<1>1. /\ e.last \in Nat /\ Revision(e) \in Nat /\ e.obs \in Nat /\ e.future \in BOOLEAN
      /\ f.last \in Nat /\ Revision(f) \in Nat /\ f.obs \in Nat /\ e.ingested \in Nat
      /\ t \in Nat /\ i \in 1..MaxImports /\ i \in Nat /\ o.future \in BOOLEAN
      /\ LastDecision \in Int /\ o.received \in Nat /\ Len(im) \in Nat
  BY RowTyped, ReportTyped, DecisionNumber
<1>2. /\ f.obs # 0 /\ e.last <= Revision(e)
      /\ e.obs # 0 => Revision(e) <= Revision(f)
      /\ KeepsRow(e, f, i, o) => Revision(f) = Revision(e)
      /\ TakesRow(e, f, i, o) => Revision(f) = f.last
  BY RowAdvances
<1>3. CASE HeardRow(e)
  <2>1. e.obs # 0 /\ e.ingested > LastDecision /\ Revision(e) > LastDecision
    BY <1>3 DEF HeardRow
  <2>2. Revision(f) > LastDecision
    BY <1>1, <1>2, <2>1
  <2>3. CASE KeepsRow(e, f, i, o)
    <3>1. f.ingested = e.ingested
      BY <2>3 DEF KeepsRow, Carried
    <3>2. QED
      BY <1>2, <2>1, <2>2, <3>1 DEF Promised, HeardRow
  <2>4. CASE TakesRow(e, f, i, o)
    <3>1. /\ f.obs = i /\ f.future = o.future /\ f.ingested = o.received /\ ~o.future
          /\ f.last # t => f.last = e.last
          /\ e.future \/ Revision(e) <= t
      BY <2>1, <2>4 DEF TakesRow
    <3>2. CASE o.received > LastDecision
      BY <1>2, <2>2, <3>1, <3>2 DEF Promised, HeardRow
    <3>3. CASE ~(o.received > LastDecision)
      <4> DEFINE j == e.obs
                 u == EffectiveTime(im[j])
      <4>1. /\ j \in 1..Len(im) /\ im[j].series = s /\ im[j].state # "absent"
            /\ e.future = im[j].future /\ e.ingested = im[j].received
            /\ \A h \in 1..(j - 1) : Observes(im, s, h) => ~e.future
            /\ Settled(im, s, j)
        BY <2>1 DEF RowInv
      <4>2. i < j
        <5>1. j <= i => im[j].received <= o.received
          BY <4>1 DEF Ordered
        <5> HIDE DEF j, o
        <5>2. QED
          BY <1>1, <2>1, <3>3, <4>1, <5>1
      <4>3. i \in 1..(j - 1) /\ j \in (i + 1)..Len(im)
        BY <1>1, <4>1, <4>2
      <4>4. Observes(im, s, i)
        BY <3>1 DEF Observes
      <4>5. ~e.future /\ t <= u
        BY <4>1, <4>3, <4>4 DEF Settled
      <4>6. u \in Nat
        BY <4>1, ReportTyped
      <4>7. Observes(im, s, j) /\ im[j].received > LastDecision
        BY <2>1, <4>1, <4>5 DEF Observes
      <4>8. u > LastDecision /\ Revision(f) <= u
        <5> HIDE DEF t, u, j, o
        <5>1. Revision(e) <= t /\ Revision(f) = f.last
          BY <1>2, <2>4, <3>1, <4>5
        <5>2. u > LastDecision
          BY <1>1, <2>1, <4>5, <4>6, <5>1
        <5>3. f.last <= u
          BY <1>1, <1>2, <3>1, <4>5, <4>6, <5>1
        <5>4. QED
          BY <5>1, <5>2, <5>3
      <4>9. ASSUME NEW h \in (i + 1)..(j - 1)
            PROVE  /\ Observes(im, s, h) => EffectiveTime(im[h]) <= u
                   /\ Omits(im, s, h) => im[h].at <= u
        <5>1. h \in 1..(j - 1)
          BY <1>1, <4>1
        <5>2. QED
          BY <4>1, <4>3, <4>4, <5>1 DEF Settled
      <4>10. Returns(im, i, s, f, j)
        BY <1>2, <3>1, <4>7, <4>8, <4>9 DEF Returns
      <4>11. QED
        BY <4>3, <4>10 DEF Promised
    <3>4. QED
      BY <3>2, <3>3
  <2>5. QED
    BY <2>3, <2>4
<1>4. ASSUME NEW j \in ((i - 1) + 1)..Len(im), Returns(im, i - 1, s, e, j)
      PROVE  Promised(im, i, s, f)
  <2> DEFINE u == EffectiveTime(im[j])
  <2>1. /\ Observes(im, s, j) /\ im[j].received > LastDecision /\ u > LastDecision
        /\ e.obs # 0 /\ ~e.future /\ Revision(e) <= u
        /\ \A h \in ((i - 1) + 1)..(j - 1) :
              /\ Observes(im, s, h) => EffectiveTime(im[h]) <= u
              /\ Omits(im, s, h) => im[h].at <= u
    BY <1>4 DEF Returns
  <2>2. j \in i..Len(im) /\ j \in 1..Len(im) /\ (i - 1) + 1 = i
    BY <1>1
  <2>3. u \in Nat
    BY <2>2, ReportTyped
  <2>4. CASE j = i
    <3>1. Revision(f) >= t /\ f.ingested > LastDecision
      <4>1. CASE KeepsRow(e, f, i, o)
        <5>1. f.ingested = e.ingested /\ (e.obs = i \/ t < Revision(e))
          BY <2>1, <2>4, <4>1 DEF KeepsRow, Carried, Observes
        <5>2. e.obs = i
          BY <1>1, <2>1, <2>4, <5>1
        <5>3. e.ingested = im[i].received /\ t <= Revision(e)
          BY <2>1, <5>2 DEF RowInv
        <5>4. Revision(f) = Revision(e)
          BY <1>2, <4>1
        <5> HIDE DEF t
        <5>5. QED
          BY <1>1, <2>1, <2>4, <5>1, <5>3, <5>4
      <4>2. CASE TakesRow(e, f, i, o)
        <5>1. f.ingested = o.received /\ t <= f.last /\ Revision(f) = f.last
          BY <1>2, <4>2 DEF TakesRow
        <5> HIDE DEF t
        <5>2. QED
          BY <1>1, <2>1, <2>4, <5>1
      <4>3. QED
        BY <4>1, <4>2
    <3>2. Revision(f) > LastDecision
      <4> HIDE DEF t, u
      <4>1. t > LastDecision
        BY <2>1, <2>4 DEF t, u
      <4>2. QED
        BY <1>1, <3>1, <4>1
    <3>3. QED
      BY <1>2, <3>1, <3>2 DEF Promised, HeardRow
  <2>5. CASE j # i
    <3>1. j \in (i + 1)..Len(im) /\ i \in ((i - 1) + 1)..(j - 1)
      BY <1>1, <2>2, <2>5
    <3>2. ~f.future /\ Revision(f) <= u
      <4>1. CASE KeepsRow(e, f, i, o)
        BY <1>2, <2>1, <4>1 DEF KeepsRow, Carried
      <4>2. CASE TakesRow(e, f, i, o)
        <5>1. /\ f.future = o.future /\ ~o.future /\ Revision(f) = f.last
              /\ f.last # t => f.last = e.last
          BY <1>2, <2>1, <4>2 DEF TakesRow
        <5>2. Observes(im, s, i)
          BY <5>1 DEF Observes
        <5>3. t <= u
          BY <2>1, <3>1, <5>2
        <5>4. e.last <= u
          <6> HIDE DEF u
          <6>1. QED
            BY <1>1, <1>2, <2>1, <2>3
        <5> HIDE DEF t, u, o
        <5>5. QED
          BY <5>1, <5>3, <5>4
      <4>3. QED
        BY <4>1, <4>2
    <3>3. \A h \in (i + 1)..(j - 1) : h \in ((i - 1) + 1)..(j - 1)
      BY <1>1
    <3>4. Returns(im, i, s, f, j)
      BY <1>2, <2>1, <3>2, <3>3 DEF Returns
    <3>5. QED
      BY <3>1, <3>4 DEF Promised
  <2>6. QED
    BY <2>4, <2>5
<1>5. QED
  BY <1>3, <1>4 DEF Promised

(* What leaves the row of a series as it is.                               *)
SameRow(e, f) == Carried(e, f) /\ f.last = e.last

LEMMA SameRowKeeps ==
    ASSUME NEW im, NEW s, NEW e, NEW f, SameRow(e, f)
    PROVE  /\ RowInv(im, s, e) => RowInv(im, s, f)
           /\ \A k : ReadUpTo(im, k, s, e) => ReadUpTo(im, k, s, f)
           /\ HeardRow(e) => HeardRow(f)
           /\ \A k : Promised(im, k, s, e) => Promised(im, k, s, f)
<1>1. /\ f.obs = e.obs /\ f.future = e.future /\ f.ingested = e.ingested
      /\ f.resolved = e.resolved /\ f.last = e.last /\ Revision(f) = Revision(e)
  BY DEF SameRow, Carried, Revision
<1>2. RowInv(im, s, e) => RowInv(im, s, f)
  BY <1>1 DEF RowInv
<1>3. \A k : ReadUpTo(im, k, s, e) => ReadUpTo(im, k, s, f)
  BY <1>1 DEF ReadUpTo
<1>4. HeardRow(e) => HeardRow(f)
  BY <1>1 DEF HeardRow
<1>5. \A k, j : Returns(im, k, s, e, j) => Returns(im, k, s, f, j)
  BY <1>1 DEF Returns
<1>6. \A k : Promised(im, k, s, e) => Promised(im, k, s, f)
  BY <1>4, <1>5 DEF Promised
<1>7. QED
  BY <1>2, <1>3, <1>4, <1>6

(* A report of another series.                                             *)
LEMMA OtherRow ==
    ASSUME NEW im, Reports(im), NEW i \in 1..Len(im), NEW s, im[i].series # s, NEW e
    PROVE  /\ ReadUpTo(im, i - 1, s, e) => ReadUpTo(im, i, s, e)
           /\ Promised(im, i - 1, s, e) => Promised(im, i, s, e)
<1>1. i \in Nat /\ Len(im) \in Nat /\ ~Observes(im, s, i) /\ ~Omits(im, s, i)
  BY ReportTyped DEF Observes, Omits
<1>2. ASSUME ReadUpTo(im, i - 1, s, e) PROVE ReadUpTo(im, i, s, e)
  <2> SUFFICES ASSUME NEW h \in 1..i, Observes(im, s, h)
               PROVE  /\ e.obs # 0 /\ ~e.future /\ EffectiveTime(im[h]) <= Revision(e)
                      /\ \A a \in (h + 1)..i : Omits(im, s, a) => im[a].at <= Revision(e)
    BY DEF ReadUpTo
  <2>1. h # i
    BY <1>1
  <2>2. h \in 1..(i - 1) /\ \A a \in (h + 1)..i : a = i \/ a \in (h + 1)..(i - 1)
    BY <1>1, <2>1
  <2>3. QED
    BY <1>1, <1>2, <2>2 DEF ReadUpTo
<1>3. ASSUME NEW j \in ((i - 1) + 1)..Len(im), Returns(im, i - 1, s, e, j)
      PROVE  j \in (i + 1)..Len(im) /\ Returns(im, i, s, e, j)
  <2>1. j # i
    BY <1>1, <1>3 DEF Returns
  <2>2. j \in (i + 1)..Len(im) /\ \A h \in (i + 1)..(j - 1) : h \in ((i - 1) + 1)..(j - 1)
    BY <1>1, <2>1
  <2>3. QED
    BY <1>3, <2>2 DEF Returns
<1>4. QED
  BY <1>2, <1>3 DEF Promised

(* A snapshot without the finding.                                         *)
OmitsRow(e, f, o) ==
    \/ f = e /\ (e.obs = 0 \/ e.future \/ o.at <= Revision(e))
    \/ /\ e.obs # 0 /\ ~e.future /\ o.at > Revision(e)
       /\ f.obs = e.obs /\ f.future = e.future /\ f.ingested = e.ingested /\ f.last = e.last
       /\ f.resolved = o.at

LEMMA OmitRow ==
    ASSUME TypeOK, NEW im, Reports(im), NEW i \in 1..Len(im), NEW s, Omits(im, s, i),
           NEW e \in Evidence, RowInv(im, s, e), NEW f \in Evidence, OmitsRow(e, f, im[i])
    PROVE  /\ RowInv(im, s, f)
           /\ ReadUpTo(im, i - 1, s, e) => ReadUpTo(im, i, s, f)
           /\ HeardRow(e) => HeardRow(f)
           /\ Promised(im, i - 1, s, e) => Promised(im, i, s, f)
<1> DEFINE o == im[i]
<1>1. /\ e.last \in Nat /\ Revision(e) \in Nat /\ e.obs \in Nat /\ e.future \in BOOLEAN
      /\ Revision(f) \in Nat /\ o.at \in Nat /\ i \in Nat /\ Len(im) \in Nat
      /\ LastDecision \in Int
  BY RowTyped, ReportTyped, DecisionNumber
<1>2. e.last <= Revision(e)
  <2>1. e.resolved # Never => e.last <= e.resolved
    BY DEF RowInv
  <2>2. QED
    BY <1>1, <2>1, RowTyped
<1>3. /\ f.obs = e.obs /\ f.future = e.future /\ f.ingested = e.ingested
      /\ Revision(e) <= Revision(f)
      /\ e.obs # 0 /\ ~e.future => o.at <= Revision(f)
      /\ Revision(f) = Revision(e) \/ Revision(f) = o.at
  <2>1. CASE f = e /\ (e.obs = 0 \/ e.future \/ o.at <= Revision(e))
    BY <1>1, <2>1
  <2>2. CASE /\ e.obs # 0 /\ ~e.future /\ o.at > Revision(e)
             /\ f.obs = e.obs /\ f.future = e.future /\ f.ingested = e.ingested /\ f.last = e.last
             /\ f.resolved = o.at
    <3>1. Revision(f) = o.at
      <4>1. f.resolved # Never
        BY <1>1, <2>2 DEF Never
      <4>2. QED
        BY <2>2, <4>1, RowTyped
    <3> HIDE DEF o
    <3>2. QED
      BY <1>1, <2>2, <3>1
  <2>3. QED
    BY <2>1, <2>2 DEF OmitsRow
<1>4. f.resolved # Never => ~f.future /\ f.last <= f.resolved
  <2>1. CASE f = e
    BY <2>1 DEF RowInv
  <2>2. CASE ~e.future /\ o.at > Revision(e) /\ f.future = e.future /\ f.last = e.last /\ f.resolved = o.at
    <3> HIDE DEF o
    <3>1. f.last <= f.resolved
      BY <1>1, <1>2, <2>2
    <3>2. QED
      BY <2>2, <3>1
  <2>3. QED
    BY <2>1, <2>2 DEF OmitsRow
<1>5. RowInv(im, s, f)
  <2>1. e.obs # 0 => EffectiveTime(im[e.obs]) <= Revision(f)
    <3>1. e.obs # 0 => /\ EffectiveTime(im[e.obs]) \in Nat
                       /\ EffectiveTime(im[e.obs]) <= Revision(e)
      BY ReportTyped DEF RowInv
    <3>2. QED
      BY <1>1, <1>3, <3>1
  <2>2. QED
    BY <1>3, <1>4, <2>1 DEF RowInv
<1>6. ASSUME ReadUpTo(im, i - 1, s, e) PROVE ReadUpTo(im, i, s, f)
  <2> SUFFICES ASSUME NEW h \in 1..i, Observes(im, s, h)
               PROVE  /\ f.obs # 0 /\ ~f.future /\ EffectiveTime(im[h]) <= Revision(f)
                      /\ \A a \in (h + 1)..i : Omits(im, s, a) => im[a].at <= Revision(f)
    BY DEF ReadUpTo
  <2>1. h # i
    BY DEF Observes, Omits
  <2>2. h \in 1..(i - 1) /\ \A a \in (h + 1)..i : a = i \/ a \in (h + 1)..(i - 1)
    BY <1>1, <2>1
  <2>3. /\ e.obs # 0 /\ ~e.future /\ EffectiveTime(im[h]) <= Revision(e)
        /\ \A a \in (h + 1)..(i - 1) : Omits(im, s, a) => im[a].at <= Revision(e)
    BY <1>6, <2>2 DEF ReadUpTo
  <2>4. EffectiveTime(im[h]) \in Nat /\ \A a \in (h + 1)..i : im[a].at \in Nat
    <3>1. h \in 1..Len(im) /\ \A a \in (h + 1)..i : a \in 1..Len(im)
      BY <1>1
    <3>2. QED
      BY <3>1, ReportTyped
  <2>5. EffectiveTime(im[h]) <= Revision(f)
    BY <1>1, <1>3, <2>3, <2>4
  <2>6. ASSUME NEW a \in (h + 1)..i, Omits(im, s, a) PROVE im[a].at <= Revision(f)
    <3>1. CASE a = i
      BY <1>3, <2>3, <3>1
    <3>2. CASE a \in (h + 1)..(i - 1)
      <4>1. im[a].at <= Revision(e) /\ im[a].at \in Nat
        BY <2>3, <2>4, <2>6, <3>2
      <4>2. QED
        BY <1>1, <1>3, <4>1
    <3>3. QED
      BY <2>2, <3>1, <3>2
  <2>7. QED
    BY <1>3, <2>3, <2>5, <2>6
<1>7. HeardRow(e) => HeardRow(f)
  BY <1>1, <1>3 DEF HeardRow
<1>8. ASSUME NEW j \in ((i - 1) + 1)..Len(im), Returns(im, i - 1, s, e, j)
      PROVE  j \in (i + 1)..Len(im) /\ Returns(im, i, s, f, j)
  <2>1. j # i
    BY <1>8 DEF Returns, Observes, Omits
  <2>2. /\ j \in (i + 1)..Len(im) /\ i \in ((i - 1) + 1)..(j - 1)
        /\ \A h \in (i + 1)..(j - 1) : h \in ((i - 1) + 1)..(j - 1)
    BY <1>1, <2>1
  <2>3. o.at <= EffectiveTime(im[j]) /\ Revision(e) <= EffectiveTime(im[j])
    BY <1>8, <2>2 DEF Returns
  <2>4. Revision(f) <= EffectiveTime(im[j])
    BY <1>3, <2>3
  <2>5. QED
    BY <1>3, <1>8, <2>2, <2>4 DEF Returns
<1>9. QED
  BY <1>5, <1>6, <1>7, <1>8 DEF Promised

-----------------------------------------------------------------------------
(* The finding while the stored reports are read again.                    *)

Recorded(im, b) == \A s \in Series : RowInv(im, s, b.scanner[s])
ReadTo(im, k, b) == \A s \in Series : ReadUpTo(im, k, s, b.scanner[s])
Promise(im, k, b) == \E s \in Series : Promised(im, k, s, b.scanner[s])

LEMMA HeardIsRow ==
    ASSUME LastDecision # Never, NEW ev
    PROVE  Heard(ev) # {} <=> \E s \in Series : HeardRow(ev[s])
  BY DEF Heard, HeardRow

LEMMA AnnotateSame ==
    ASSUME NEW b \in Books, NEW i, NEW o \in Report, NEW at
    PROVE  \A s \in Series : SameRow(b.scanner[s], Annotate(b, i, o, at).scanner[s])
<1> DEFINE ev == [b.scanner EXCEPT ![o.series] = [@ EXCEPT !.uncorrelated = TRUE]]
           c == Annotate(b, i, o, at)
<1>1. o.series \in Series /\ b.scanner \in [Series -> Evidence]
  BY DEF Report, Books
<1>2. \A e \in Evidence : SameRow(e, e) /\ SameRow(e, [e EXCEPT !.uncorrelated = TRUE])
  BY DEF Evidence, SameRow, Carried
<1>3. CASE c = b
  <2> HIDE DEF c
  <2>1. QED
    BY <1>1, <1>2, <1>3 DEF c
<1>4. CASE c = [b EXCEPT !.scanner = ev]
  <2>1. \A s \in Series : SameRow(b.scanner[s], ev[s])
    BY <1>1, <1>2
  <2> HIDE DEF ev, c
  <2>2. c.scanner = ev
    BY <1>4 DEF Books
  <2>3. QED
    BY <2>1, <2>2 DEF c
<1>5. c = b \/ c = [b EXCEPT !.scanner = ev]
  BY DEF Annotate
<1>6. QED
  BY <1>3, <1>4, <1>5

(* Report i observes the finding at a known endpoint.                      *)
LEMMA PromoteRows ==
    ASSUME TypeOK, NEW im, Reports(im), Ordered(im), NEW i \in 1..Len(im), im[i].state # "absent",
           NEW b \in Books, Recorded(im, b), ReadTo(im, i - 1, b), NEW at, Matches(at),
           NEW c, c = Promote(b, i, im[i], at)
    PROVE  Recorded(im, c) /\ ReadTo(im, i, c) /\ (Promise(im, i - 1, b) => Promise(im, i, c))
<1> DEFINE o == im[i]
           q == o.series
           f == Upsert(b.scanner[q], i, o)
           ev == [b.scanner EXCEPT ![q] = f]
<1>1. q \in Series /\ b.scanner \in [Series -> Evidence] /\ b.scanner[q] \in Evidence
        /\ o \in Report /\ i \in 1..MaxImports
  BY ReportTyped DEF Report, Books
<1>2. f \in Evidence
  BY <1>1, UpsertTyped
<1>3. c.scanner = ev
  BY DEF Promote
<1>4. RowInv(im, q, b.scanner[q]) /\ ReadUpTo(im, i - 1, q, b.scanner[q])
  BY <1>1 DEF Recorded, ReadTo
<1>5. KeepsRow(b.scanner[q], f, i, o) \/ TakesRow(b.scanner[q], f, i, o)
  BY <1>1, <1>4, UpsertRow
<1>6. ev[q] = f /\ \A s \in Series \ {q} : ev[s] = b.scanner[s] /\ o.series # s
  BY <1>1
<1> HIDE DEF f, ev
<1>7. RowInv(im, q, f) /\ ReadUpTo(im, i, q, f)
        /\ (Promised(im, i - 1, q, b.scanner[q]) => Promised(im, i, q, f))
  BY <1>1, <1>2, <1>4, <1>5, ReadRow, ReadPromised
<1>8. ASSUME NEW s \in Series
      PROVE  /\ RowInv(im, s, ev[s]) /\ ReadUpTo(im, i, s, ev[s])
             /\ Promised(im, i - 1, s, b.scanner[s]) => Promised(im, i, s, ev[s])
  <2>1. CASE s = q
    BY <1>6, <1>7, <2>1
  <2>2. CASE s # q
    <3>1. ev[s] = b.scanner[s] /\ im[i].series # s
      BY <1>6, <2>2
    <3>2. RowInv(im, s, b.scanner[s]) /\ ReadUpTo(im, i - 1, s, b.scanner[s])
      BY DEF Recorded, ReadTo
    <3>3. QED
      BY <3>1, <3>2, OtherRow
  <2>3. QED
    BY <2>1, <2>2
<1>9. QED
  BY <1>3, <1>8 DEF Recorded, ReadTo, Promise

(* Report i is a snapshot without the finding.                             *)
LEMMA ResolveRows ==
    ASSUME TypeOK, NEW im, Reports(im), NEW i \in 1..Len(im), im[i].state = "absent",
           NEW b \in Books, Recorded(im, b), NEW c, c = ResolveAbsent(b, i, im[i])
    PROVE  /\ Recorded(im, c)
           /\ ReadTo(im, i - 1, b) => ReadTo(im, i, c)
           /\ (\E s \in Series : HeardRow(b.scanner[s])) => \E s \in Series : HeardRow(c.scanner[s])
           /\ Promise(im, i - 1, b) => Promise(im, i, c)
<1> DEFINE o == im[i]
           q == o.series
           e == b.scanner[q]
           f == c.scanner[q]
           g == [e EXCEPT !.life = "fixed", !.resolved = o.at]
<1>1. q \in Series /\ b.scanner \in [Series -> Evidence] /\ e \in Evidence /\ o \in Report
        /\ o.at \in Nat /\ Omits(im, q, i)
  BY ReportTyped DEF Report, Books, Omits
<1>2. c \in Books
  BY <1>1, ResolveAbsentTyped
<1>3. f \in Evidence /\ c.scanner \in [Series -> Evidence]
  BY <1>1, <1>2 DEF Books
<1>4. OmitsRow(e, f, o) /\ \A s \in Series \ {q} : c.scanner[s] = b.scanner[s]
  <2>1. CASE e.obs = 0 \/ e.future \/ o.at <= Revision(e)
    <3>1. c = b
      BY <2>1 DEF ResolveAbsent
    <3>2. QED
      BY <2>1, <3>1 DEF OmitsRow
  <2>2. CASE ~(e.obs = 0 \/ e.future \/ o.at <= Revision(e))
    <3>1. c.scanner = [b.scanner EXCEPT ![q] = g]
      BY <2>2 DEF ResolveAbsent
    <3>2. f = g /\ \A s \in Series \ {q} : c.scanner[s] = b.scanner[s]
      BY <1>1, <3>1
    <3>3. /\ g.obs = e.obs /\ g.future = e.future /\ g.ingested = e.ingested /\ g.last = e.last
          /\ g.resolved = o.at
      BY <1>1 DEF Evidence
    <3>4. o.at > Revision(e)
      BY <1>1, <2>2, RowTyped
    <3>5. QED
      BY <2>2, <3>2, <3>3, <3>4 DEF OmitsRow
  <2>3. QED
    BY <2>1, <2>2
<1>5. RowInv(im, q, e)
  BY <1>1 DEF Recorded
<1> HIDE DEF e, f
<1>6. /\ RowInv(im, q, f)
      /\ ReadUpTo(im, i - 1, q, e) => ReadUpTo(im, i, q, f)
      /\ HeardRow(e) => HeardRow(f)
      /\ Promised(im, i - 1, q, e) => Promised(im, i, q, f)
  BY <1>1, <1>3, <1>4, <1>5, OmitRow
<1>7. ASSUME NEW s \in Series
      PROVE  /\ RowInv(im, s, c.scanner[s])
             /\ ReadUpTo(im, i - 1, s, b.scanner[s]) => ReadUpTo(im, i, s, c.scanner[s])
             /\ HeardRow(b.scanner[s]) => HeardRow(c.scanner[s])
             /\ Promised(im, i - 1, s, b.scanner[s]) => Promised(im, i, s, c.scanner[s])
  <2>1. CASE s = q
    BY <1>6, <2>1 DEF e, f
  <2>2. CASE s # q
    <3>1. c.scanner[s] = b.scanner[s] /\ im[i].series # s
      BY <1>4, <2>2
    <3>2. RowInv(im, s, b.scanner[s])
      BY DEF Recorded
    <3>3. QED
      BY <3>1, <3>2, OtherRow
  <2>3. QED
    BY <2>1, <2>2
<1>8. QED
  BY <1>7 DEF Recorded, ReadTo, Promise

(* Only evidence newer than the last decision changes the status.          *)
LEMMA ChangeIsHeard ==
    ASSUME NEW b, NEW c, c = b \/ Aggregates(b, c), b.life # "none", c.life # b.life,
           LastDecision # Never
    PROVE  \E s \in Series : HeardRow(c.scanner[s])
<1>1. c.life = Aggregated(b.life, c.scanner)
  BY DEF Aggregates
<1>2. Heard(c.scanner) # {}
  BY <1>1 DEF Aggregated
<1>3. QED
  BY <1>2, HeardIsRow

(* One more report, when its endpoint is in the inventory...               *)
LEMMA ReportOpen ==
    ASSUME TypeOK, NEW im, Reports(im), Ordered(im), NEW i \in 1..Len(im),
           NEW b \in Books, Recorded(im, b), ReadTo(im, i - 1, b), NEW at, Matches(at),
           NEW c, c = ResolveAbsent(Promote(b, i, im[i], at), i, im[i])
    PROVE  /\ Recorded(im, c) /\ ReadTo(im, i, c)
           /\ Promise(im, i - 1, b) => Promise(im, i, c)
           /\ b.life # "none" /\ LastDecision # Never /\ c.life # b.life => Promise(im, i, c)
<1>1. im[i] \in Report /\ i \in 1..MaxImports
  BY ReportTyped
<1>2. (\E s \in Series : HeardRow(c.scanner[s])) => Promise(im, i, c)
  BY DEF Promise, Promised
<1>3. CASE im[i].state # "absent"
  <2>1. c = Promote(b, i, im[i], at)
    BY <1>3 DEF ResolveAbsent
  <2>2. c = b \/ Aggregates(b, c)
    BY <1>1, <2>1, PromoteAggregates
  <2>3. Recorded(im, c) /\ ReadTo(im, i, c) /\ (Promise(im, i - 1, b) => Promise(im, i, c))
    BY <1>3, <2>1, PromoteRows
  <2>4. QED
    BY <1>2, <2>2, <2>3, ChangeIsHeard
<1>4. CASE im[i].state = "absent"
  <2>1. c = ResolveAbsent(b, i, im[i])
    BY <1>4 DEF Promote
  <2>2. c = b \/ Aggregates(b, c)
    BY <1>1, <2>1, ResolveAggregates
  <2>3. Recorded(im, c) /\ ReadTo(im, i, c) /\ (Promise(im, i - 1, b) => Promise(im, i, c))
    BY <1>4, <2>1, ResolveRows
  <2>4. QED
    BY <1>2, <2>2, <2>3, ChangeIsHeard
<1>5. QED
  BY <1>3, <1>4

(* ... and when it is not.                                                 *)
LEMMA ReportClosed ==
    ASSUME TypeOK, NEW im, Reports(im), NEW i \in 1..Len(im),
           NEW b \in Books, Recorded(im, b), NEW at, ~Matches(at),
           NEW c, c = ResolveAbsent(Promote(b, i, im[i], at), i, im[i])
    PROVE  /\ Recorded(im, c)
           /\ (\E s \in Series : HeardRow(b.scanner[s])) => \E s \in Series : HeardRow(c.scanner[s])
           /\ b.life # "none" /\ LastDecision # Never /\ c.life # b.life =>
                 \E s \in Series : HeardRow(c.scanner[s])
<1>1. c = ResolveAbsent(b, i, im[i]) /\ im[i] \in Report
  BY ReportTyped DEF Promote
<1>2. CASE im[i].state # "absent"
  BY <1>1, <1>2 DEF ResolveAbsent
<1>3. CASE im[i].state = "absent"
  <2>1. c = b \/ Aggregates(b, c)
    BY <1>1, ResolveAggregates
  <2>2. QED
    BY <1>1, <1>3, <2>1, ResolveRows, ChangeIsHeard
<1>4. QED
  BY <1>2, <1>3

(* What follows from one report to the next, follows for all.              *)
LEMMA RecorrelatedBy ==
    ASSUME TypeOK, NEW at, NEW B, Book \in B[0],
           \A i \in 1..Len(imports) : \A b \in B[i - 1] : Applied(b, i, imports[i], at) \in B[i]
    PROVE  Recorrelated(at) \in B[Len(imports)]
<1> DEFINE n == Len(imports)
           after == CHOOSE f : IsFold(f, at, n)
<1>1. n \in Nat
  BY DEF TypeOK
<1>2. IsFold(after, at, n)
  BY <1>1, FoldExists
<1>3. Recorrelated(at) = after[n]
  BY DEF Recorrelated, IsFold
<1> DEFINE S == {k \in Nat : k <= n => after[k] \in B[k]}
<1> HIDE DEF after
<1>4. 0 \in S
  BY <1>1, <1>2 DEF IsFold
<1>5. ASSUME NEW k \in Nat, k \in S PROVE k + 1 \in S
  <2> SUFFICES ASSUME k + 1 <= n PROVE after[k + 1] \in B[k + 1]
    OBVIOUS
  <2>1. k + 1 \in 0..n /\ k + 1 \in 1..n /\ after[k] \in B[k] /\ (k + 1) - 1 = k /\ k + 1 # 0
    BY <1>1, <1>5
  <2>2. after[k + 1] = Applied(after[k], k + 1, imports[k + 1], at)
    BY <1>2, <2>1 DEF IsFold
  <2>3. QED
    BY <2>1, <2>2
<1>6. n \in S
  <2> HIDE DEF S
  <2>1. QED
    BY <1>1, <1>4, <1>5, Induction
<1>7. QED
  BY <1>1, <1>3, <1>6

LEMMA RecorrelatedRows ==
    ASSUME TypeOK, Ordered(imports), Recorded(imports, Book), NEW at
    PROVE  LET c == Recorrelated(at)
           IN  /\ Recorded(imports, c)
               /\ Matches(at) => ReadTo(imports, Len(imports), c)
               /\ life # "none" /\ LastDecision # Never /\ c.life # life =>
                     \E s \in Series : HeardRow(c.scanner[s])
<1> DEFINE n == Len(imports)
           c == Recorrelated(at)
<1>1. Reports(imports) /\ n \in Nat
  BY DEF Reports, TypeOK
<1>2. Book \in Books /\ Book.life = life
  BY BookTyped
<1>3. ASSUME NEW i \in 1..n, NEW b \in Books
      PROVE  LET a == Annotate(b, i, imports[i], at)
                 d == Applied(b, i, imports[i], at)
             IN  /\ a \in Books /\ a.life = b.life /\ d \in Books
                 /\ b.life # "none" => d.life # "none"
                 /\ d = ResolveAbsent(Promote(a, i, imports[i], at), i, imports[i])
                 /\ Recorded(imports, b) => Recorded(imports, a)
                 /\ ReadTo(imports, i - 1, b) => ReadTo(imports, i - 1, a)
                 /\ Promise(imports, i - 1, b) => Promise(imports, i - 1, a)
                 /\ (\E s \in Series : HeardRow(b.scanner[s])) =>
                       \E s \in Series : HeardRow(a.scanner[s])
  <2>1. i \in 1..MaxImports /\ imports[i] \in Report
    BY <1>1, ReportTyped
  <2>2. Annotate(b, i, imports[i], at) \in Books /\ Annotate(b, i, imports[i], at).life = b.life
    BY <2>1, AnnotateTyped
  <2>3. /\ Applied(b, i, imports[i], at) \in Books
        /\ b.life # "none" => Applied(b, i, imports[i], at).life # "none"
    BY <2>1, AppliedKeeps
  <2> DEFINE a == Annotate(b, i, imports[i], at)
  <2>4. /\ Recorded(imports, b) => Recorded(imports, a)
        /\ ReadTo(imports, i - 1, b) => ReadTo(imports, i - 1, a)
        /\ Promise(imports, i - 1, b) => Promise(imports, i - 1, a)
        /\ (\E s \in Series : HeardRow(b.scanner[s])) =>
              \E s \in Series : HeardRow(a.scanner[s])
    <3>1. \A s \in Series : SameRow(b.scanner[s], a.scanner[s])
      BY <2>1, AnnotateSame
    <3> HIDE DEF a
    <3>2. QED
      BY <3>1, SameRowKeeps DEF Recorded, ReadTo, Promise
  <2>5. Applied(b, i, imports[i], at)
           = ResolveAbsent(Promote(a, i, imports[i], at), i, imports[i])
    BY DEF Applied
  <2>6. QED
    BY <2>2, <2>3, <2>4, <2>5
<1>4. CASE Matches(at)
  <2> DEFINE Good(k, b) ==
               /\ b \in Books /\ Recorded(imports, b) /\ ReadTo(imports, k, b)
               /\ life # "none" => b.life # "none"
               /\ life # "none" /\ LastDecision # Never /\ b.life # life => Promise(imports, k, b)
             B == [k \in 0..n |-> {b \in Books : Good(k, b)}]
  <2>1. Book \in B[0]
    <3>1. ReadTo(imports, 0, Book)
      BY DEF ReadTo, ReadUpTo
    <3>2. QED
      BY <1>1, <1>2, <3>1
  <2>2. ASSUME NEW i \in 1..n, NEW b \in Books, Good(i - 1, b)
        PROVE  Good(i, Applied(b, i, imports[i], at))
    <3> DEFINE a == Annotate(b, i, imports[i], at)
               d == Applied(b, i, imports[i], at)
    <3>1. /\ a \in Books /\ a.life = b.life /\ d \in Books
          /\ b.life # "none" => d.life # "none"
          /\ d = ResolveAbsent(Promote(a, i, imports[i], at), i, imports[i])
          /\ Recorded(imports, a) /\ ReadTo(imports, i - 1, a)
          /\ Promise(imports, i - 1, b) => Promise(imports, i - 1, a)
      BY <1>3, <2>2
    <3> HIDE DEF a, d
    <3>2. /\ Recorded(imports, d) /\ ReadTo(imports, i, d)
          /\ Promise(imports, i - 1, a) => Promise(imports, i, d)
          /\ a.life # "none" /\ LastDecision # Never /\ d.life # a.life => Promise(imports, i, d)
      BY <1>1, <1>4, <3>1, ReportOpen
    <3>3. QED
      BY <2>2, <3>1, <3>2 DEF d
  <2>3. \A i \in 1..n : \A b \in B[i - 1] : Applied(b, i, imports[i], at) \in B[i]
    <3> SUFFICES ASSUME NEW i \in 1..n, NEW b \in B[i - 1]
                 PROVE  Applied(b, i, imports[i], at) \in B[i]
      OBVIOUS
    <3>1. i \in 0..n /\ i - 1 \in 0..n
      BY <1>1
    <3> HIDE DEF Good
    <3>2. b \in Books /\ Good(i - 1, b)
      BY <3>1
    <3>3. Good(i, Applied(b, i, imports[i], at))
      BY <2>2, <3>2
    <3>4. Applied(b, i, imports[i], at) \in Books
      BY <1>3, <3>2
    <3>5. QED
      BY <3>1, <3>3, <3>4
  <2>4. Good(n, c)
    <3>1. c \in B[n]
      <4> HIDE DEF B, n, c
      <4>1. QED
        BY <2>1, <2>3, RecorrelatedBy DEF n, c
    <3>2. n \in 0..n
      BY <1>1
    <3> HIDE DEF Good, c
    <3>3. QED
      BY <3>1, <3>2
  <2>5. Promise(imports, n, c) => \E s \in Series : HeardRow(c.scanner[s])
    <3>1. (n + 1)..n = {}
      BY <1>1
    <3>2. QED
      BY <3>1 DEF Promise, Promised
  <2>6. QED
    BY <2>4, <2>5
<1>5. CASE ~Matches(at)
  <2> DEFINE Good(b) ==
               /\ b \in Books /\ Recorded(imports, b)
               /\ life # "none" => b.life # "none"
               /\ life # "none" /\ LastDecision # Never /\ b.life # life =>
                     \E s \in Series : HeardRow(b.scanner[s])
             B == {b \in Books : Good(b)}
  <2>1. Book \in B
    BY <1>2
  <2>2. ASSUME NEW i \in 1..n, NEW b \in Books, Good(b)
        PROVE  Good(Applied(b, i, imports[i], at))
    <3> DEFINE a == Annotate(b, i, imports[i], at)
               d == Applied(b, i, imports[i], at)
    <3>1. /\ a \in Books /\ a.life = b.life /\ d \in Books
          /\ b.life # "none" => d.life # "none"
          /\ d = ResolveAbsent(Promote(a, i, imports[i], at), i, imports[i])
          /\ Recorded(imports, a)
          /\ (\E s \in Series : HeardRow(b.scanner[s])) =>
                \E s \in Series : HeardRow(a.scanner[s])
      BY <1>3, <2>2
    <3> HIDE DEF a, d
    <3>2. /\ Recorded(imports, d)
          /\ (\E s \in Series : HeardRow(a.scanner[s])) =>
                \E s \in Series : HeardRow(d.scanner[s])
          /\ a.life # "none" /\ LastDecision # Never /\ d.life # a.life =>
                \E s \in Series : HeardRow(d.scanner[s])
      BY <1>1, <1>5, <3>1, ReportClosed
    <3>3. QED
      BY <2>2, <3>1, <3>2 DEF d
  <2>3. \A b \in B : \A i \in 1..n : Applied(b, i, imports[i], at) \in B
    <3> HIDE DEF Good
    <3>1. QED
      BY <1>3, <2>2
  <2>4. c \in B
    <3> HIDE DEF B, c
    <3>1. QED
      BY <2>1, <2>3, RecorrelatedIn DEF c
  <2>5. QED
    BY <1>5, <2>4
<1>6. QED
  BY <1>4, <1>5

-----------------------------------------------------------------------------
(* An analyst's decision against newer evidence.                           *)

ReportsInv ==
    /\ Ordered(imports)
    /\ \A i \in 1..Len(imports) : imports[i].received <= now
    /\ Recorded(imports, Book)
    /\ endpoint = "open" => ReadTo(imports, Len(imports), Book)
    /\ \A a \in Analysts : manual[a].at # Never => manual[a].life # "none"

(* The body of AnalystDecisionStands.                                      *)
Stands ==
    LastDecision # Never /\ life' # life /\ manual' = manual /\ ~StaleCommit
        => life \notin Protected /\ (Decided(life) => NewerEvidence')

LEMMA DecidedExists ==
    ASSUME TypeOK, ReportsInv, LastDecision # Never, NEW l, Decided(l)
    PROVE  l \in {"open", "fixed", "accepted"}
<1>1. PICK a \in Analysts : manual[a].at = LastDecision /\ manual[a].life = l
  BY DEF Decided
<1> HIDE DEF LastDecision
<1>2. manual[a].life # "none"
  BY <1>1 DEF ReportsInv
<1>3. manual[a].life \in {"none", "open", "fixed", "accepted"}
  BY DEF TypeOK, Decision
<1>4. QED
  BY <1>1, <1>2, <1>3

(* Steps that no scanner takes.                                            *)
LEMMA ReportsRest ==
    ASSUME TypeOK, ReportsInv, UNCHANGED <<imports, scanner>>, endpoint' = endpoint,
           now' \in Nat, now <= now',
           \A a \in Analysts : manual'[a].at # Never => manual'[a].life # "none"
    PROVE  ReportsInv'
<1>1. Book.scanner = scanner /\ Book'.scanner = scanner
  BY DEF Book
<1>2. Recorded(imports, Book) => Recorded(imports, Book')
  BY <1>1 DEF Recorded
<1>3. \A k : ReadTo(imports, k, Book) => ReadTo(imports, k, Book')
  BY <1>1 DEF ReadTo
<1>4. \A i \in 1..Len(imports) : imports[i].received <= now'
  <2>1. Reports(imports) /\ now \in Nat
    BY BoundsAssumption DEF TypeOK, Reports, Times
  <2>2. QED
    BY <2>1, ReportTyped DEF ReportsInv
<1>5. QED
  BY <1>2, <1>3, <1>4 DEF ReportsInv

(* A step that writes what the scanners make of the finding.               *)
LEMMA WriteStands ==
    ASSUME FindingInv, ReportsInv, NEW b \in Books, Write(b), UNCHANGED <<now, intel, manual>>,
           life \in Protected => b.life = life,
           Ordered(imports'), \A i \in 1..Len(imports') : imports'[i].received <= now,
           Recorded(imports', b),
           endpoint' = "open" => ReadTo(imports', Len(imports'), b),
           life # "none" /\ LastDecision # Never /\ b.life # life =>
              \E s \in Series : HeardRow(b.scanner[s])
    PROVE  ReportsInv' /\ Stands
<1>1. life' = b.life /\ scanner' = b.scanner
  BY DEF Write
<1>2. Book'.scanner = b.scanner
  BY <1>1 DEF Book
<1>3. Recorded(imports', Book') /\ (endpoint' = "open" => ReadTo(imports', Len(imports'), Book'))
  BY <1>2 DEF Recorded, ReadTo
<1>4. ReportsInv'
  BY <1>3 DEF ReportsInv
<1>5. TypeOK
  BY DEF FindingInv, Typed
<1>6. Stands
  <2> SUFFICES ASSUME LastDecision # Never, life' # life
               PROVE  life \notin Protected /\ (Decided(life) => NewerEvidence')
    BY DEF Stands
  <2>1. Decided(life) => life # "none"
    BY <1>5, DecidedExists
  <2>2. Decided(life) => Heard(b.scanner) # {}
    BY <1>1, <2>1, HeardIsRow
  <2>3. Heard(scanner)' = Heard(b.scanner)
    BY <1>1 DEF Heard, LastDecision
  <2>4. QED
    BY <1>1, <2>2, <2>3 DEF NewerEvidence
<1>7. QED
  BY <1>4, <1>6

(* What was recorded of the reports is not touched by another one.         *)
LEMMA AppendKeeps ==
    ASSUME NEW im, Reports(im), NEW jm, Reports(jm), Len(jm) = Len(im) + 1,
           \A i \in 1..Len(im) : jm[i] = im[i], NEW b
    PROVE  /\ Recorded(im, b) => Recorded(jm, b)
           /\ ReadTo(im, Len(im), b) => ReadTo(jm, Len(im), b)
<1> DEFINE n == Len(im)
<1>1. n \in Nat /\ Len(jm) = n + 1
  BY DEF Reports
<1> HIDE DEF n
<1>2. \A i \in 1..n : jm[i] = im[i]
  BY DEF n
<1>3. ASSUME NEW s, NEW j \in 1..n, Settled(im, s, j) PROVE Settled(jm, s, j)
  <2>1. \A h \in 1..(j - 1) : h \in 1..n /\ \A a \in (h + 1)..(j - 1) : a \in 1..n
    BY <1>1
  <2>2. \A h \in 1..(j - 1) : jm[h] = im[h] /\ \A a \in (h + 1)..(j - 1) : jm[a] = im[a]
    BY <1>2, <2>1
  <2>3. QED
    BY <1>2, <1>3, <2>2 DEF Settled, Observes, Omits
<1>4. ASSUME NEW s, NEW e, RowInv(im, s, e) PROVE RowInv(jm, s, e)
  <2> SUFFICES ASSUME e.obs # 0
               PROVE  /\ e.obs \in 1..Len(jm) /\ jm[e.obs].series = s /\ jm[e.obs].state # "absent"
                      /\ e.future = jm[e.obs].future /\ e.ingested = jm[e.obs].received
                      /\ EffectiveTime(jm[e.obs]) <= Revision(e)
                      /\ \A i \in 1..(e.obs - 1) : Observes(jm, s, i) => ~e.future
                      /\ Settled(jm, s, e.obs)
    BY <1>4 DEF RowInv
  <2>1. e.obs \in 1..n
    BY <1>4 DEF RowInv, n
  <2>2. e.obs \in 1..Len(jm) /\ jm[e.obs] = im[e.obs] /\ \A i \in 1..(e.obs - 1) : jm[i] = im[i]
    BY <1>1, <1>2, <2>1
  <2>3. Settled(jm, s, e.obs)
    BY <1>3, <1>4, <2>1 DEF RowInv
  <2>4. QED
    BY <1>4, <2>2, <2>3 DEF RowInv, Observes
<1>5. ASSUME NEW s, NEW e, ReadUpTo(im, n, s, e) PROVE ReadUpTo(jm, n, s, e)
  <2>1. \A h \in 1..n : \A a \in (h + 1)..n : a \in 1..n
    BY <1>1
  <2>2. QED
    BY <1>2, <1>5, <2>1 DEF ReadUpTo, Observes, Omits
<1>6. QED
  BY <1>4, <1>5 DEF Recorded, ReadTo, n

LEMMA ImportStands ==
    ASSUME FindingInv, ReportsInv, NEW s \in Series, NEW state \in {"open", "fixed", "absent"},
           NEW at \in Times, NEW future \in BOOLEAN, ImportScan(s, state, at, future)
    PROVE  ReportsInv' /\ Stands
<1> DEFINE n == Len(imports)
           i == n + 1
           o == [series |-> s, state |-> state, at |-> at, future |-> future, received |-> now]
           b == ResolveAbsent(Promote(Book, i, o, endpoint), i, o)
<1>1. TypeOK /\ n \in Nat /\ now \in Nat
  BY BoundsAssumption DEF FindingInv, Typed, TypeOK, Times
<1>2. o \in Report /\ o.received = now
  BY <1>1 DEF Report, TypeOK
<1>3. i \in 1..MaxImports
  BY <1>1, BoundsAssumption DEF ImportScan
<1>4. imports' = Append(imports, o) /\ Write(b) /\ UNCHANGED <<now, endpoint, intel, manual>>
  BY DEF ImportScan
<1> HIDE DEF o
<1>5. /\ Reports(imports) /\ Reports(imports') /\ Len(imports') = n + 1
      /\ \A h \in 1..n : imports'[h] = imports[h]
      /\ imports'[i] = o
  BY <1>1, <1>2, <1>3, <1>4 DEF TypeOK, Reports
<1>6. \A h \in 1..Len(imports') : h \in 1..n \/ h = i
  BY <1>1, <1>5
<1>7. \A h \in 1..Len(imports') : imports'[h].received <= now
  BY <1>1, <1>2, <1>5, <1>6 DEF ReportsInv
<1>8. Ordered(imports')
  <2> SUFFICES ASSUME NEW h \in 1..Len(imports'), NEW j \in 1..Len(imports'), h <= j
               PROVE  imports'[h].received <= imports'[j].received
    BY DEF Ordered
  <2>1. CASE j \in 1..n
    <3>1. h \in 1..n
      BY <1>1, <1>5, <2>1
    <3>2. QED
      BY <1>5, <2>1, <3>1 DEF ReportsInv, Ordered
  <2>2. CASE j = i
    BY <1>2, <1>5, <1>7, <2>2
  <2>3. QED
    BY <1>6, <2>1, <2>2
<1>9. Recorded(imports', Book) /\ (ReadTo(imports, n, Book) => ReadTo(imports', n, Book))
  BY <1>5, AppendKeeps DEF ReportsInv
<1>10. Book \in Books /\ Book.life = life
  BY <1>1, BookTyped
<1>11. i \in 1..Len(imports') /\ i - 1 = n /\ i = Len(imports')
  BY <1>1, <1>5
<1>12. /\ b \in Books
       /\ life \in Protected => b.life = life
  <2> HIDE DEF i
  <2>1. QED
    BY <1>2, <1>3, <1>10, ReportKeeps
<1>13. b = ResolveAbsent(Promote(Book, i, imports'[i], endpoint), i, imports'[i])
  BY <1>5
<1> HIDE DEF b, i, n
<1>14. /\ Recorded(imports', b)
       /\ endpoint = "open" => ReadTo(imports', i, b)
       /\ life # "none" /\ LastDecision # Never /\ b.life # life =>
             \E q \in Series : HeardRow(b.scanner[q])
  <2>1. CASE endpoint = "open"
    <3>1. ReadTo(imports', i - 1, Book)
      BY <1>9, <1>11, <2>1 DEF ReportsInv, n
    <3>2. Matches(endpoint)
      BY <2>1 DEF Matches
    <3>3. /\ Recorded(imports', b) /\ ReadTo(imports', i, b)
          /\ life # "none" /\ LastDecision # Never /\ b.life # life => Promise(imports', i, b)
      BY <1>1, <1>5, <1>8, <1>9, <1>10, <1>11, <1>13, <3>1, <3>2, ReportOpen
    <3>4. Promise(imports', i, b) => \E q \in Series : HeardRow(b.scanner[q])
      <4>1. (i + 1)..Len(imports') = {}
        BY <1>1, <1>11 DEF i
      <4>2. QED
        BY <4>1 DEF Promise, Promised
    <3>5. QED
      BY <3>3, <3>4
  <2>2. CASE endpoint # "open"
    <3>1. ~Matches(endpoint)
      BY <2>2 DEF Matches
    <3>2. QED
      BY <1>1, <1>5, <1>9, <1>10, <1>11, <1>13, <2>2, <3>1, ReportClosed
  <2>3. QED
    BY <2>1, <2>2
<1>15. QED
  BY <1>4, <1>7, <1>8, <1>11, <1>12, <1>14, WriteStands

LEMMA IngestStands ==
    ASSUME FindingInv, ReportsInv, NEW at \in {"open", "missing", "uncovered"}, IngestInventory(at)
    PROVE  ReportsInv' /\ Stands
<1> DEFINE b == Recorrelated(at)
<1>1. TypeOK
  BY DEF FindingInv, Typed
<1>2. /\ Write(b) /\ endpoint' = at /\ UNCHANGED <<now, intel, manual>> /\ imports' = imports
  BY DEF IngestInventory
<1>3. b \in Books /\ (life \in Protected => b.life = life)
  BY <1>1, RecorrelatedKeeps
<1>4. /\ Recorded(imports, b)
      /\ Matches(at) => ReadTo(imports, Len(imports), b)
      /\ life # "none" /\ LastDecision # Never /\ b.life # life =>
            \E s \in Series : HeardRow(b.scanner[s])
  BY <1>1, RecorrelatedRows DEF ReportsInv
<1> HIDE DEF b
<1>5. at = "open" => ReadTo(imports, Len(imports), b)
  BY <1>4 DEF Matches
<1>6. Ordered(imports) /\ \A i \in 1..Len(imports) : imports[i].received <= now
  BY DEF ReportsInv
<1>7. QED
  BY <1>2, <1>3, <1>4, <1>5, <1>6, WriteStands

(* A step that writes what a feed makes of the finding.                    *)
LEMMA FeedStands ==
    ASSUME TypeOK, ReportsInv, NEW f \in Feeds, NEW e, NEW l,
           life' = l, intel' = [intel EXCEPT ![f] = e],
           UNCHANGED <<now, endpoint, imports, scanner, manual>>,
           LastDecision # Never /\ l # life =>
              life \notin Protected /\ (Decided(life) => e.life # "none" /\ e.last > LastDecision)
    PROVE  ReportsInv' /\ Stands
<1>1. now \in Nat /\ intel \in [Feeds -> IntelEvidence]
  BY BoundsAssumption DEF TypeOK, Times
<1>2. ReportsInv'
  BY <1>1, ReportsRest DEF ReportsInv
<1>3. intel'[f] = e /\ LastDecision' = LastDecision
  BY <1>1 DEF LastDecision
<1>4. e.life # "none" /\ e.last > LastDecision => NewerEvidence'
  BY <1>3 DEF NewerEvidence
<1>5. QED
  BY <1>2, <1>4 DEF Stands

LEMMA RecordHeard ==
    ASSUME TypeOK, NEW f \in Feeds, NEW at \in Times, NEW l, l = life, life # "none",
           NEW w, w = WithRecord(f, at, l, intel, primary), w.life # l
    PROVE  l \notin Protected /\ w.intel.life # "none" /\ w.intel.last > LastDecision
<1> DEFINE e == Refreshed(intel[f], at)
<1>1. at \in Nat /\ LastDecision \in Int /\ intel[f].last \in Nat /\ intel[f] \in IntelEvidence
  BY DecisionNumber, BoundsAssumption DEF Times, TypeOK, IntelEvidence
<1>2. w.life = Reactivated(l, e, at) /\ w.intel = e
  BY DEF WithRecord
<1>3. l = "fixed" /\ e.life = "open" /\ at > LastDecision
  BY <1>2 DEF Reactivated
<1>4. e.last >= at
  <2>1. CASE at >= intel[f].last \/ intel[f].life = "none"
    <3>1. e = [life |-> "open", last |-> at, listed |-> TRUE, rev |-> at]
      BY <2>1 DEF Refreshed
    <3> HIDE DEF e
    <3>2. QED
      BY <1>1, <3>1
  <2>2. CASE ~(at >= intel[f].last \/ intel[f].life = "none")
    <3>1. e = [intel[f] EXCEPT !.listed = TRUE, !.rev = at]
      BY <2>2 DEF Refreshed
    <3>2. e.last = intel[f].last
      BY <1>1, <3>1 DEF IntelEvidence
    <3> HIDE DEF e
    <3>3. QED
      BY <1>1, <2>2, <3>2
  <2>3. QED
    BY <2>1, <2>2
<1>5. e.last \in Nat
  BY <1>1 DEF Refreshed, IntelEvidence
<1> HIDE DEF e
<1>6. e.last > LastDecision
  BY <1>1, <1>3, <1>4, <1>5
<1>7. QED
  BY <1>2, <1>3, <1>6 DEF Protected

(* Withdrawing a record does not close what an analyst holds open.         *)
LEMMA WithdrawalHeard ==
    ASSUME TypeOK, ReportsInv, LastDecision # Never, NEW in, Retired(life, scanner, in) # life
    PROVE  life \notin Protected /\ ~Decided(life)
<1>1. ~AnyActive(scanner, in) /\ life \notin Protected /\ life # "fixed"
  BY DEF Retired
<1>2. ASSUME Decided(life) PROVE FALSE
  <2>1. life = "open"
    BY <1>1, <1>2, DecidedExists DEF Protected
  <2>2. \E a \in Analysts : manual[a].life = "open"
    BY <1>2, <2>1 DEF Decided
  <2>3. QED
    BY <1>1, <2>2 DEF AnyActive
<1>3. QED
  BY <1>1, <1>2

LEMMA QuietStands ==
    ASSUME TypeOK, ReportsInv, UNCHANGED <<endpoint, imports, life, scanner, manual>>,
           now' \in Nat, now <= now'
    PROVE  ReportsInv' /\ Stands
<1>1. ReportsInv'
  BY ReportsRest DEF ReportsInv
<1>2. QED
  BY <1>1 DEF Stands

LEMMA SyncNvdStands ==
    ASSUME FindingInv, ReportsInv, NEW at \in Times, NEW rev \in Times \cup {Never}, SyncNvd(at, rev)
    PROVE  ReportsInv' /\ Stands
<1>1. TypeOK /\ NoFindingNoIntel /\ now \in Nat /\ "nvd" \in Feeds
        /\ intel \in [Feeds -> IntelEvidence]
  BY BoundsAssumption DEF FindingInv, Typed, TypeOK, Times, Feeds
<1>2. UNCHANGED <<now, endpoint, imports, scanner, manual>>
  BY DEF SyncNvd
<1>3. CASE life' = life
  BY <1>1, <1>2, <1>3, QuietStands
<1>4. CASE rev # Never /\ Matches(endpoint) /\ life' # life
  <2> DEFINE w == WithRecord("nvd", rev, life, intel, primary)
  <2>1. life' = w.life /\ intel' = [intel EXCEPT !["nvd"] = w.intel]
    BY <1>4 DEF SyncNvd
  <2>2. rev \in Times
    BY <1>4
  <2>3. life # "none" => life \notin Protected /\ w.intel.life # "none" /\ w.intel.last > LastDecision
    <3>1. w = WithRecord("nvd", rev, life, intel, primary) /\ w.life # life
      BY <1>4, <2>1
    <3> HIDE DEF w
    <3>2. QED
      BY <1>1, <2>2, <3>1, RecordHeard
  <2>4. LastDecision # Never /\ Decided(life) => life # "none"
    BY <1>1, DecidedExists
  <2>5. life = "none" => life \notin Protected
    BY DEF Protected
  <2> HIDE DEF w
  <2>6. QED
    BY <1>1, <1>2, <2>1, <2>3, <2>4, <2>5, FeedStands
<1>5. CASE rev = Never /\ intel["nvd"].life # "none" /\ life' # life
  <2> DEFINE in == [intel EXCEPT !["nvd"] = Withdrawn(@)]
  <2>1. intel' = in /\ life' = Retired(life, scanner, in)
    BY <1>5 DEF SyncNvd
  <2>2. intel' = [intel EXCEPT !["nvd"] = in["nvd"]]
    BY <1>1, <2>1
  <2> HIDE DEF in
  <2>3. LastDecision # Never => life \notin Protected /\ ~Decided(life)
    BY <1>1, <1>5, <2>1, WithdrawalHeard
  <2>4. QED
    BY <1>1, <1>2, <2>2, <2>3, FeedStands
<1>6. QED
  BY <1>3, <1>4, <1>5 DEF SyncNvd

LEMMA DecideStands ==
    ASSUME FindingInv, ReportsInv, NEW a \in Analysts, NEW l \in {"open", "fixed", "accepted"},
           Decide(a, l)
    PROVE  ReportsInv' /\ Stands
<1>1. TypeOK /\ now \in Nat /\ manual \in [Analysts -> Decision]
  BY BoundsAssumption DEF FindingInv, Typed, TypeOK, Times
<1>2. /\ now' = now + 1 /\ manual' = [manual EXCEPT ![a] = [life |-> l, at |-> now]]
      /\ UNCHANGED <<imports, scanner, endpoint>>
  BY DEF Decide
<1>3. /\ manual'[a].life = l /\ manual'[a].at = now
      /\ \A c \in Analysts \ {a} : manual'[c] = manual[c]
  BY <1>1, <1>2
<1>4. manual' # manual
  <2>1. manual[a].at < now
    BY DEF FindingInv, DecidedBefore
  <2>2. QED
    BY <1>1, <1>3, <2>1
<1>5. \A c \in Analysts : manual'[c].at # Never => manual'[c].life # "none"
  BY <1>3 DEF ReportsInv
<1>6. now' \in Nat /\ now <= now'
  BY <1>1, <1>2
<1>7. ReportsInv'
  BY <1>1, <1>2, <1>5, <1>6, ReportsRest
<1>8. QED
  BY <1>4, <1>7 DEF Stands

LEMMA CommitStands ==
    ASSUME FindingInv, ReportsInv, Commit
    PROVE  ReportsInv' /\ Stands
<1>1. TypeOK /\ NoFindingNoIntel /\ now \in Nat /\ "hub" \in Feeds
        /\ intel \in [Feeds -> IntelEvidence]
  BY BoundsAssumption DEF FindingInv, Typed, TypeOK, Times, Feeds
<1>2. session \in Sessions /\ session # Idle
  BY IdleIsNoSession DEF FindingInv, Typed, Commit, Idle
<1>3. /\ session' = Idle /\ session.kind = "assessed"
      /\ UNCHANGED <<now, endpoint, imports, scanner, manual>>
  BY DEF Commit
<1>4. ReportsInv'
  BY <1>1, <1>3, ReportsRest DEF ReportsInv
<1>5. CASE life' = life
  BY <1>4, <1>5 DEF Stands
<1>6. CASE session.overlapped
  <2>1. StaleCommit
    BY <1>3, <1>6 DEF StaleCommit
  <2>2. QED
    BY <1>4, <2>1 DEF Stands
<1>7. CASE ~session.overlapped /\ life' # life
  <2>1. /\ life' = Changed(session.life, session.to.life, life)
        /\ intel' = [intel EXCEPT !["hub"] = session.to.intel]
    BY <1>7 DEF Commit
  <2>2. /\ session.life = life
        /\ \/ life # "none" /\ session.to = HubWithdrawal
           \/ \E at \in Times : session.to = HubRecord(at)
    BY <1>2, <1>3, <1>7 DEF FindingInv, SessionInv, Fresh
  <2>3. life' = session.to.life
    BY <1>7, <2>1, <2>2 DEF Changed
  <2>4. CASE session.to = HubWithdrawal
    <3> DEFINE in == [intel EXCEPT !["hub"] = Withdrawn(@)]
    <3>1. life' = Retired(life, scanner, in)
      BY <2>3, <2>4 DEF HubWithdrawal
    <3> HIDE DEF in
    <3>2. LastDecision # Never => life \notin Protected /\ ~Decided(life)
      BY <1>1, <1>7, <3>1, WithdrawalHeard
    <3>3. QED
      BY <1>1, <1>3, <2>1, <3>2, FeedStands
  <2>5. ASSUME NEW at \in Times, session.to = HubRecord(at) PROVE ReportsInv' /\ Stands
    <3> DEFINE w == session.to
    <3>1. w = WithRecord("hub", at, life, intel, primary) /\ w.life # life
      BY <1>7, <2>3, <2>5 DEF HubRecord
    <3> HIDE DEF w
    <3>2. life # "none" =>
             life \notin Protected /\ w.intel.life # "none" /\ w.intel.last > LastDecision
      BY <1>1, <3>1, RecordHeard
    <3>3. LastDecision # Never /\ Decided(life) => life # "none"
      BY <1>1, DecidedExists
    <3>4. life = "none" => life \notin Protected
      BY DEF Protected
    <3>5. QED
      BY <1>1, <1>3, <2>1, <3>2, <3>3, <3>4, FeedStands DEF w
  <2>6. QED
    BY <2>2, <2>4, <2>5
<1>8. QED
  BY <1>5, <1>6, <1>7, <1>2 DEF Sessions

LEMMA ReportsInit == Init => ReportsInv
<1> SUFFICES ASSUME Init PROVE ReportsInv
  OBVIOUS
<1>1. imports = << >> /\ Len(imports) = 0 /\ Book.scanner = scanner
  BY DEF Init, Book
<1>2. \A s \in Series : scanner[s].obs = 0 /\ scanner[s].resolved = Never
  BY DEF Init, NoEvidence
<1>3. Recorded(imports, Book)
  BY <1>1, <1>2 DEF Recorded, RowInv
<1>4. \A a \in Analysts : manual[a].at = Never
  BY DEF Init, Undecided
<1>5. endpoint # "open"
  BY DEF Init
<1>6. Ordered(imports) /\ \A i \in 1..Len(imports) : imports[i].received <= now
  <2>1. 1..Len(imports) = {}
    BY <1>1
  <2>2. QED
    BY <2>1 DEF Ordered
<1>7. QED
  BY <1>3, <1>4, <1>5, <1>6 DEF ReportsInv

LEMMA ReportsStep ==
    ASSUME FindingInv, ReportsInv, [Next]_vars
    PROVE  ReportsInv' /\ Stands
<1>1. TypeOK /\ now \in Nat
  BY BoundsAssumption DEF FindingInv, Typed, TypeOK, Times
<1>2. ASSUME UNCHANGED <<endpoint, imports, life, scanner, manual>>, now' \in {now, now + 1}
      PROVE  ReportsInv' /\ Stands
  <2>1. now' \in Nat /\ now <= now'
    BY <1>1, <1>2
  <2>2. QED
    BY <1>1, <1>2, <2>1, QuietStands
<1>3. CASE UNCHANGED vars
  BY <1>2, <1>3 DEF vars
<1>4. CASE ReassessFinding
  BY <1>2, <1>4 DEF ReassessFinding
<1>5. CASE (\E at \in Times : BeginCorrelation(at)) \/ BeginWithdrawal \/ ReadRisk \/ Tick
  BY <1>2, <1>5 DEF BeginCorrelation, BeginWithdrawal, ReadRisk, Tick
<1>6. CASE Commit
  BY <1>6, CommitStands
<1>7. CASE \E s \in Series, state \in {"open", "fixed", "absent"}, at \in Times, future \in BOOLEAN :
              ImportScan(s, state, at, future)
  BY <1>7, ImportStands
<1>8. CASE \E at \in {"open", "missing", "uncovered"} : IngestInventory(at)
  BY <1>8, IngestStands
<1>9. CASE \E a \in Analysts, l \in {"open", "fixed", "accepted"} : Decide(a, l)
  BY <1>9, DecideStands
<1>10. CASE \E at \in Times, rev \in Times \cup {Never} : SyncNvd(at, rev)
  BY <1>10, SyncNvdStands
<1>11. QED
  BY <1>3, <1>4, <1>5, <1>6, <1>7, <1>8, <1>9, <1>10 DEF Next

THEOREM ReportsInvHolds == Spec => []ReportsInv
<1>1. FindingInv /\ ReportsInv /\ [Next]_vars => ReportsInv'
  BY ReportsStep
<1>2. QED
  BY <1>1, ReportsInit, FindingInvHolds, PTL DEF Spec

(* While a finding has the status an analyst decided, only evidence newer  *)
(* than the decision changes it, and nothing does when it is protected,    *)
(* for every number of reports that a recorrelation reads again: an older  *)
(* report may take a row for a moment, but not for good.                   *)
THEOREM AnalystDecisionsStand == Spec => AnalystDecisionStands
<1>1. FindingInv /\ ReportsInv /\ [Next]_vars =>
         [LastDecision # Never /\ life' # life /\ manual' = manual /\ ~StaleCommit
            => life \notin Protected /\ (Decided(life) => NewerEvidence')]_vars
  BY ReportsStep DEF Stands
<1>2. QED
  BY <1>1, ReportsInvHolds, FindingInvHolds, PTL DEF Spec, AnalystDecisionStands
=============================================================================
