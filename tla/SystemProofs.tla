---------------------------- MODULE SystemProofs ----------------------------
(***************************************************************************)
(* Proofs about the parts of one system: its architecture versions, the    *)
(* synchronisation with public providers, the snapshots of its asset       *)
(* sources, the identities of its assets and the analyses of attack        *)
(* chains, for every set of editors, assets, requests, CVEs, CPEs,         *)
(* endpoints, aliases, attack units and facts, and every number of         *)
(* records, pages, assets, scans, units and steps of a report.             *)
(***************************************************************************)
EXTENDS SystemParts, NumberLemmas, SequenceTheorems, FiniteSetTheorems, TLAPS

-----------------------------------------------------------------------------
(* The elements of a finite set can be listed without repetition.          *)
LEMMA InjectiveEnumeration ==
    ASSUME NEW S, IsFiniteSet(S)
    PROVE  \E f \in [1..Cardinality(S) -> S] : \A a, b \in DOMAIN f : f[a] = f[b] => a = b
<1>1. PICK n \in Nat : ExistsBijection(1..n, S)
  BY FS_NatBijection
<1>2. Cardinality(S) = n
  BY <1>1, FS_CountingElements
<1>3. \E f \in [1..n -> S] : \A a, b \in 1..n : f[a] = f[b] => a = b
  BY <1>1 DEF ExistsBijection, Bijection, Injection, IsInjective
<1>4. QED
  BY <1>2, <1>3

-----------------------------------------------------------------------------
(* Architecture versions                                                   *)

(* A save reassesses every finding that a context of the new version says  *)
(* something of.                                                           *)
LEMMA UnaffectedIsUnverified ==
    ASSUME NEW C, NEW f \in Architecture!Finding, f \notin Architecture!Affected(C)
    PROVE  Architecture!SignalOf(C, f) = Architecture!Unverified
  BY DEF Architecture!Affected, Architecture!SignalOf

LEMMA ReassessedApplies ==
    ASSUME NEW f \in Architecture!Finding, NEW fs
    PROVE  Architecture!Reassessed(contexts, fs)[f]
              = IF f \in fs THEN Architecture!SignalOf(contexts, f) ELSE risk[f]
  BY DEF Architecture!Reassessed

LEMMA VerifiedStep ==
    ASSUME Architecture!VerifiedIsApplied,
           Architecture!ArchNext \/ UNCHANGED Architecture!archVars
    PROVE  Architecture!VerifiedIsApplied'
<1>1. ASSUME NEW e \in Editors, Architecture!Open(e)
      PROVE  Architecture!VerifiedIsApplied'
  BY <1>1 DEF Architecture!VerifiedIsApplied, Architecture!Open, Architecture!SignalOf
<1>2. ASSUME NEW e \in Editors, NEW C \in Architecture!Graphs, Architecture!Save(e, C)
      PROVE  Architecture!VerifiedIsApplied'
  <2> SUFFICES ASSUME NEW f \in Architecture!Finding
               PROVE  Architecture!SignalOf(C, f) # Architecture!Unverified
                         => risk'[f] = Architecture!SignalOf(C, f)
    BY <1>2 DEF Architecture!VerifiedIsApplied, Architecture!Save, Architecture!SignalOf
  <2>1. risk' = Architecture!Reassessed(C, Architecture!Affected(C))
    BY <1>2 DEF Architecture!Save
  <2>2. CASE f \in Architecture!Affected(C)
    BY <2>1, <2>2 DEF Architecture!Reassessed
  <2>3. CASE f \notin Architecture!Affected(C)
    BY <2>3, UnaffectedIsUnverified
  <2>4. QED
    BY <2>2, <2>3
<1>3. ASSUME NEW seen \in SUBSET Architecture!Finding, Architecture!Scan(seen)
      PROVE  Architecture!VerifiedIsApplied'
  BY <1>3 DEF Architecture!VerifiedIsApplied, Architecture!Scan, Architecture!Reassessed
<1>4. ASSUME NEW g \in Architecture!Finding, Architecture!Reassess(g)
      PROVE  Architecture!VerifiedIsApplied'
  BY <1>4 DEF Architecture!VerifiedIsApplied, Architecture!Reassess, Architecture!Reassessed
<1>5. CASE UNCHANGED Architecture!archVars
  BY <1>5 DEF Architecture!VerifiedIsApplied, Architecture!archVars
<1>6. QED
  BY <1>1, <1>2, <1>3, <1>4, <1>5 DEF Architecture!ArchNext

(* What the analyst has verified in the latest manual version is in the    *)
(* risk of every finding it applies to: create_manual_architecture_version *)
(* reassesses all of them, and every other operation computes a risk with  *)
(* the contexts of that version.                                           *)
THEOREM VerifiedIsAlwaysApplied == PartsSpec => []VerifiedIsApplied
<1>1. PartsInit => VerifiedIsApplied
  BY DEF PartsInit, Architecture!ArchInit, VerifiedIsApplied, Architecture!VerifiedIsApplied,
         Architecture!SignalOf
<1>2. VerifiedIsApplied /\ [PartsNext]_partsVars => VerifiedIsApplied'
  <2>1. ASSUME VerifiedIsApplied, [PartsNext]_partsVars PROVE VerifiedIsApplied'
    <3>1. part' = part
      BY <2>1 DEF PartsNext, partsVars
    <3>2. CASE part = "architecture"
      <4>1. Architecture!ArchNext \/ UNCHANGED Architecture!archVars
        BY <2>1, <3>2 DEF PartsNext, partsVars, architectureVars, Architecture!archVars
      <4>2. QED
        BY <2>1, <3>1, <3>2, <4>1, VerifiedStep DEF VerifiedIsApplied
    <3>3. CASE part # "architecture"
      BY <3>1, <3>3 DEF VerifiedIsApplied
    <3>4. QED
      BY <3>2, <3>3
  <2>2. QED
    BY <2>1
<1>3. QED
  BY <1>1, <1>2, PTL DEF PartsSpec

-----------------------------------------------------------------------------
(* Synchronisation with public providers                                   *)

(* A finding, the database as one transaction sees it, and a request, as   *)
(* far as the risks depend on them.                                        *)
IsFinding(f) ==
    /\ f = [found |-> f.found, by |-> f.by, kev |-> f.kev, epss |-> f.epss]
    /\ f.found \in BOOLEAN /\ f.kev \in BOOLEAN

IsCurrent(d) ==
    /\ d = [finding |-> d.finding, risk |-> d.risk, mark |-> d.mark]
    /\ d.finding = [c \in Cves |-> d.finding[c]]
    /\ d.risk = [c \in Cves |-> d.risk[c]]
    /\ \A c \in Cves : IsFinding(d.finding[c]) /\ d.risk[c] = Providers!Inputs(d.finding[c])

IsRequest(r) ==
    /\ r = [kind |-> r.kind, todo |-> r.todo, scopes |-> r.scopes, pages |-> r.pages,
            answer |-> r.answer, tx |-> r.tx]
    /\ r.kind \in {"kev", "epss", "nvd"}
    /\ r.todo \in Seq(Providers!Scopes) /\ r.todo # <<>>
    /\ r.scopes \in Nat /\ Len(r.todo) <= r.scopes
    /\ r.kind = "kev" => r.scopes = 1

(* The inductive invariant: the database is current for every transaction, *)
(* and the request that holds the lock has a scope behind it.              *)
ProvidersInv ==
    /\ IsCurrent(db)
    /\ sync = [p \in Syncs |-> sync[p]]
    /\ \A p \in Syncs : sync[p] = Providers!Idle \/ IsRequest(sync[p])
    /\ holder \in Syncs \cup {Providers!Nobody}
    /\ holder # Providers!Nobody =>
          /\ IsRequest(sync[holder]) /\ IsCurrent(sync[holder].tx)
          /\ Len(sync[holder].todo) < sync[holder].scopes
    /\ frozen => holder # Providers!Nobody

LEMMA SetToSeqTyped ==
    ASSUME NEW S, IsFiniteSet(S)
    PROVE  Providers!SetToSeq(S) \in Seq(S)
<1> DEFINE F == [1..Cardinality(S) -> S]
           P(f) == \A a, b \in DOMAIN f : f[a] = f[b] => a = b
<1>1. Providers!Cardinality(S) = Cardinality(S)
  BY DEF Providers!Cardinality, Cardinality
<1>2. Providers!SetToSeq(S) = CHOOSE f \in F : P(f)
  BY <1>1 DEF Providers!SetToSeq, Providers!IsInjective
<1>3. \E f \in F : P(f)
  BY InjectiveEnumeration
<1>4. Providers!SetToSeq(S) \in F
  BY <1>2, <1>3, Zenon
<1>5. Cardinality(S) \in Nat
  BY FS_CardinalityType
<1>6. QED
  BY <1>4, <1>5

LEMMA ImageIsFinite ==
    ASSUME NEW S, NEW T, NEW f, IsFiniteSet(S), T = {f[x] : x \in S}
    PROVE  IsFiniteSet(T)
<1> DEFINE g == [x \in S |-> f[x]]
<1>1. g \in Surjection(S, T)
  BY DEF Surjection
<1>2. QED
  BY <1>1, FS_Surjection

LEMMA RequestTyped ==
    ASSUME NEW kind \in {"kev", "epss", "nvd"}, Providers!Todo(kind) # <<>>
    PROVE  IsRequest(Providers!Request(kind)) /\ Providers!Request(kind) # Providers!Idle
<1> DEFINE scored1 == {Providers!Score(c) : c \in {d \in Cves : db.finding[d].found}}
           listed1 == {Providers!Applicability(x) : x \in Cpes}
<1>1. IsFiniteSet(scored1)
  <2>1. IsFiniteSet({d \in Cves : db.finding[d].found})
    BY ProvidersAssumption, FS_Subset
  <2>2. QED
    <3> DEFINE f == [c \in Cves |-> Providers!Score(c)]
    <3>1. scored1 = {f[c] : c \in {d \in Cves : db.finding[d].found}}
      OBVIOUS
    <3>2. QED
      <4> HIDE DEF scored1, f
      <4>1. QED
        BY <2>1, <3>1, ImageIsFinite
<1>2. IsFiniteSet(listed1)
  <2> DEFINE f == [x \in Cpes |-> Providers!Applicability(x)]
  <2>1. listed1 = {f[x] : x \in Cpes}
    OBVIOUS
  <2>2. QED
    <3> HIDE DEF listed1, f
    <3>1. QED
      BY <2>1, ProvidersAssumption, ImageIsFinite
<1>3. scored1 \subseteq Providers!Scopes /\ listed1 \subseteq Providers!Scopes
  BY DEF Providers!Scopes
<1>4. Providers!Todo(kind) \in Seq(Providers!Scopes)
  <2>1. CASE kind = "kev"
    BY <2>1 DEF Providers!Todo, Providers!Scopes
  <2>2. CASE kind = "epss"
    <3>1. Providers!Todo(kind) = Providers!SetToSeq(scored1)
      BY <2>2 DEF Providers!Todo
    <3>2. Providers!Todo(kind) \in Seq(scored1)
      BY <1>1, <3>1, SetToSeqTyped
    <3>3. QED
      BY <1>3, <3>2
  <2>3. CASE kind = "nvd"
    <3>1. Providers!Todo(kind) = Providers!SetToSeq(listed1)
      BY <2>3 DEF Providers!Todo
    <3>2. Providers!Todo(kind) \in Seq(listed1)
      BY <1>2, <3>1, SetToSeqTyped
    <3>3. QED
      BY <1>3, <3>2
  <2>4. QED
    BY <2>1, <2>2, <2>3
<1>5. kind = "kev" => Len(Providers!Todo(kind)) = 1
  BY DEF Providers!Todo
<1>6. QED
  <2> HIDE DEF scored1, listed1
  <2>1. QED
    BY <1>4, <1>5 DEF IsRequest, Providers!Request, Providers!Idle

(* An accepted answer reassesses every finding whose inputs it changes.    *)
LEMMA AppliedIsCurrent ==
    ASSUME NEW d, IsCurrent(d), NEW s \in Providers!Scopes, NEW a
    PROVE  IsCurrent(Providers!Applied(d, s, a))
<1> DEFINE after == Providers!Applied(d, s, a)
           upd(c) == Providers!Updated(s, a, c, d.finding[c])
<1>1. /\ after.finding = [c \in Cves |-> upd(c)]
      /\ after.risk = [c \in Cves |-> IF c \in Providers!Reassesses(s, a, d.finding)
                                        THEN Providers!Inputs(after.finding[c]) ELSE d.risk[c]]
      /\ after = [finding |-> after.finding, risk |-> after.risk, mark |-> after.mark]
  BY DEF Providers!Applied
<1>2. ASSUME NEW c \in Cves
      PROVE  /\ IsFinding(upd(c))
             /\ c \notin Providers!Reassesses(s, a, d.finding)
                   => Providers!Inputs(upd(c)) = Providers!Inputs(d.finding[c])
  <2>1. IsFinding(d.finding[c])
    BY DEF IsCurrent
  <2>2. CASE s = Providers!Kev
    <3>1. upd(c) = [d.finding[c] EXCEPT !.kev = d.finding[c].found /\ c \in a.content]
      BY <2>2 DEF Providers!Updated, Providers!Kev, Providers!Score
    <3>2. c \in Providers!Reassesses(s, a, d.finding)
             <=> c \in a.content \/ d.finding[c].kev
      BY <2>2 DEF Providers!Reassesses, Providers!Kev
    <3>3. upd(c).kev \in BOOLEAN
      BY <2>1, <3>1 DEF IsFinding
    <3>4. c \notin a.content => upd(c).kev = FALSE
      BY <2>1, <3>1 DEF IsFinding
    <3>5. IsFinding(upd(c))
      BY <2>1, <3>1, <3>3 DEF IsFinding
    <3>6. QED
      BY <2>1, <3>1, <3>2, <3>4, <3>5 DEF IsFinding, Providers!Inputs
  <2>3. CASE s # Providers!Kev /\ s \in {Providers!Score(e) : e \in Cves}
    <3>1. PICK e \in Cves : s = <<"cve", e>>
      BY <2>3 DEF Providers!Score
    <3>2. CASE c = e
      BY <2>1, <2>3, <3>1, <3>2 DEF Providers!Updated, Providers!Reassesses, IsFinding, Providers!Score, Providers!Kev
    <3>3. CASE c # e
      BY <2>1, <2>3, <3>1, <3>3 DEF Providers!Updated, Providers!Score, Providers!Kev
    <3>4. QED
      BY <3>2, <3>3
  <2>4. CASE s # Providers!Kev /\ s \in {Providers!Applicability(x) : x \in Cpes}
    <3>1. PICK x \in Cpes : s = <<"cpe", x>>
      BY <2>4 DEF Providers!Applicability
    <3>2. s # Providers!Score(c)
      BY <3>1 DEF Providers!Score
    <3>3. upd(c) = IF c \in Providers!Listed(a.content)
                   THEN [d.finding[c] EXCEPT !.found = TRUE, !.by = @ \cup {x}]
                   ELSE [d.finding[c] EXCEPT !.by = @ \ {x}]
      BY <2>4, <3>1, <3>2 DEF Providers!Updated, Providers!Score
    <3>4. c \in Providers!Reassesses(s, a, d.finding)
             <=> c \in Providers!Listed(a.content) \/ x \in d.finding[c].by
      BY <2>4, <3>1 DEF Providers!Reassesses
    <3>5. IsFinding(upd(c))
      BY <2>1, <3>3 DEF IsFinding
    <3>6. ASSUME c \notin Providers!Reassesses(s, a, d.finding)
          PROVE  upd(c).by # {} <=> d.finding[c].by # {}
      BY <2>1, <3>3, <3>4, <3>6 DEF IsFinding
    <3>7. upd(c).kev = d.finding[c].kev /\ upd(c).epss = d.finding[c].epss
      BY <2>1, <3>3 DEF IsFinding
    <3>8. QED
      BY <3>5, <3>6, <3>7 DEF Providers!Inputs
  <2>5. QED
    BY <2>2, <2>3, <2>4 DEF Providers!Scopes
<1> HIDE DEF after, upd
<1>3. QED
  BY <1>1, <1>2 DEF IsCurrent, after

LEMMA ProvidersInitInv == Providers!Init => ProvidersInv
<1> SUFFICES ASSUME Providers!Init PROVE ProvidersInv
  OBVIOUS
<1>1. IsCurrent(db)
  BY DEF Providers!Init, IsCurrent, IsFinding, Providers!NoFinding, Providers!Inputs
<1>2. QED
  BY <1>1, ProvidersAssumption DEF Providers!Init, ProvidersInv

LEMMA FoundIsFinding ==
    ASSUME NEW f, IsFinding(f), NEW found \in BOOLEAN, NEW by
    PROVE  IsFinding([f EXCEPT !.found = found]) /\ IsFinding([f EXCEPT !.by = by])
<1>1. IsFinding([f EXCEPT !.found = found])
  <2> DEFINE g == [f EXCEPT !.found = found]
  <2>1. g.found = found /\ g.kev = f.kev
    BY DEF IsFinding
  <2>2. g = [found |-> g.found, by |-> g.by, kev |-> g.kev, epss |-> g.epss]
    BY DEF IsFinding
  <2> HIDE DEF g
  <2>3. QED
    BY <2>1, <2>2 DEF IsFinding
<1>2. IsFinding([f EXCEPT !.by = by])
  <2> DEFINE g == [f EXCEPT !.by = by]
  <2>1. g.found = f.found /\ g.kev = f.kev
    BY DEF IsFinding
  <2>2. g = [found |-> g.found, by |-> g.by, kev |-> g.kev, epss |-> g.epss]
    BY DEF IsFinding
  <2> HIDE DEF g
  <2>3. QED
    BY <2>1, <2>2 DEF IsFinding
<1>3. QED
  BY <1>1, <1>2

LEMMA ImportInv ==
    ASSUME ProvidersInv, NEW c \in Cves, Providers!Import(c)
    PROVE  ProvidersInv'
<1> DEFINE f == [db.finding[c] EXCEPT !.found = TRUE, !.by = @ \cup {Providers!Scanner}]
<1>1. IsCurrent(db) /\ IsFinding(db.finding[c])
  BY DEF ProvidersInv, IsCurrent
<1>2. IsFinding(f)
  <2> DEFINE g == [db.finding[c] EXCEPT !.found = TRUE]
  <2>1. IsFinding(g)
    BY <1>1, FoundIsFinding
  <2>2. f = [g EXCEPT !.by = g.by \cup {Providers!Scanner}]
    BY <1>1 DEF IsFinding
  <2> HIDE DEF f, g
  <2>3. QED
    BY <2>1, <2>2, FoundIsFinding
<1>3. db' = [db EXCEPT !.finding[c] = f, !.risk[c] = Providers!Inputs(f)]
  BY DEF Providers!Import
<1>4. IsCurrent(db')
  <2> HIDE DEF f
  <2>1. QED
    BY <1>1, <1>2, <1>3 DEF IsCurrent
<1>5. QED
  BY <1>4 DEF ProvidersInv, Providers!Import

(* A step of one request that leaves the database, the lock and what the   *)
(* invariant says of the request alone.                                    *)
LEMMA QuietRequestInv ==
    ASSUME ProvidersInv, NEW p \in Syncs, NEW r,
           sync' = [sync EXCEPT ![p] = r], UNCHANGED <<db, holder, frozen>>,
           IsRequest(r),
           holder = p => r.tx = sync[p].tx /\ r.todo = sync[p].todo /\ r.scopes = sync[p].scopes
    PROVE  ProvidersInv'
<1>1. sync'[p] = r /\ \A q \in Syncs \ {p} : sync'[q] = sync[q]
  BY DEF ProvidersInv
<1>2. sync' = [q \in Syncs |-> sync'[q]]
  BY DEF ProvidersInv
<1>3. QED
  BY <1>1, <1>2 DEF ProvidersInv

LEMMA BeginInv ==
    ASSUME ProvidersInv, NEW p \in Syncs, NEW kind \in {"kev", "epss", "nvd"},
           Providers!Begin(p, kind)
    PROVE  ProvidersInv'
<1>1. IsRequest(Providers!Request(kind))
  BY RequestTyped DEF Providers!Begin
<1>2. holder # p
  BY ProvidersAssumption DEF Providers!Begin, ProvidersInv, IsRequest, Providers!Idle
<1>3. QED
  BY <1>1, <1>2, QuietRequestInv DEF Providers!Begin

LEMMA AnswerInv ==
    ASSUME ProvidersInv, NEW p \in Syncs,
           \/ Providers!AnswerPage(p)
           \/ Providers!AnswerCatalog(p)
           \/ Providers!AnswerScores(p)
    PROVE  ProvidersInv'
<1>1. IsRequest(sync[p])
  BY DEF ProvidersInv, Providers!AnswerPage, Providers!AnswerCatalog, Providers!AnswerScores,
         Providers!Waits
<1>2. \A a : /\ IsRequest([sync[p] EXCEPT !.answer = a])
             /\ [sync[p] EXCEPT !.answer = a].tx = sync[p].tx
             /\ [sync[p] EXCEPT !.answer = a].todo = sync[p].todo
             /\ [sync[p] EXCEPT !.answer = a].scopes = sync[p].scopes
  BY <1>1 DEF IsRequest
<1>3. \A a : /\ IsRequest([sync[p] EXCEPT !.pages = a])
             /\ [sync[p] EXCEPT !.pages = a].tx = sync[p].tx
             /\ [sync[p] EXCEPT !.pages = a].todo = sync[p].todo
             /\ [sync[p] EXCEPT !.pages = a].scopes = sync[p].scopes
  BY <1>1 DEF IsRequest
<1>4. UNCHANGED <<db, holder, frozen>>
  BY DEF Providers!AnswerPage, Providers!AnswerCatalog, Providers!AnswerScores
<1>5. CASE \E a : sync' = [sync EXCEPT ![p].answer = a]
  <2>1. PICK a : sync' = [sync EXCEPT ![p].answer = a]
    BY <1>5
  <2>2. sync' = [sync EXCEPT ![p] = [sync[p] EXCEPT !.answer = a]]
    BY <2>1
  <2>3. QED
    BY <1>2, <1>4, <2>2, QuietRequestInv
<1>6. CASE \E a : sync' = [sync EXCEPT ![p].pages = a]
  <2>1. PICK a : sync' = [sync EXCEPT ![p].pages = a]
    BY <1>6
  <2>2. sync' = [sync EXCEPT ![p] = [sync[p] EXCEPT !.pages = a]]
    BY <2>1
  <2>3. QED
    BY <1>3, <1>4, <2>2, QuietRequestInv
<1>7. QED
  <2>1. CASE Providers!AnswerPage(p)
    <3> DEFINE x == Head(sync[p].todo)[2]
               pages == Append(sync[p].pages, Providers!Page(p, x))
    <3>1. \/ sync' = [sync EXCEPT ![p].pages = pages]
          \/ sync' = [sync EXCEPT ![p].answer =
                   [at |-> now, content |-> {<<i, pages[i]>> : i \in DOMAIN pages}]]
      BY <2>1, Zenon DEF Providers!AnswerPage
    <3>2. QED
      BY <1>5, <1>6, <3>1, Zenon
  <2>2. CASE Providers!AnswerCatalog(p)
    BY <1>5, <2>2 DEF Providers!AnswerCatalog
  <2>3. CASE Providers!AnswerScores(p)
    BY <1>5, <2>3 DEF Providers!AnswerScores
  <2>4. QED
    BY <2>1, <2>2, <2>3

LEMMA AbandonInv ==
    ASSUME ProvidersInv, NEW p \in Syncs, ~frozen, Providers!Abandon(p), UNCHANGED frozen
    PROVE  ProvidersInv'
<1>1. sync'[p] = Providers!Idle /\ \A q \in Syncs \ {p} : sync'[q] = sync[q]
  BY DEF ProvidersInv, Providers!Abandon
<1>2. sync' = [q \in Syncs |-> sync'[q]]
  BY DEF ProvidersInv, Providers!Abandon
<1>3. QED
  BY <1>1, <1>2, ProvidersAssumption DEF ProvidersInv, Providers!Abandon

LEMMA CompleteInv ==
    ASSUME ProvidersInv, NEW p \in Syncs, Providers!Complete(p)
    PROVE  ProvidersInv'
<1> DEFINE s == Head(sync[p].todo)
           a == sync[p].answer
           before == Providers!State(p)
           after == IF Providers!Newer(before.mark[s], a)
                    THEN Providers!Applied(before, s, a) ELSE before
           rest == Tail(sync[p].todo)
           next == [sync[p] EXCEPT !.todo = rest, !.pages = <<>>,
                                   !.answer = Providers!Nothing, !.tx = after]
<1>1. IsRequest(sync[p])
  BY DEF ProvidersInv, Providers!Complete
<1>2. s \in Providers!Scopes /\ rest \in Seq(Providers!Scopes) /\ Len(rest) = Len(sync[p].todo) - 1
  BY <1>1 DEF IsRequest
<1>3. IsCurrent(before)
  BY ProvidersAssumption DEF ProvidersInv, Providers!State
<1>4. IsCurrent(after)
  <2> HIDE DEF s, a, before
  <2>1. QED
    BY <1>2, <1>3, AppliedIsCurrent
<1>5. ~frozen /\ UNCHANGED frozen
  BY DEF Providers!Complete
<1>6. CASE Providers!Abandon(p)
  BY <1>5, <1>6, AbandonInv
<1>7. CASE /\ db' = after /\ holder' = Providers!Nobody
           /\ sync' = [sync EXCEPT ![p] = Providers!Idle]
  <2> HIDE DEF after
  <2>1. \A q \in Syncs : sync'[q] = Providers!Idle \/ sync'[q] = sync[q]
    BY <1>7 DEF ProvidersInv
  <2>2. sync' = [q \in Syncs |-> sync'[q]]
    BY <1>7 DEF ProvidersInv
  <2>3. QED
    BY <1>4, <1>5, <1>7, <2>1, <2>2 DEF ProvidersInv
<1>8. CASE /\ rest # <<>> /\ holder' = p /\ db' = db
           /\ sync' = [sync EXCEPT ![p] = next]
  <2>1. IsRequest(next) /\ next.tx = after /\ Len(next.todo) < next.scopes
    <3> DEFINE n1 == [sync[p] EXCEPT !.todo = rest]
               n2 == [n1 EXCEPT !.pages = <<>>]
               n3 == [n2 EXCEPT !.answer = Providers!Nothing]
    <3> HIDE DEF after, rest
    <3>1. IsRequest(n1) /\ Len(n1.todo) < n1.scopes
      BY <1>1, <1>2, <1>8 DEF IsRequest
    <3>2. IsRequest(n2) /\ n2.todo = n1.todo /\ n2.scopes = n1.scopes
      <4> HIDE DEF n1
      <4>1. QED
        BY <3>1 DEF IsRequest
    <3>3. IsRequest(n3) /\ n3.todo = n1.todo /\ n3.scopes = n1.scopes
      <4> HIDE DEF n2
      <4>1. QED
        BY <3>2 DEF IsRequest
    <3>4. next = [n3 EXCEPT !.tx = after]
      OBVIOUS
    <3>5. QED
      <4> HIDE DEF n1, n3, next
      <4>1. QED
        BY <3>1, <3>3, <3>4 DEF IsRequest
  <2>2. sync'[p] = next /\ \A q \in Syncs \ {p} : sync'[q] = sync[q]
    BY <1>8 DEF ProvidersInv
  <2>3. sync' = [q \in Syncs |-> sync'[q]]
    BY <1>8 DEF ProvidersInv
  <2> HIDE DEF next, after
  <2>4. QED
    BY <1>4, <1>5, <1>8, <2>1, <2>2, <2>3 DEF ProvidersInv
<1>9. QED
  <2>1. \/ Providers!Abandon(p)
        \/ /\ db' = after /\ holder' = Providers!Nobody
           /\ sync' = [sync EXCEPT ![p] = Providers!Idle]
        \/ /\ rest # <<>> /\ holder' = p /\ db' = db
           /\ sync' = [sync EXCEPT ![p].todo = rest, ![p].pages = <<>>,
                                   ![p].answer = Providers!Nothing, ![p].tx = after]
    BY Zenon DEF Providers!Complete
  <2> HIDE DEF s, a, before, after, rest
  <2>2. [sync EXCEPT ![p].todo = rest, ![p].pages = <<>>,
                     ![p].answer = Providers!Nothing, ![p].tx = after]
           = [sync EXCEPT ![p] = next]
    BY DEF ProvidersInv
  <2>3. QED
    BY <1>6, <1>7, <1>8, <2>1, <2>2

LEMMA ProvidersStep ==
    ASSUME ProvidersInv, Providers!Next \/ UNCHANGED providerVars
    PROVE  ProvidersInv'
<1>1. CASE Providers!Tick
  BY <1>1 DEF ProvidersInv, Providers!Tick
<1>2. ASSUME NEW p \in Syncs, Providers!Block(p) PROVE ProvidersInv'
  BY <1>2 DEF ProvidersInv, Providers!Block
<1>3. ASSUME NEW p \in Syncs, Providers!Fail(p) PROVE ProvidersInv'
  BY <1>3, AbandonInv DEF Providers!Fail
<1>4. CASE UNCHANGED providerVars
  BY <1>4 DEF ProvidersInv, providerVars
<1>5. QED
  BY <1>1, <1>2, <1>3, <1>4, ImportInv, BeginInv, AnswerInv, CompleteInv DEF Providers!Next

LEMMA ProvidersInvHolds == PartsSpec => [](part = "providers" => ProvidersInv)
<1>1. PartsInit => (part = "providers" => ProvidersInv)
  BY ProvidersInitInv DEF PartsInit
<1>2. (part = "providers" => ProvidersInv) /\ [PartsNext]_partsVars
         => (part = "providers" => ProvidersInv)'
  <2>1. ASSUME part = "providers" => ProvidersInv, [PartsNext]_partsVars, part' = "providers"
        PROVE  ProvidersInv'
    <3>1. part = "providers" /\ (Providers!Next \/ UNCHANGED providerVars)
      BY <2>1 DEF PartsNext, partsVars
    <3>2. QED
      BY <2>1, <3>1, ProvidersStep
  <2>2. QED
    BY <2>1
<1>3. QED
  BY <1>1, <1>2, PTL DEF PartsSpec

(* The risk of a finding is computed from what the providers said of it    *)
(* last, in the database and in the transaction that holds the lock,       *)
(* whichever requests overlap: retire_nvd_snapshot and the KEV and EPSS    *)
(* batches reassess every finding whose inputs they change.                *)
THEOREM RiskIsAlwaysCurrent == PartsSpec => []RiskIsCurrent
<1>1. (part = "providers" => ProvidersInv) => RiskIsCurrent
  BY DEF ProvidersInv, RiskIsCurrent, Providers!RiskIsCurrent, IsCurrent
<1>2. QED
  BY <1>1, ProvidersInvHolds, PTL

(* When the event loop waits for the lock of the system, its holder awaits *)
(* the answer for a further scope of an EPSS or NVD request.               *)
THEOREM FreezeNeedsScopes == PartsSpec => []FreezeNeedsFurtherScope
<1>1. (part = "providers" => ProvidersInv) => FreezeNeedsFurtherScope
  <2>1. ASSUME ProvidersInv, frozen PROVE Providers!FreezeNeedsFurtherScope
    <3>1. /\ IsRequest(sync[holder])
          /\ Len(sync[holder].todo) < sync[holder].scopes
      BY <2>1 DEF ProvidersInv
    <3>2. Len(sync[holder].todo) \in Nat /\ Len(sync[holder].todo) # 0
      BY <3>1 DEF IsRequest
    <3>3. QED
      BY <2>1, <3>1, <3>2 DEF ProvidersInv, IsRequest, Providers!FreezeNeedsFurtherScope
  <2>2. QED
    BY <2>1 DEF FreezeNeedsFurtherScope, Providers!FreezeNeedsFurtherScope
<1>2. QED
  BY <1>1, ProvidersInvHolds, PTL

-----------------------------------------------------------------------------
(* Snapshots of an asset source.  While nothing happened to the endpoint   *)
(* since the first page, what was read is the beginning of what it lists;  *)
(* one kind of edit alone moves the count away from the declared one.      *)

Page == [of : Sources, records : Seq(Nat), count : Nat]
Past == [got : SUBSET Nat, all : SUBSET Nat, edits : SUBSET {"add", "remove"}]
Fetches == [phase : {"read", "look", "insert"}, todo : Seq(Sources), count : Int,
            part : Seq(Nat), pages : Seq(Page), history : Seq(Past)]
Watches == [all : SUBSET Nat, edits : SUBSET {"add", "remove"}]

Covered(h) == h.all \subseteq h.got \/ h.edits = {"add", "remove"}
Listed(list) == {list[i] : i \in DOMAIN list}

Follows(f, w, list) ==
    /\ f.count = -1 => f.part = <<>>
    /\ f.count # -1 =>
          /\ w.edits = {} => /\ Len(list) = f.count /\ Len(f.part) <= f.count
                             /\ \A i \in 1..Len(f.part) : f.part[i] = list[i]
                             /\ w.all \subseteq Listed(list)
          /\ w.edits = {"add"} => Len(list) > f.count
          /\ w.edits = {"remove"} => Len(list) < f.count

SourcesTyped ==
    /\ records \in [Sources -> Seq(Nat)] /\ nextId \in Nat
    /\ fetch \in [Requests -> {SourceSync!NotFetching} \cup Fetches]
    /\ watch \in [Requests -> Watches]

SourcesInv ==
    /\ SourcesTyped
    /\ \A p \in Requests : fetch[p].phase = "read" =>
          /\ fetch[p].todo # <<>>
          /\ Follows(fetch[p], watch[p], records[Head(fetch[p].todo)])
    /\ \A p \in Requests : fetch[p].phase # "idle" =>
          \A i \in DOMAIN fetch[p].history : Covered(fetch[p].history[i])
    /\ \A row \in snapshots : \A i \in DOMAIN row.history : Covered(row.history[i])

LEMMA TodoTyped == SourceSync!SetToSeq(Sources) \in Seq(Sources) /\ SourceSync!SetToSeq(Sources) # <<>>
<1> DEFINE F == [1..Cardinality(Sources) -> Sources]
           P(f) == \A a, b \in DOMAIN f : f[a] = f[b] => a = b
<1>1. SourceSync!Cardinality(Sources) = Cardinality(Sources)
  BY DEF SourceSync!Cardinality, Cardinality
<1>2. SourceSync!SetToSeq(Sources) = CHOOSE f \in F : P(f)
  BY <1>1 DEF SourceSync!SetToSeq, SourceSync!IsInjective
<1>3. \E f \in F : P(f)
  BY SourcesAssumption, InjectiveEnumeration
<1>4. SourceSync!SetToSeq(Sources) \in F
  BY <1>2, <1>3, Zenon
<1>5. Cardinality(Sources) \in Nat /\ Cardinality(Sources) # 0
  BY SourcesAssumption, FS_CardinalityType, FS_EmptySet
<1>6. QED
  BY <1>4, <1>5

LEMMA FetchTypes ==
    ASSUME SourcesTyped, NEW p \in Requests
    PROVE  /\ watch[p] \in Watches
           /\ fetch[p] = SourceSync!NotFetching \/ fetch[p] \in Fetches
           /\ fetch[p].phase = "idle" <=> fetch[p] = SourceSync!NotFetching
           /\ fetch[p].phase \in {"idle", "read", "look", "insert"}
  BY DEF SourcesTyped, Fetches, SourceSync!NotFetching

LEMMA ReadTypes ==
    ASSUME SourcesInv, NEW p \in Requests, fetch[p].phase # "idle"
    PROVE  /\ fetch[p] \in Fetches
           /\ fetch[p].todo \in Seq(Sources) /\ fetch[p].count \in Int
           /\ fetch[p].part \in Seq(Nat) /\ fetch[p].pages \in Seq(Page)
           /\ fetch[p].history \in Seq(Past)
           /\ fetch[p].phase = "read" => Head(fetch[p].todo) \in Sources
<1>1. fetch[p] \in Fetches
  BY FetchTypes DEF SourcesInv
<1>2. QED
  BY <1>1 DEF Fetches, SourcesInv

LEMMA SourcesInit == SourceSync!SourceInit => SourcesInv
<1> SUFFICES ASSUME SourceSync!SourceInit PROVE SourcesInv
  OBVIOUS
<1>1. [i \in 1..Initial |-> i] \in Seq(Nat)
  BY SourcesAssumption
<1>2. SourcesTyped
  BY <1>1, SourcesAssumption
     DEF SourceSync!SourceInit, SourcesTyped, Watches, SourceSync!NoWatch
<1>3. \A p \in Requests : fetch[p].phase = "idle"
  BY DEF SourceSync!SourceInit, SourceSync!NotFetching
<1>4. QED
  BY <1>2, <1>3 DEF SourcesInv, SourceSync!SourceInit

(* An edit of an endpoint that a request reads.                            *)
LEMMA EditInv ==
    ASSUME SourcesInv, NEW s \in Sources, NEW list \in Seq(Nat), NEW edit \in {"add", "remove"},
           edit = "add" => Len(list) = Len(records[s]) + 1,
           edit = "remove" => Len(list) = Len(records[s]) - 1,
           records' = [records EXCEPT ![s] = list], nextId' \in Nat,
           watch' \in [Requests -> Watches],
           \A p \in Requests :
              IF SourceSync!Reads(p, s) THEN watch'[p].edits = watch[p].edits \cup {edit}
              ELSE watch'[p] = watch[p],
           UNCHANGED <<fetch, snapshots>>
    PROVE  SourcesInv'
<1>1. SourcesTyped
  BY DEF SourcesInv
<1>2. /\ records' \in [Sources -> Seq(Nat)] /\ records'[s] = list
      /\ \A z \in Sources : z # s => records'[z] = records[z]
      /\ records[s] \in Seq(Nat)
  BY <1>1 DEF SourcesTyped
<1>3. SourcesTyped'
  BY <1>1, <1>2 DEF SourcesTyped
<1>4. ASSUME NEW p \in Requests, fetch[p].phase = "read"
      PROVE  Follows(fetch[p], watch'[p], records'[Head(fetch[p].todo)])
  <2> DEFINE f == fetch[p]
             z == Head(f.todo)
  <2>1. /\ Follows(f, watch[p], records[z]) /\ z \in Sources
        /\ f.count \in Int /\ f.part \in Seq(Nat)
    BY <1>4, ReadTypes DEF SourcesInv
  <2>2. CASE z # s
    <3>1. watch'[p] = watch[p] /\ records'[z] = records[z]
      BY <1>2, <2>1, <2>2 DEF SourceSync!Reads
    <3>2. QED
      BY <2>1, <3>1
  <2>3. CASE z = s
    <3>1. watch'[p].edits = watch[p].edits \cup {edit} /\ records'[z] = list
      BY <1>2, <1>4, <2>3 DEF SourceSync!Reads
    <3>2. Len(list) \in Nat /\ Len(records[s]) \in Nat
      BY <1>2
    <3>3. watch[p].edits \in SUBSET {"add", "remove"}
      BY <1>1, FetchTypes DEF Watches
    <3>4. watch'[p].edits # {}
      BY <3>1
    <3> HIDE DEF f, z
    <3>5. CASE edit = "add"
      <4>1. watch'[p].edits # {"remove"}
        BY <3>1, <3>5
      <4>2. watch'[p].edits = {"add"} => watch[p].edits = {} \/ watch[p].edits = {"add"}
        BY <3>1, <3>3, <3>5
      <4>3. Len(list) = Len(records[s]) + 1
        BY <3>5
      <4>4. f.count # -1 /\ watch'[p].edits = {"add"} => Len(list) > f.count
        <5> SUFFICES ASSUME f.count # -1, watch'[p].edits = {"add"} PROVE Len(list) > f.count
          OBVIOUS
        <5>1. Len(records[s]) > f.count \/ Len(records[s]) = f.count
          BY <2>1, <2>3, <4>2 DEF Follows
        <5>2. f.count \in Int
          BY <2>1
        <5>3. QED
          BY <3>2, <4>3, <5>1, <5>2
      <4>5. f.count = -1 => f.part = <<>>
        BY <2>1 DEF Follows
      <4>6. QED
        BY <3>1, <3>4, <4>1, <4>4, <4>5 DEF Follows, f, z
    <3>6. CASE edit = "remove"
      <4>1. watch'[p].edits # {"add"}
        BY <3>1, <3>6
      <4>2. watch'[p].edits = {"remove"} => watch[p].edits = {} \/ watch[p].edits = {"remove"}
        BY <3>1, <3>3, <3>6
      <4>3. Len(list) = Len(records[s]) - 1
        BY <3>2, <3>6
      <4>4. f.count # -1 /\ watch'[p].edits = {"remove"} => Len(list) < f.count
        <5> SUFFICES ASSUME f.count # -1, watch'[p].edits = {"remove"} PROVE Len(list) < f.count
          OBVIOUS
        <5>1. Len(records[s]) < f.count \/ Len(records[s]) = f.count
          BY <2>1, <2>3, <4>2 DEF Follows
        <5>2. f.count \in Int
          BY <2>1
        <5>3. QED
          BY <3>2, <4>3, <5>1, <5>2
      <4>5. f.count = -1 => f.part = <<>>
        BY <2>1 DEF Follows
      <4>6. QED
        BY <3>1, <3>4, <4>1, <4>4, <4>5 DEF Follows, f, z
    <3>7. QED
      BY <3>5, <3>6
  <2>4. QED
    BY <2>2, <2>3
<1>5. QED
  BY <1>3, <1>4 DEF SourcesInv

LEMMA RemovedAt ==
    ASSUME NEW q \in Seq(Nat), NEW i \in DOMAIN q
    PROVE  SourceSync!RemoveAt(q, i) \in Seq(Nat) /\ Len(SourceSync!RemoveAt(q, i)) = Len(q) - 1
<1> DEFINE a == SubSeq(q, 1, i - 1)
           b == SubSeq(q, i + 1, Len(q))
<1>1. i \in 1..Len(q) /\ Len(q) \in Nat /\ i \in Nat
  OBVIOUS
<1>2. a \in Seq(Nat) /\ Len(a) = i - 1
  BY <1>1
<1>3. b \in Seq(Nat) /\ Len(b) = Len(q) - i
  BY <1>1
<1>4. SourceSync!RemoveAt(q, i) = a \o b
  BY DEF SourceSync!RemoveAt
<1> HIDE DEF a, b
<1>5. a \o b \in Seq(Nat) /\ Len(a \o b) = Len(a) + Len(b)
  BY <1>2, <1>3, ConcatProperties
<1>6. QED
  BY <1>1, <1>2, <1>3, <1>4, <1>5

LEMMA AddInv ==
    ASSUME SourcesInv, NEW s \in Sources, SourceSync!AddRecord(s)
    PROVE  SourcesInv'
<1> DEFINE list == Append(records[s], nextId)
<1>1. SourcesTyped /\ records[s] \in Seq(Nat) /\ nextId \in Nat
  BY DEF SourcesInv, SourcesTyped
<1>2. list \in Seq(Nat) /\ Len(list) = Len(records[s]) + 1
  BY <1>1
<1>3. records' = [records EXCEPT ![s] = list] /\ nextId' \in Nat /\ UNCHANGED <<fetch, snapshots>>
  BY <1>1 DEF SourceSync!AddRecord
<1>4. ASSUME NEW p \in Requests
      PROVE  /\ watch'[p] \in Watches
             /\ IF SourceSync!Reads(p, s) THEN watch'[p].edits = watch[p].edits \cup {"add"}
                ELSE watch'[p] = watch[p]
  <2>1. watch[p] \in Watches
    BY <1>1, FetchTypes
  <2>2. watch'[p] = IF SourceSync!Reads(p, s) THEN [watch[p] EXCEPT !.edits = @ \cup {"add"}] ELSE watch[p]
    BY DEF SourceSync!AddRecord
  <2>3. QED
    BY <2>1, <2>2 DEF Watches
<1>5. watch' \in [Requests -> Watches]
  BY <1>4 DEF SourceSync!AddRecord
<1> HIDE DEF list
<1>6. QED
  BY <1>2, <1>3, <1>4, <1>5, EditInv

LEMMA RemoveInv ==
    ASSUME SourcesInv, NEW s \in Sources, SourceSync!RemoveRecord(s)
    PROVE  SourcesInv'
<1>1. SourcesTyped /\ records[s] \in Seq(Nat) /\ nextId \in Nat
  BY DEF SourcesInv, SourcesTyped
<1>2. PICK i \in DOMAIN records[s] :
         /\ records' = [records EXCEPT ![s] = SourceSync!RemoveAt(@, i)]
         /\ watch' = [p \in Requests |->
                IF SourceSync!Reads(p, s)
                THEN [all |-> watch[p].all \ {records[s][i]},
                      edits |-> watch[p].edits \cup {"remove"}]
                ELSE watch[p]]
  BY DEF SourceSync!RemoveRecord
<1> DEFINE list == SourceSync!RemoveAt(records[s], i)
<1>3. list \in Seq(Nat) /\ Len(list) = Len(records[s]) - 1
  BY <1>1, RemovedAt
<1>4. ASSUME NEW p \in Requests
      PROVE  /\ watch'[p] \in Watches
             /\ IF SourceSync!Reads(p, s) THEN watch'[p].edits = watch[p].edits \cup {"remove"}
                ELSE watch'[p] = watch[p]
  <2>1. watch[p] \in Watches
    BY <1>1, FetchTypes
  <2>2. QED
    BY <1>2, <2>1 DEF Watches
<1>5. watch' \in [Requests -> Watches]
  BY <1>2, <1>4
<1>6. records' = [records EXCEPT ![s] = list] /\ nextId' \in Nat /\ UNCHANGED <<fetch, snapshots>>
  BY <1>1, <1>2 DEF SourceSync!RemoveRecord
<1> HIDE DEF list
<1>7. QED
  BY <1>3, <1>4, <1>5, <1>6, EditInv

(* A request that ends or goes on without reading.                         *)
LEMMA QuietFetchInv ==
    ASSUME SourcesInv, NEW p \in Requests, NEW f \in {SourceSync!NotFetching} \cup Fetches,
           f.phase # "read",
           f.phase # "idle" => \A i \in DOMAIN f.history : Covered(f.history[i]),
           fetch' = [fetch EXCEPT ![p] = f],
           watch' = watch \/ watch' = [watch EXCEPT ![p] = SourceSync!NoWatch],
           UNCHANGED <<records, nextId>>,
           \A row \in snapshots' : \A i \in DOMAIN row.history : Covered(row.history[i])
    PROVE  SourcesInv'
<1>1. SourcesTyped
  BY DEF SourcesInv
<1>2. /\ fetch' \in [Requests -> {SourceSync!NotFetching} \cup Fetches] /\ fetch'[p] = f
      /\ \A r \in Requests : r # p => fetch'[r] = fetch[r]
  BY <1>1 DEF SourcesTyped
<1>3. watch' \in [Requests -> Watches] /\ \A r \in Requests : r # p => watch'[r] = watch[r]
  BY <1>1 DEF SourcesTyped, Watches, SourceSync!NoWatch
<1>4. SourcesTyped'
  BY <1>1, <1>2, <1>3 DEF SourcesTyped
<1>5. \A r \in Requests : fetch'[r].phase = "read" =>
          /\ r # p /\ fetch'[r].todo # <<>>
          /\ Follows(fetch'[r], watch'[r], records[Head(fetch'[r].todo)])
  BY <1>2, <1>3 DEF SourcesInv
<1>6. \A r \in Requests : fetch'[r].phase # "idle" =>
          \A i \in DOMAIN fetch'[r].history : Covered(fetch'[r].history[i])
  BY <1>2 DEF SourcesInv
<1>7. QED
  BY <1>4, <1>5, <1>6 DEF SourcesInv

LEMMA BeginFetchInv ==
    ASSUME SourcesInv, NEW p \in Requests, SourceSync!Begin(p)
    PROVE  SourcesInv'
<1> DEFINE f == [phase |-> "read", todo |-> SourceSync!SetToSeq(Sources), count |-> -1,
                 part |-> <<>>, pages |-> <<>>, history |-> <<>>]
<1>1. SourcesTyped
  BY DEF SourcesInv
<1>2. f \in Fetches /\ f.todo # <<>> /\ f.count = -1 /\ f.part = <<>> /\ f.history = <<>>
  BY TodoTyped DEF Fetches
<1>3. fetch' = [fetch EXCEPT ![p] = f] /\ UNCHANGED <<records, nextId, watch, snapshots>>
  BY DEF SourceSync!Begin
<1> HIDE DEF f
<1>4. /\ fetch' \in [Requests -> {SourceSync!NotFetching} \cup Fetches] /\ fetch'[p] = f
      /\ \A r \in Requests : r # p => fetch'[r] = fetch[r]
  BY <1>1, <1>2, <1>3 DEF SourcesTyped
<1>5. SourcesTyped'
  BY <1>1, <1>3, <1>4 DEF SourcesTyped
<1>6. ASSUME NEW r \in Requests, fetch'[r].phase = "read"
      PROVE  /\ fetch'[r].todo # <<>>
             /\ Follows(fetch'[r], watch'[r], records'[Head(fetch'[r].todo)])
  <2>1. CASE r = p
    BY <1>2, <1>4, <2>1 DEF Follows
  <2>2. CASE r # p
    BY <1>3, <1>4, <1>6, <2>2 DEF SourcesInv
  <2>3. QED
    BY <2>1, <2>2
<1>7. \A r \in Requests : fetch'[r].phase # "idle" =>
          \A i \in DOMAIN fetch'[r].history : Covered(fetch'[r].history[i])
  BY <1>2, <1>4 DEF SourcesInv
<1>8. QED
  BY <1>3, <1>5, <1>6, <1>7 DEF SourcesInv

(* A page is the record after those that were read, or none.               *)
LEMMA PageTyped ==
    ASSUME NEW old \in Seq(Nat), NEW list \in Seq(Nat)
    PROVE  LET n == Len(old)
               page == SubSeq(list, n + 1, IF n < Len(list) THEN n + 1 ELSE n)
           IN  /\ page \in Seq(Nat) /\ old \o page \in Seq(Nat)
               /\ n < Len(list) => /\ Len(old \o page) = n + 1
                                   /\ (old \o page)[n + 1] = list[n + 1]
               /\ n >= Len(list) => Len(old \o page) = n
               /\ \A i \in 1..n : (old \o page)[i] = old[i]
<1> DEFINE n == Len(old)
           page == SubSeq(list, n + 1, IF n < Len(list) THEN n + 1 ELSE n)
<1>1. n \in Nat /\ Len(list) \in Nat
  OBVIOUS
<1>2. CASE n < Len(list)
  <2>1. page = SubSeq(list, n + 1, n + 1)
    BY <1>2
  <2>2. page \in Seq(Nat) /\ Len(page) = 1 /\ page[1] = list[n + 1]
    BY <1>1, <1>2, <2>1
  <2> HIDE DEF page
  <2>3. /\ old \o page \in Seq(Nat) /\ Len(old \o page) = Len(old) + Len(page)
        /\ \A i \in 1..(Len(old) + Len(page)) :
              (old \o page)[i] = IF i <= Len(old) THEN old[i] ELSE page[i - Len(old)]
    BY <2>2, ConcatProperties
  <2> HIDE DEF n
  <2>4. /\ Len(old \o page) = n + 1
        /\ \A i \in 1..(n + 1) : (old \o page)[i] = IF i <= n THEN old[i] ELSE page[i - n]
    BY <2>2, <2>3 DEF n
  <2>5. (old \o page)[n + 1] = list[n + 1]
    BY <1>1, <2>2, <2>4
  <2>6. \A i \in 1..n : (old \o page)[i] = old[i]
    BY <1>1, <2>4
  <2>7. QED
    BY <1>1, <1>2, <2>2, <2>3, <2>4, <2>5, <2>6 DEF page, n
<1>3. CASE ~(n < Len(list))
  <2>1. page = SubSeq(list, n + 1, n)
    BY <1>3
  <2>2. page = <<>>
    <3>1. n + 1 > n /\ n + 1 \in Int /\ n \in Int
      BY <1>1
    <3> HIDE DEF n
    <3>2. QED
      BY <2>1, <3>1, SubSeqEmpty
  <2> HIDE DEF page
  <2>3. old \o page = old
    BY <2>2, ConcatEmptySeq
  <2>4. page \in Seq(Nat)
    BY <2>2
  <2>5. QED
    BY <1>1, <1>3, <2>3, <2>4 DEF page
<1>4. QED
  BY <1>2, <1>3

(* o is the beginning of l. *)
Begins(o, l) == Len(o) <= Len(l) /\ \A i \in 1..Len(o) : o[i] = l[i]

(* r is o with the next record of l appended, or o when l holds no more. *)
Grew(r, o, l) ==
  /\ Len(o) < Len(l) => Len(r) = Len(o) + 1 /\ r[Len(o) + 1] = l[Len(o) + 1]
  /\ Len(o) >= Len(l) => Len(r) = Len(o)
  /\ \A i \in 1..Len(o) : r[i] = o[i]

(* What has been read stays the beginning of the list.                     *)
LEMMA BeginningGrows ==
  ASSUME NEW l \in Seq(Nat), NEW o \in Seq(Nat), NEW r \in Seq(Nat),
         Grew(r, o, l), Begins(o, l)
  PROVE  Begins(r, l)
<1> USE DEF Grew, Begins
<1>1. Len(o) \in Nat /\ Len(l) \in Nat /\ Len(r) \in Nat
  OBVIOUS
<1> DEFINE m == Len(o)
           k == Len(l)
<1>2. Len(r) <= k
  BY <1>1
<1>3. ASSUME NEW i \in 1..Len(r)
      PROVE  r[i] = l[i]
  <2>1. CASE i \in 1..m
    BY <2>1
  <2>2. CASE i \notin 1..m
    <3>1. i = m + 1 /\ m < k
      BY <1>1, <2>2
    <3>2. QED
      BY <3>1
  <2>3. QED
    BY <2>1, <2>2
<1>4. QED
  BY <1>2, <1>3

LEMMA ReadPageInv ==
    ASSUME SourcesInv, NEW p \in Requests, SourceSync!ReadPage(p)
    PROVE  SourcesInv'
<1> DEFINE f == fetch[p]
           s == Head(f.todo)
           list == records[s]
           page == SourceSync!PageAt(p, s)
           count == Len(list)
           read == f.part \o page
           pages == Append(f.pages, [of |-> s, records |-> page, count |-> count])
           seen == IF f.count = -1 THEN [SourceSync!NoWatch EXCEPT !.all = SourceSync!ToSet(list)]
                   ELSE watch[p]
           rest == Tail(f.todo)
           past == [got |-> SourceSync!ToSet(read), all |-> seen.all, edits |-> seen.edits]
           next == [f EXCEPT !.count = count, !.part = read, !.pages = pages]
           last == [f EXCEPT !.phase = IF rest = <<>> THEN "look" ELSE "read",
                             !.todo = rest, !.count = -1, !.part = <<>>, !.pages = pages,
                             !.history = Append(@, past)]
<1>1. SourcesTyped /\ f.phase = "read" /\ f.phase # "idle"
  BY DEF SourcesInv, SourceSync!ReadPage
<1>2. /\ f \in Fetches /\ f.todo \in Seq(Sources) /\ f.todo # <<>> /\ f.count \in Int
      /\ f.part \in Seq(Nat) /\ f.pages \in Seq(Page) /\ f.history \in Seq(Past) /\ s \in Sources
      /\ Follows(f, watch[p], list) /\ \A i \in DOMAIN f.history : Covered(f.history[i])
  BY <1>1, ReadTypes DEF SourcesInv
<1>3. list \in Seq(Nat) /\ count \in Nat
  BY <1>1, <1>2 DEF SourcesTyped
<1>4. /\ SourceSync!SameCount(p, count)
      /\ IF Len(read) < count
         THEN fetch' = [fetch EXCEPT ![p].count = count, ![p].part = read, ![p].pages = pages]
              /\ watch' = [watch EXCEPT ![p] = seen]
         ELSE fetch' = [fetch EXCEPT ![p].phase = IF rest = <<>> THEN "look" ELSE "read",
                        ![p].todo = rest, ![p].count = -1, ![p].part = <<>>,
                        ![p].pages = pages, ![p].history = Append(@, past)]
              /\ watch' = [watch EXCEPT ![p] = SourceSync!NoWatch]
      /\ UNCHANGED <<records, nextId, snapshots>>
  BY DEF SourceSync!ReadPage, SourceSync!Valid
<1>5. f.count = -1 \/ f.count = count
  BY <1>4 DEF SourceSync!SameCount
<1>6. /\ IF Len(read) < count THEN fetch' = [fetch EXCEPT ![p] = next]
         ELSE fetch' = [fetch EXCEPT ![p] = last]
  BY <1>1, <1>4 DEF SourcesTyped
<1>7. /\ page \in Seq(Nat) /\ read \in Seq(Nat)
      /\ Len(f.part) < count => Len(read) = Len(f.part) + 1 /\ read[Len(f.part) + 1] = list[Len(f.part) + 1]
      /\ Len(f.part) >= count => Len(read) = Len(f.part)
      /\ \A i \in 1..Len(f.part) : read[i] = f.part[i]
  <2>1. page = SubSeq(list, Len(f.part) + 1, IF Len(f.part) < count THEN Len(f.part) + 1 ELSE Len(f.part))
    BY DEF SourceSync!PageAt, SourceSync!Offset
  <2>2. f.part \in Seq(Nat)
    BY <1>2
  <2> DEFINE old == f.part
             slice == SubSeq(list, Len(old) + 1,
                             IF Len(old) < Len(list) THEN Len(old) + 1 ELSE Len(old))
  <2>3. read = old \o slice /\ page = slice
    BY <2>1
  <2>4. /\ slice \in Seq(Nat) /\ old \o slice \in Seq(Nat)
        /\ Len(old) < Len(list) => /\ Len(old \o slice) = Len(old) + 1
                                   /\ (old \o slice)[Len(old) + 1] = list[Len(old) + 1]
        /\ Len(old) >= Len(list) => Len(old \o slice) = Len(old)
        /\ \A i \in 1..Len(old) : (old \o slice)[i] = old[i]
    <3>1. old \in Seq(Nat) /\ list \in Seq(Nat)
      BY <1>3, <2>2
    <3> HIDE DEF old, list
    <3>2. QED
      BY <3>1, PageTyped
  <2> HIDE DEF slice, list, page, read, f
  <2>5. QED
    BY <2>3, <2>4 DEF count, old
<1>8. seen \in Watches
  <2>1. SourceSync!ToSet(list) \in SUBSET Nat
    BY <1>3 DEF SourceSync!ToSet
  <2>2. watch[p] \in Watches
    BY <1>1, FetchTypes
  <2>3. QED
    BY <2>1, <2>2 DEF Watches, SourceSync!NoWatch
<1>9. rest \in Seq(Sources)
  BY <1>2
<1>10. pages \in Seq(Page) /\ past \in Past /\ Append(f.history, past) \in Seq(Past)
  <2>1. [of |-> s, records |-> page, count |-> count] \in Page
    BY <1>2, <1>3, <1>7 DEF Page
  <2>2. past \in Past
    <3>1. SourceSync!ToSet(read) \in SUBSET Nat
      <4> HIDE DEF read
      <4>1. QED
        BY <1>7 DEF SourceSync!ToSet
    <3>2. seen.all \in SUBSET Nat /\ seen.edits \in SUBSET {"add", "remove"}
      <4> HIDE DEF seen
      <4>1. QED
        BY <1>8 DEF Watches
    <3> HIDE DEF read, seen
    <3>3. QED
      BY <3>1, <3>2 DEF Past
  <2> HIDE DEF past, page, list, count
  <2>3. QED
    BY <1>2, <2>1, <2>2
(* Until the first edit what has been read is the beginning of the list.   *)
<1>11. seen.edits = {} => /\ Len(read) <= count
                          /\ \A i \in 1..Len(read) : read[i] = list[i]
                          /\ seen.all \subseteq Listed(list)
  <2>1. CASE f.count = -1
    <3>1. f.part = <<>> /\ Len(f.part) = 0
      BY <1>2, <2>1 DEF Follows
    <3>2. seen.all = Listed(list)
      BY <2>1 DEF SourceSync!ToSet, SourceSync!NoWatch, Listed
    <3>3. /\ f.part \in Seq(Nat)
          /\ Len(f.part) <= count
          /\ \A i \in 1..Len(f.part) : f.part[i] = list[i]
      BY <1>2, <1>3, <3>1
    <3>4. Len(read) <= count /\ \A i \in 1..Len(read) : read[i] = list[i]
      <4>1. f.part \in Seq(Nat) /\ list \in Seq(Nat) /\ read \in Seq(Nat)
        BY <1>3, <1>7, <3>3
      <4>2. Grew(read, f.part, list)
        BY <1>7 DEF Grew
      <4>3. Begins(f.part, list)
        BY <3>3 DEF Begins
      <4> HIDE DEF f, list, read, seen
      <4>4. Begins(read, list)
        BY <4>1, <4>2, <4>3, BeginningGrows
      <4>5. QED
        BY <4>4 DEF Begins
    <3> HIDE DEF f, list, read, seen
    <3>5. QED
      BY <3>2, <3>4
  <2>2. CASE f.count # -1
    <3>1. f.count = count /\ seen = watch[p]
      BY <1>5, <2>2
    <3>2. seen.edits = {} => /\ Len(f.part) <= count
                             /\ \A i \in 1..Len(f.part) : f.part[i] = list[i]
                             /\ seen.all \subseteq Listed(list)
      BY <1>2, <2>2, <3>1 DEF Follows
    <3>3. f.part \in Seq(Nat)
      BY <1>2
    <3> HIDE DEF f, list, read, seen
    <3>4. ASSUME seen.edits = {}
          PROVE  Len(read) <= count /\ \A i \in 1..Len(read) : read[i] = list[i]
      <4>1. Grew(read, f.part, list)
        BY <1>7 DEF Grew
      <4>2. Begins(f.part, list)
        BY <3>2, <3>4 DEF Begins
      <4>3. Begins(read, list)
        BY <1>3, <1>7, <3>3, <4>1, <4>2, BeginningGrows
      <4>4. QED
        BY <4>3 DEF Begins
    <3>5. QED
      BY <3>2, <3>4
  <2>3. QED
    BY <2>1, <2>2
<1>12. seen.edits # {"add"} /\ seen.edits # {"remove"}
  <2>1. CASE f.count = -1
    BY <2>1 DEF SourceSync!NoWatch
  <2>2. CASE f.count # -1
    <3>1. seen = watch[p] /\ f.count = count
      BY <1>5, <2>2
    <3>2. /\ watch[p].edits = {"add"} => count > count
          /\ watch[p].edits = {"remove"} => count < count
      BY <1>2, <2>2, <3>1 DEF Follows
    <3> HIDE DEF count, seen
    <3>3. QED
      BY <1>3, <3>1, <3>2
  <2>3. QED
    BY <2>1, <2>2
<1> HIDE DEF seen, read, page, list, count, s, pages, past, rest
<1>13. CASE Len(read) < count
  <2>1. /\ next \in Fetches /\ next.phase = "read" /\ next.todo = f.todo
        /\ next.count = count /\ next.part = read /\ next.history = f.history
    <3> HIDE DEF f
    <3>1. count \in Int
      BY <1>3
    <3>2. QED
      BY <1>1, <1>2, <1>7, <1>10, <3>1 DEF Fetches
  <2> HIDE DEF next, f
  <2>2. fetch' = [fetch EXCEPT ![p] = next] /\ watch' = [watch EXCEPT ![p] = seen]
    BY <1>4, <1>6, <1>13
  <2>3. /\ fetch' \in [Requests -> {SourceSync!NotFetching} \cup Fetches] /\ fetch'[p] = next
        /\ \A r \in Requests : r # p => fetch'[r] = fetch[r]
        /\ watch' \in [Requests -> Watches] /\ watch'[p] = seen
        /\ \A r \in Requests : r # p => watch'[r] = watch[r]
    BY <1>1, <1>8, <2>1, <2>2 DEF SourcesTyped
  <2>4. SourcesTyped'
    BY <1>1, <1>4, <2>3 DEF SourcesTyped
  <2>5. Follows(next, seen, list)
    <3>1. next.count # -1
      BY <1>3, <2>1
    <3>2. seen.edits = {} => /\ Len(list) = next.count /\ Len(next.part) <= next.count
                             /\ \A i \in 1..Len(next.part) : next.part[i] = list[i]
                             /\ seen.all \subseteq Listed(list)
      BY <1>11, <2>1 DEF count
    <3>3. QED
      BY <1>12, <3>1, <3>2 DEF Follows
  <2>6. ASSUME NEW r \in Requests, fetch'[r].phase = "read"
        PROVE  /\ fetch'[r].todo # <<>>
               /\ Follows(fetch'[r], watch'[r], records'[Head(fetch'[r].todo)])
    <3>1. CASE r = p
      BY <1>2, <1>4, <2>1, <2>3, <2>5, <3>1 DEF list, s
    <3>2. CASE r # p
      BY <1>4, <2>3, <2>6, <3>2 DEF SourcesInv
    <3>3. QED
      BY <3>1, <3>2
  <2>7. \A r \in Requests : fetch'[r].phase # "idle" =>
            \A i \in DOMAIN fetch'[r].history : Covered(fetch'[r].history[i])
    BY <1>2, <2>1, <2>3 DEF SourcesInv
  <2>8. QED
    BY <1>4, <2>4, <2>6, <2>7 DEF SourcesInv
<1>14. CASE ~(Len(read) < count)
  <2>1. Covered(past)
    <3>1. past.all = seen.all /\ past.edits = seen.edits /\ past.got = SourceSync!ToSet(read)
      BY DEF past
    <3>2. seen.edits = {} => Listed(list) \subseteq SourceSync!ToSet(read)
      <4> SUFFICES ASSUME seen.edits = {}, NEW i \in DOMAIN list PROVE list[i] \in SourceSync!ToSet(read)
        BY DEF Listed
      <4>1. Len(read) \in Nat /\ DOMAIN read = 1..Len(read) /\ DOMAIN list = 1..count
        BY <1>3, <1>7 DEF count
      <4>2. i \in DOMAIN read /\ read[i] = list[i]
        BY <1>3, <1>11, <1>14, <4>1
      <4>3. QED
        BY <4>2 DEF SourceSync!ToSet
    <3>3. seen.edits = {} => past.all \subseteq past.got
      BY <1>11, <3>1, <3>2
    <3>4. seen.edits \in SUBSET {"add", "remove"}
      BY <1>8 DEF Watches
    <3>5. seen.edits # {} => seen.edits = {"add", "remove"}
      BY <1>12, <3>4
    <3>6. QED
      BY <3>1, <3>3, <3>5 DEF Covered
  <2>2. LET h == Append(f.history, past)
        IN  \A i \in DOMAIN h : Covered(h[i])
    <3> DEFINE h == Append(f.history, past)
    <3>1. f.history \in Seq(Past)
      BY <1>2
    <3> HIDE DEF f
    <3>2. \A i \in DOMAIN h : (i \in DOMAIN f.history /\ h[i] = f.history[i]) \/ h[i] = past
      BY <1>10, <3>1
    <3>3. \A i \in DOMAIN f.history : Covered(f.history[i])
      BY <1>2 DEF f
    <3> HIDE DEF h
    <3>4. \A i \in DOMAIN h : Covered(h[i])
      BY <2>1, <3>2, <3>3
    <3>5. QED
      BY <3>4 DEF h
  <2>3. /\ last \in Fetches /\ last.todo = rest
        /\ last.phase = IF rest = <<>> THEN "look" ELSE "read"
        /\ last.count = -1 /\ last.part = <<>> /\ last.history = Append(f.history, past)
    <3> DEFINE goes == IF rest = <<>> THEN "look" ELSE "read"
               told == Append(f.history, past)
    <3>1. goes \in {"read", "look", "insert"} /\ told \in Seq(Past) /\ -1 \in Int /\ <<>> \in Seq(Nat)
      BY <1>10
    <3>2. last = [f EXCEPT !.phase = goes, !.todo = rest, !.count = -1, !.part = <<>>,
                           !.pages = pages, !.history = told]
      BY <1>2 DEF Fetches
    <3> HIDE DEF goes, told, f, last
    <3>3. /\ last \in Fetches /\ last.todo = rest /\ last.phase = goes
          /\ last.count = -1 /\ last.part = <<>> /\ last.history = told
      BY <1>2, <1>9, <1>10, <3>1, <3>2 DEF Fetches
    <3>4. QED
      BY <3>3 DEF goes, told
  <2> HIDE DEF last, f
  <2>4. fetch' = [fetch EXCEPT ![p] = last] /\ watch' = [watch EXCEPT ![p] = SourceSync!NoWatch]
    BY <1>4, <1>6, <1>14
  <2>5. SourceSync!NoWatch \in Watches
    BY DEF SourceSync!NoWatch, Watches
  <2>6. /\ fetch' \in [Requests -> {SourceSync!NotFetching} \cup Fetches] /\ fetch'[p] = last
        /\ \A r \in Requests : r # p => fetch'[r] = fetch[r]
        /\ watch' \in [Requests -> Watches]
        /\ \A r \in Requests : r # p => watch'[r] = watch[r]
    BY <1>1, <2>3, <2>4, <2>5 DEF SourcesTyped
  <2>7. SourcesTyped'
    BY <1>1, <1>4, <2>6 DEF SourcesTyped
  <2>8. ASSUME NEW r \in Requests, fetch'[r].phase = "read"
        PROVE  /\ fetch'[r].todo # <<>>
               /\ Follows(fetch'[r], watch'[r], records'[Head(fetch'[r].todo)])
    <3>1. CASE r = p
      BY <2>3, <2>6, <2>8, <3>1 DEF Follows
    <3>2. CASE r # p
      BY <1>4, <2>6, <2>8, <3>2 DEF SourcesInv
    <3>3. QED
      BY <3>1, <3>2
  <2>9. \A r \in Requests : fetch'[r].phase # "idle" =>
            \A i \in DOMAIN fetch'[r].history : Covered(fetch'[r].history[i])
    BY <2>2, <2>3, <2>6 DEF SourcesInv
  <2>10. QED
    BY <1>4, <2>7, <2>8, <2>9 DEF SourcesInv
<1>15. QED
  BY <1>13, <1>14

LEMMA SourcesStep ==
    ASSUME SourcesInv, SourceSync!SourceNext \/ UNCHANGED sourceVars
    PROVE  SourcesInv'
<1>1. SourceSync!NotFetching.phase = "idle"
  BY DEF SourceSync!NotFetching
<1>2. ASSUME NEW p \in Requests, SourceSync!FailFetch(p) PROVE SourcesInv'
  BY <1>1, <1>2, QuietFetchInv DEF SourceSync!FailFetch, SourceSync!Stop, SourcesInv
<1>3. ASSUME NEW p \in Requests, SourceSync!Look(p) PROVE SourcesInv'
  <2> DEFINE f == [fetch[p] EXCEPT !.phase = "insert"]
  <2>1. CASE SourceSync!Stop(p)
    BY <1>1, <1>3, <2>1, QuietFetchInv DEF SourceSync!Look, SourceSync!Stop, SourcesInv
  <2>2. CASE ~SourceSync!Stop(p)
    <3>1. /\ fetch[p] \in Fetches /\ fetch[p].phase = "look"
          /\ \A i \in DOMAIN fetch[p].history : Covered(fetch[p].history[i])
      BY <1>3, ReadTypes DEF SourceSync!Look, SourcesInv
    <3>2. f \in Fetches /\ f.phase = "insert" /\ f.history = fetch[p].history
      BY <3>1 DEF Fetches
    <3>3. fetch' = [fetch EXCEPT ![p].phase = "insert"] /\ watch' = watch
          /\ UNCHANGED <<records, nextId, snapshots>>
      BY <1>3, <2>2 DEF SourceSync!Look
    <3>4. fetch' = [fetch EXCEPT ![p] = f]
      BY <3>3 DEF SourcesInv, SourcesTyped
    <3> HIDE DEF f
    <3>5. QED
      BY <3>1, <3>2, <3>3, <3>4, QuietFetchInv DEF SourcesInv
  <2>3. QED
    BY <2>1, <2>2
<1>4. ASSUME NEW p \in Requests, SourceSync!Insert(p) PROVE SourcesInv'
  <2>1. \A i \in DOMAIN fetch[p].history : Covered(fetch[p].history[i])
    BY <1>4 DEF SourceSync!Insert, SourcesInv
  <2>2. \A row \in snapshots' : row \in snapshots \/ row.history = fetch[p].history
    BY <1>4 DEF SourceSync!Insert
  <2>3. \A row \in snapshots' : \A i \in DOMAIN row.history : Covered(row.history[i])
    BY <2>1, <2>2 DEF SourcesInv
  <2>4. QED
    BY <1>1, <1>4, <2>3, QuietFetchInv DEF SourceSync!Insert, SourceSync!Stop
<1>5. CASE UNCHANGED sourceVars
  BY <1>5 DEF SourcesInv, SourcesTyped, sourceVars
<1>6. QED
  BY <1>2, <1>3, <1>4, <1>5, AddInv, RemoveInv, BeginFetchInv, ReadPageInv DEF SourceSync!SourceNext

(* A snapshot that calls itself complete holds every record its endpoint   *)
(* listed all the time it was read, unless records were both added and     *)
(* removed meanwhile: the declared count may not change within an endpoint *)
(* (sync_netbox_asset_source), for every number of endpoints, pages and    *)
(* records and every interleaving of requests and edits.                   *)
THEOREM AlwaysMissesOnlyWhenBalanced == PartsSpec => []MissesOnlyWhenBalanced
<1>1. PartsInit => (part = "sources" => SourcesInv)
  BY SourcesInit DEF PartsInit
<1>2. (part = "sources" => SourcesInv) /\ [PartsNext]_partsVars => (part = "sources" => SourcesInv)'
  <2>1. ASSUME part = "sources" => SourcesInv, [PartsNext]_partsVars, part' = "sources"
        PROVE  SourcesInv'
    <3>1. part = "sources" /\ (SourceSync!SourceNext \/ UNCHANGED sourceVars)
      BY <2>1 DEF PartsNext, partsVars
    <3>2. QED
      BY <2>1, <3>1, SourcesStep
  <2>2. QED
    BY <2>1
<1>3. (part = "sources" => SourcesInv) => MissesOnlyWhenBalanced
  BY DEF SourcesInv, MissesOnlyWhenBalanced, SourceSync!MissesOnlyWhenBalanced, Covered,
         SourceSync!ToSet
<1>4. QED
  BY <1>1, <1>2, <1>3, PTL DEF PartsSpec

-----------------------------------------------------------------------------
(* Identities of the assets.  While one ingestion goes on, its book is as  *)
(* sound as the database, and nothing in it moved without a newer sighting *)
(* or a merge.                                                             *)

Devices == [life : {"unborn", "live", "merged"}, key : Aliases \cup {None},
            mac : Macs \cup {None}, status : {"current", "stale", "unobserved"}]
Claims == [owner : Ids \cup {Nobody}, seen : Int]
Books == [asset : [Ids -> Devices], alias : [Aliases -> Claims],
          inventory : [Ips -> Ids \cup {Nobody}], hosts : [Ips -> Ids \cup {Nobody}],
          serving : SUBSET Ids, at : Time, promote : BOOLEAN, listening : Listening,
          broken : BOOLEAN]

(* Assets are numbered in the order of their creation, and owners live.    *)
Sound(as, al) ==
    /\ \A i, j \in Ids : j < i /\ as[i].life # "unborn" => as[j].life # "unborn"
    /\ \A a \in Aliases : al[a].owner # Nobody => as[al[a].owner].life = "live"

(* The hardware address that an asset owns, or is keyed by, is its own.    *)
Clear(as, al) ==
    /\ \A m \in Macs : al[m].owner # Nobody => as[al[m].owner].mac = m
    /\ \A i \in Ids : as[i].life = "live" /\ as[i].key \in Macs => as[i].mac = as[i].key

(* From assets s and aliases l to assets as and aliases al.                *)
Moved(s, l, as, al) ==
    /\ \A a \in Aliases : l[a].owner # Nobody =>
          /\ al[a].owner # Nobody
          /\ al[a].seen >= l[a].seen
          /\ \/ al[a].owner = l[a].owner
             \/ al[a].seen > l[a].seen
             \/ as[l[a].owner].life = "merged"
    /\ \A i \in Ids : s[i].life = "merged" => as[i].life = "merged"

SoundBook(b) == b \in Books /\ Sound(b.asset, b.alias)
ClearBook(b) == Clear(b.asset, b.alias)
(* What an ingestion did between the books b and c.                        *)
Followed(b, c) ==
    /\ SoundBook(c) /\ Moved(b.asset, b.alias, c.asset, c.alias)
    /\ c.promote = b.promote /\ c.at = b.at

LEMMA IdsAreNumbers == Ids \subseteq Nat /\ Nobody \notin Ids
  BY BoundsAssumption DEF Ids, Nobody

LEMMA FollowedIsTransitive ==
    ASSUME NEW b, NEW c, NEW d, SoundBook(b), Followed(b, c), Followed(c, d)
    PROVE  Followed(b, d)
<1>1. /\ b.alias \in [Aliases -> Claims] /\ c.alias \in [Aliases -> Claims]
      /\ d.alias \in [Aliases -> Claims]
  BY DEF Followed, SoundBook, Books
<1>2. ASSUME NEW a \in Aliases, b.alias[a].owner # Nobody
      PROVE  /\ d.alias[a].owner # Nobody
             /\ d.alias[a].seen >= b.alias[a].seen
             /\ \/ d.alias[a].owner = b.alias[a].owner
                \/ d.alias[a].seen > b.alias[a].seen
                \/ d.asset[b.alias[a].owner].life = "merged"
  <2>1. /\ b.alias[a].seen \in Int /\ c.alias[a].seen \in Int /\ d.alias[a].seen \in Int
        /\ b.alias[a].owner \in Ids
    BY <1>1, <1>2 DEF Claims
  <2>2. /\ c.alias[a].owner # Nobody /\ c.alias[a].seen >= b.alias[a].seen
        /\ \/ c.alias[a].owner = b.alias[a].owner
           \/ c.alias[a].seen > b.alias[a].seen
           \/ c.asset[b.alias[a].owner].life = "merged"
    BY <1>2 DEF Followed, Moved
  <2>3. /\ d.alias[a].owner # Nobody /\ d.alias[a].seen >= c.alias[a].seen
        /\ \/ d.alias[a].owner = c.alias[a].owner
           \/ d.alias[a].seen > c.alias[a].seen
           \/ d.asset[c.alias[a].owner].life = "merged"
    BY <2>2 DEF Followed, Moved
  <2>4. c.asset[b.alias[a].owner].life = "merged" => d.asset[b.alias[a].owner].life = "merged"
    BY <2>1 DEF Followed, Moved
  <2>5. QED
    BY <2>1, <2>2, <2>3, <2>4
<1>3. QED
  BY <1>2 DEF Followed, Moved

LEMMA FusedFields ==
    ASSUME NEW b \in Books, NEW c \in Ids, NEW d \in Ids, c # d
    PROVE  LET f == Fused(b, c, d)
           IN  /\ f \in Books /\ f.promote = b.promote /\ f.at = b.at
               /\ \A i \in Ids : i # c /\ i # d => f.asset[i] = b.asset[i]
               /\ f.asset[d].life = "merged" /\ f.asset[d].mac = b.asset[d].mac
               /\ f.asset[c].life = b.asset[c].life /\ f.asset[c].key = b.asset[c].key
               /\ f.asset[c].mac = IF b.asset[c].mac = None THEN b.asset[d].mac ELSE b.asset[c].mac
               /\ \A a \in Aliases :
                     /\ f.alias[a].seen = b.alias[a].seen
                     /\ f.alias[a].owner = IF b.alias[a].owner = d THEN c ELSE b.alias[a].owner
<1> DEFINE mac == IF b.asset[c].mac = None THEN b.asset[d].mac ELSE b.asset[c].mac
           as == [b.asset EXCEPT ![c] = [b.asset[c] EXCEPT !.mac = mac],
                                 ![d] = [b.asset[d] EXCEPT !.life = "merged"]]
           al == [a \in Aliases |-> IF b.alias[a].owner = d
                                      THEN [b.alias[a] EXCEPT !.owner = c] ELSE b.alias[a]]
           inv == Replaced(b.inventory, d, c)
           hs == Replaced(b.hosts, d, c)
           srv == IF d \in b.serving THEN (b.serving \ {d}) \cup {c} ELSE b.serving
<1>1. /\ b.asset \in [Ids -> Devices] /\ b.alias \in [Aliases -> Claims]
      /\ b.inventory \in [Ips -> Ids \cup {Nobody}] /\ b.hosts \in [Ips -> Ids \cup {Nobody}]
      /\ b.serving \in SUBSET Ids
  BY DEF Books
<1>2. b.asset[c] \in Devices /\ b.asset[d] \in Devices
  BY <1>1
<1>3. mac \in Macs \cup {None}
  BY <1>2 DEF Devices
<1>4. as \in [Ids -> Devices]
  BY <1>1, <1>2, <1>3 DEF Devices
<1>5. al \in [Aliases -> Claims]
  BY <1>1 DEF Claims
<1>6. /\ inv \in [Ips -> Ids \cup {Nobody}] /\ hs \in [Ips -> Ids \cup {Nobody}]
      /\ srv \in SUBSET Ids
  BY <1>1 DEF Replaced
<1>7. Fused(b, c, d) = [b EXCEPT !.asset = as, !.alias = al, !.inventory = inv, !.hosts = hs,
                                 !.serving = srv]
  BY <1>1 DEF Fused, Replaced, Books
<1>8. /\ \A i \in Ids : i # c /\ i # d => as[i] = b.asset[i]
      /\ as[d].life = "merged" /\ as[d].mac = b.asset[d].mac
      /\ as[c].life = b.asset[c].life /\ as[c].key = b.asset[c].key /\ as[c].mac = mac
  BY <1>1, <1>2 DEF Devices
<1>9. \A a \in Aliases :
          /\ al[a].seen = b.alias[a].seen
          /\ al[a].owner = IF b.alias[a].owner = d THEN c ELSE b.alias[a].owner
  BY <1>1 DEF Claims
<1>10. /\ Fused(b, c, d) \in Books /\ Fused(b, c, d).asset = as /\ Fused(b, c, d).alias = al
       /\ Fused(b, c, d).promote = b.promote /\ Fused(b, c, d).at = b.at
  <2> HIDE DEF as, al, inv, hs, srv
  <2>1. QED
    BY <1>4, <1>5, <1>6, <1>7 DEF Books
<1>11. QED
  BY <1>8, <1>9, <1>10

LEMMA FusedInv ==
    ASSUME NEW b, SoundBook(b), NEW c \in Ids, NEW d \in Ids, c # d,
           b.asset[c].life = "live", b.asset[d].life = "live"
    PROVE  /\ Followed(b, Fused(b, c, d))
           /\ ClearBook(b) /\ ~DistinctMacs(b, c, d) => ClearBook(Fused(b, c, d))
<1> DEFINE f == Fused(b, c, d)
<1>1. /\ f \in Books /\ f.promote = b.promote /\ f.at = b.at
      /\ \A i \in Ids : i # c /\ i # d => f.asset[i] = b.asset[i]
      /\ f.asset[d].life = "merged" /\ f.asset[d].mac = b.asset[d].mac
      /\ f.asset[c].life = b.asset[c].life /\ f.asset[c].key = b.asset[c].key
      /\ f.asset[c].mac = IF b.asset[c].mac = None THEN b.asset[d].mac ELSE b.asset[c].mac
      /\ \A a \in Aliases :
            /\ f.alias[a].seen = b.alias[a].seen
            /\ f.alias[a].owner = IF b.alias[a].owner = d THEN c ELSE b.alias[a].owner
  BY FusedFields DEF SoundBook
<1>2. /\ b.asset \in [Ids -> Devices] /\ b.alias \in [Aliases -> Claims]
  BY DEF SoundBook, Books
<1> HIDE DEF f
<1>3. \A a \in Aliases : /\ b.alias[a].owner \in Ids \cup {Nobody} /\ b.alias[a].seen \in Int
  BY <1>2 DEF Claims
<1>4. Sound(f.asset, f.alias)
  <2>1. \A i \in Ids : (f.asset[i].life # "unborn") <=> (b.asset[i].life # "unborn")
    BY <1>1
  <2>2. \A a \in Aliases : f.alias[a].owner # Nobody => f.asset[f.alias[a].owner].life = "live"
    BY <1>1, <1>3 DEF SoundBook, Sound
  <2>3. QED
    BY <2>1, <2>2 DEF SoundBook, Sound
<1>5. Moved(b.asset, b.alias, f.asset, f.alias)
  <2>1. \A a \in Aliases : b.alias[a].owner # Nobody =>
            /\ f.alias[a].owner # Nobody
            /\ f.alias[a].owner = b.alias[a].owner \/ f.asset[b.alias[a].owner].life = "merged"
    BY <1>1, IdsAreNumbers
  <2>2. \A a \in Aliases : f.alias[a].seen >= b.alias[a].seen
    BY <1>1, <1>3
  <2>3. \A i \in Ids : b.asset[i].life = "merged" => f.asset[i].life = "merged"
    BY <1>1
  <2>4. QED
    BY <2>1, <2>2, <2>3 DEF Moved
<1>6. ASSUME ClearBook(b), ~DistinctMacs(b, c, d) PROVE ClearBook(f)
  <2>1. \A m \in Macs : f.alias[m].owner # Nobody => f.asset[f.alias[m].owner].mac = m
    <3> SUFFICES ASSUME NEW m \in Macs, f.alias[m].owner # Nobody
                 PROVE  f.asset[f.alias[m].owner].mac = m
      OBVIOUS
    <3>1. m \in Aliases /\ m # None
      BY AliasesAssumption DEF Aliases
    <3>2. b.alias[m].owner \in Ids /\ b.asset[b.alias[m].owner].mac = m
      BY <1>1, <1>3, <1>6, <3>1, IdsAreNumbers DEF ClearBook, Clear
    <3>3. QED
      BY <1>1, <1>6, <3>1, <3>2 DEF DistinctMacs
  <2>2. \A i \in Ids : f.asset[i].life = "live" /\ f.asset[i].key \in Macs
                          => f.asset[i].mac = f.asset[i].key
    <3> SUFFICES ASSUME NEW i \in Ids, f.asset[i].life = "live", f.asset[i].key \in Macs
                 PROVE  f.asset[i].mac = f.asset[i].key
      OBVIOUS
    <3>1. i # d
      BY <1>1
    <3>2. b.asset[i].life = "live" /\ b.asset[i].key = f.asset[i].key
      BY <1>1, <3>1
    <3>3. b.asset[i].mac = b.asset[i].key /\ b.asset[i].mac # None
      BY <1>6, <3>2, AliasesAssumption DEF ClearBook, Clear
    <3>4. QED
      BY <1>1, <3>1, <3>2, <3>3
  <2>3. QED
    BY <2>1, <2>2 DEF ClearBook, Clear
<1>7. QED
  BY <1>1, <1>4, <1>5, <1>6 DEF Followed, SoundBook, f

LEMMA FollowsItself ==
    ASSUME NEW b, SoundBook(b)
    PROVE  Followed(b, b)
<1>1. \A a \in Aliases : b.alias[a].seen \in Int
  BY DEF SoundBook, Books, Claims
<1>2. \A a \in Aliases : b.alias[a].seen >= b.alias[a].seen
  BY <1>1
<1>3. QED
  BY <1>2 DEF Followed, Moved

(* The hardware address of an asset is kept.                               *)
Kept(b, c) == \A i \in Ids : b.asset[i].mac # None => c.asset[i].mac = b.asset[i].mac

LEMMA MergedInv ==
    ASSUME NEW b, SoundBook(b), NEW i \in Ids, NEW j \in Ids, i # j,
           b.asset[i].life = "live", b.asset[j].life = "live"
    PROVE  /\ Followed(b, Merged(b, i, j)) /\ Kept(b, Merged(b, i, j))
           /\ ClearBook(b) => ClearBook(Merged(b, i, j))
           /\ Survivor(b, i, j) \in Ids
           /\ Merged(b, i, j).asset[Survivor(b, i, j)].life = "live"
           /\ \A m \in Macs : b.asset[i].mac = m /\ b.asset[j].mac \in {None, m}
                 => Merged(b, i, j).asset[Survivor(b, i, j)].mac = m
<1>1. i # Nobody /\ j # Nobody /\ \A m \in Macs : m # None
  BY IdsAreNumbers, AliasesAssumption
<1>2. b \in Books
  BY DEF SoundBook
<1>3. CASE Canonical(b, i, j) = Nobody
  <2>1. Merged(b, i, j) = b /\ Survivor(b, i, j) = i
    BY <1>1, <1>3 DEF Merged, Survivor
  <2>2. QED
    BY <2>1, FollowsItself DEF Kept
<1>4. CASE Canonical(b, i, j) = i
  <2>1. Merged(b, i, j) = Fused(b, i, j) /\ Survivor(b, i, j) = i
    BY <1>1, <1>4 DEF Merged, Survivor
  <2>2. ~DistinctMacs(b, i, j)
    BY <1>1, <1>4 DEF Canonical
  <2>3. /\ Followed(b, Fused(b, i, j))
        /\ ClearBook(b) => ClearBook(Fused(b, i, j))
    BY <2>2, FusedInv
  <2>4. /\ \A x \in Ids : x # i /\ x # j
              => Fused(b, i, j).asset[x] = b.asset[x]
        /\ Fused(b, i, j).asset[j].mac = b.asset[j].mac
        /\ Fused(b, i, j).asset[i].life = b.asset[i].life
        /\ Fused(b, i, j).asset[i].mac
              = IF b.asset[i].mac = None THEN b.asset[j].mac ELSE b.asset[i].mac
    BY <1>2, FusedFields
  <2>5. Kept(b, Fused(b, i, j))
    BY <2>4 DEF Kept
  <2>6. QED
    BY <1>1, <2>1, <2>3, <2>4, <2>5
<1>5. CASE Canonical(b, i, j) = j
  <2>1. Merged(b, i, j) = Fused(b, j, i) /\ Survivor(b, i, j) = j
    BY <1>1, <1>5 DEF Merged, Survivor
  <2>2. ~DistinctMacs(b, j, i)
    BY <1>1, <1>5 DEF Canonical, DistinctMacs
  <2>3. /\ Followed(b, Fused(b, j, i))
        /\ ClearBook(b) => ClearBook(Fused(b, j, i))
    BY <2>2, FusedInv
  <2>4. /\ \A x \in Ids : x # j /\ x # i
              => Fused(b, j, i).asset[x] = b.asset[x]
        /\ Fused(b, j, i).asset[i].mac = b.asset[i].mac
        /\ Fused(b, j, i).asset[j].life = b.asset[j].life
        /\ Fused(b, j, i).asset[j].mac
              = IF b.asset[j].mac = None THEN b.asset[i].mac ELSE b.asset[j].mac
    BY <1>2, FusedFields
  <2>5. Kept(b, Fused(b, j, i))
    BY <2>4 DEF Kept
  <2>6. QED
    BY <1>1, <2>1, <2>3, <2>4, <2>5
<1>6. QED
  BY <1>3, <1>4, <1>5 DEF Canonical

LEMMA HolderIsKeyed ==
    ASSUME NEW b, NEW key, KeyHolder(b, key) # Nobody
    PROVE  /\ KeyHolder(b, key) \in Ids
           /\ b.asset[KeyHolder(b, key)].life = "live"
           /\ b.asset[KeyHolder(b, key)].key = key
<1> DEFINE H == {i \in Ids : Live(b, i) /\ b.asset[i].key = key}
<1>1. H # {} /\ KeyHolder(b, key) = CHOOSE i \in H : TRUE
  BY DEF KeyHolder
<1>2. KeyHolder(b, key) \in H
  BY <1>1
<1>3. QED
  BY <1>2 DEF Live

LEMMA AssetForLives ==
    ASSUME NEW b, SoundBook(b), NEW a \in Aliases \cup {None}, AssetFor(b, a) # Nobody
    PROVE  /\ AssetFor(b, a) \in Ids /\ b.asset[AssetFor(b, a)].life = "live" /\ a # None
           /\ ClearBook(b) /\ a \in Macs => b.asset[AssetFor(b, a)].mac = a
<1>1. a # None /\ a \in Aliases
  BY DEF AssetFor
<1>2. b.alias[a].owner \in Ids \cup {Nobody}
  BY <1>1 DEF SoundBook, Books, Claims
<1>3. CASE b.alias[a].owner # Nobody
  <2>1. AssetFor(b, a) = b.alias[a].owner
    BY <1>1, <1>3 DEF AssetFor
  <2>2. QED
    BY <1>1, <1>2, <1>3, <2>1 DEF SoundBook, Sound, ClearBook, Clear
<1>4. CASE b.alias[a].owner = Nobody
  <2>1. AssetFor(b, a) = KeyHolder(b, a)
    BY <1>1, <1>4 DEF AssetFor
  <2>2. QED
    BY <1>1, <2>1, HolderIsKeyed DEF ClearBook, Clear
<1>5. QED
  BY <1>3, <1>4

LEMMA HostAliases ==
    ASSUME NEW h \in Host
    PROVE  /\ h.ip \in Ips /\ h.ip \in Aliases /\ h.ip # None /\ h.ip \notin Macs
           /\ h.mac \in Macs \cup {None} /\ h.mac \in Aliases \cup {None}
           /\ h.name \in Aliases \cup {None} /\ h.name \notin Macs
  BY AliasesAssumption DEF Host, Aliases

LEMMA SelectedInv ==
    ASSUME NEW b, SoundBook(b), NEW h \in Host
    PROVE  /\ Followed(b, Selected(b, h)[1])
           /\ ClearBook(b) => ClearBook(Selected(b, h)[1])
           /\ Selected(b, h)[2] = Nobody => Selected(b, h)[1] = b
           /\ Selected(b, h)[2] # Nobody =>
                 /\ Selected(b, h)[2] \in Ids
                 /\ Selected(b, h)[1].asset[Selected(b, h)[2]].life = "live"
                 /\ ClearBook(b) /\ h.mac # None
                       => Selected(b, h)[1].asset[Selected(b, h)[2]].mac \in {None, h.mac}
<1> DEFINE byMac == AssetFor(b, h.mac)
           byIp == AssetFor(b, h.ip)
           byName == AssetFor(b, h.name)
           one == IF byMac # Nobody THEN byMac
                  ELSE IF byIp # Nobody /\ (h.mac = None \/ ~HasOtherMac(b, byIp, h.mac)) THEN byIp
                  ELSE IF byName # Nobody /\ (h.mac = None \/ ~HasOtherMac(b, byName, h.mac))
                       THEN byName
                  ELSE Nobody
<1>1. /\ byMac # Nobody => /\ byMac \in Ids /\ b.asset[byMac].life = "live"
                           /\ h.mac \in Macs
                           /\ ClearBook(b) => b.asset[byMac].mac = h.mac
      /\ byIp # Nobody => byIp \in Ids /\ b.asset[byIp].life = "live"
      /\ byName # Nobody => byName \in Ids /\ b.asset[byName].life = "live"
  BY AssetForLives, HostAliases
<1> HIDE DEF byMac, byIp, byName
<1>2. CASE byMac # Nobody /\ byIp \notin {Nobody, byMac} /\ ~DistinctMacs(b, byMac, byIp)
  <2>1. /\ Selected(b, h)[1] = Merged(b, byMac, byIp)
        /\ Selected(b, h)[2] = Survivor(b, byMac, byIp)
    BY <1>2 DEF Selected, byMac, byIp, byName
  <2>2. /\ Followed(b, Merged(b, byMac, byIp))
        /\ ClearBook(b) => ClearBook(Merged(b, byMac, byIp))
        /\ Survivor(b, byMac, byIp) \in Ids
        /\ Merged(b, byMac, byIp).asset[Survivor(b, byMac, byIp)].life = "live"
        /\ \A m \in Macs : b.asset[byMac].mac = m /\ b.asset[byIp].mac \in {None, m}
              => Merged(b, byMac, byIp).asset[Survivor(b, byMac, byIp)].mac = m
    BY <1>1, <1>2, MergedInv
  <2>3. ClearBook(b) => /\ b.asset[byMac].mac = h.mac /\ h.mac \in Macs
                        /\ b.asset[byIp].mac \in {None, h.mac}
    BY <1>1, <1>2, AliasesAssumption DEF DistinctMacs
  <2>4. QED
    BY <2>1, <2>2, <2>3, IdsAreNumbers
<1>3. CASE ~(byMac # Nobody /\ byIp \notin {Nobody, byMac} /\ ~DistinctMacs(b, byMac, byIp))
  <2>1. Selected(b, h)[1] = b /\ Selected(b, h)[2] = one
    BY <1>3 DEF Selected, byMac, byIp, byName
  <2>2. one # Nobody => /\ one \in Ids /\ b.asset[one].life = "live"
                        /\ ClearBook(b) /\ h.mac # None => b.asset[one].mac \in {None, h.mac}
    BY <1>1 DEF HasOtherMac
  <2> HIDE DEF one
  <2>3. QED
    BY <2>1, <2>2, FollowsItself
<1>4. QED
  BY <1>2, <1>3

Put(b, i, d) == [b EXCEPT !.asset = [@ EXCEPT ![i] = d]]

LEMMA PutFields ==
    ASSUME NEW b \in Books, NEW i \in Ids, NEW d \in Devices
    PROVE  /\ Put(b, i, d) \in Books /\ Put(b, i, d).alias = b.alias
           /\ Put(b, i, d).promote = b.promote /\ Put(b, i, d).at = b.at
           /\ Put(b, i, d).asset[i] = d
           /\ \A j \in Ids : j # i => Put(b, i, d).asset[j] = b.asset[j]
<1>1. b.asset \in [Ids -> Devices]
  BY DEF Books
<1> DEFINE as == [b.asset EXCEPT ![i] = d]
<1>2. /\ as \in [Ids -> Devices] /\ as[i] = d
      /\ \A j \in Ids : j # i => as[j] = b.asset[j]
  BY <1>1
<1>3. Put(b, i, d) = [b EXCEPT !.asset = as]
  BY DEF Put
<1> HIDE DEF as
<1>4. QED
  BY <1>2, <1>3 DEF Books

(* An asset is created or changed without owning or being owned.           *)
LEMMA PutInv ==
    ASSUME NEW b, SoundBook(b), NEW i \in Ids, NEW d \in Devices, d.life = "live",
           b.asset[i].life \in {"unborn", "live"},
           \A j \in Ids : j < i => b.asset[j].life # "unborn"
    PROVE  Followed(b, Put(b, i, d))
<1>1. /\ Put(b, i, d) \in Books /\ Put(b, i, d).alias = b.alias
      /\ Put(b, i, d).promote = b.promote /\ Put(b, i, d).at = b.at
      /\ Put(b, i, d).asset[i] = d
      /\ \A j \in Ids : j # i => Put(b, i, d).asset[j] = b.asset[j]
  BY PutFields DEF SoundBook
<1> DEFINE p == Put(b, i, d)
<1> HIDE DEF p
<1>2. \A a \in Aliases : b.alias[a].seen \in Int /\ b.alias[a].owner \in Ids \cup {Nobody}
  BY DEF SoundBook, Books, Claims
<1>3. Sound(p.asset, p.alias)
  <2>1. \A j, k \in Ids : k < j /\ p.asset[j].life # "unborn" => p.asset[k].life # "unborn"
    BY <1>1 DEF SoundBook, Sound, p
  <2>2. \A a \in Aliases : p.alias[a].owner # Nobody => p.asset[p.alias[a].owner].life = "live"
    BY <1>1, <1>2 DEF SoundBook, Sound, p
  <2>3. QED
    BY <2>1, <2>2 DEF Sound
<1>4. Moved(b.asset, b.alias, p.asset, p.alias)
  <2>1. \A a \in Aliases : b.alias[a].seen >= b.alias[a].seen
    BY <1>2
  <2>2. \A j \in Ids : b.asset[j].life = "merged" => p.asset[j].life = "merged"
    BY <1>1 DEF p
  <2>3. p.alias = b.alias
    BY <1>1 DEF p
  <2>4. QED
    BY <2>1, <2>2, <2>3 DEF Moved
<1>5. QED
  BY <1>1, <1>3, <1>4 DEF Followed, SoundBook, p

LEMMA LivesInOrder ==
    ASSUME NEW b, SoundBook(b), NEW i \in Ids, b.asset[i].life = "live"
    PROVE  \A j \in Ids : j < i => b.asset[j].life # "unborn"
  BY DEF SoundBook, Sound

(* The assets that exist are those below the next number.                  *)
LEMMA NextIdIsFree ==
    ASSUME NEW b, SoundBook(b), NextId(b) \in Ids
    PROVE  /\ b.asset[NextId(b)].life = "unborn"
           /\ \A j \in Ids : j < NextId(b) => b.asset[j].life # "unborn"
<1> DEFINE B == {i \in Ids : b.asset[i].life # "unborn"}
<1>1. MaxAssets \in Int /\ Ids = 1..MaxAssets
  BY BoundsAssumption DEF Ids
<1>2. \E n \in Nat : B = 1..n
  <2>1. CASE B = {}
    <3>1. B = 1..0
      BY <2>1
    <3>2. QED
      BY <3>1
  <2>2. CASE B # {}
    <3>1. B \in SUBSET Int /\ \A x \in B : x <= MaxAssets
      BY <1>1
    <3>2. PICK g \in B : \A y \in B : y <= g
      BY <1>1, <2>2, <3>1, Greatest
    <3>3. g \in Nat /\ g \in Ids /\ b.asset[g].life # "unborn"
      BY <1>1, <3>2
    <3>4. B \subseteq 1..g
      BY <1>1, <3>2, <3>3
    <3>5. 1..g \subseteq B
      BY <1>1, <3>3 DEF SoundBook, Sound
    <3>6. QED
      BY <3>3, <3>4, <3>5
  <2>3. QED
    BY <2>1, <2>2
<1>3. PICK n \in Nat : B = 1..n
  BY <1>2
<1>4. Cardinality(1..n) = n
  <2>1. 1 \in Int /\ n \in Int /\ Cardinality(1..n) = IF 1 > n THEN 0 ELSE n - 1 + 1
    BY FS_Interval
  <2>2. QED
    BY <2>1
<1>5. NextId(b) = n + 1
  BY <1>3, <1>4 DEF NextId
<1>6. \A j \in Ids : j \in B <=> j <= n
  BY <1>1, <1>3
<1>7. NextId(b) \notin B
  BY <1>5, <1>6
<1>8. \A j \in Ids : j < NextId(b) => j \in B
  BY <1>1, <1>5, <1>6
<1>9. QED
  BY <1>7, <1>8

LEMMA RekeyedInv ==
    ASSUME NEW b, SoundBook(b), NEW i \in Ids, b.asset[i].life = "live",
           NEW mac \in Macs \cup {None}
    PROVE  LET r == Rekeyed(b, i, mac)
           IN  /\ Followed(b, r[1]) /\ r[2] \in Ids /\ r[1].asset[r[2]].life = "live"
               /\ ClearBook(b) /\ mac # None /\ b.asset[i].mac \in {None, mac} =>
                     \/ ClearBook(r[1]) /\ r[1].asset[r[2]].mac = mac
                     \/ /\ r[2] = i /\ r[1].alias = b.alias
                        /\ \A j \in Ids : j # i => r[1].asset[j] = b.asset[j]
                        /\ r[1].asset[i].mac = b.asset[i].mac
                        /\ r[1].asset[i].key \in {b.asset[i].key, mac}
               /\ mac = None => r[1] = b
<1>1. CASE mac = None \/ b.asset[i].key \notin Ips
  BY <1>1, FollowsItself DEF Rekeyed
<1>2. CASE mac # None /\ b.asset[i].key \in Ips /\ KeyHolder(b, mac) = Nobody
  <2> DEFINE d == [b.asset[i] EXCEPT !.key = mac]
  <2>1. b.asset \in [Ids -> Devices] /\ b.asset[i] \in Devices
    BY DEF SoundBook, Books
  <2>2. d \in Devices /\ d.life = "live" /\ d.key = mac /\ d.mac = b.asset[i].mac
    BY <1>2, <2>1 DEF Devices, Aliases
  <2>3. Rekeyed(b, i, mac) = <<[b EXCEPT !.asset[i].key = mac], i>>
    BY <1>2 DEF Rekeyed
  <2>4. [b EXCEPT !.asset[i].key = mac] = Put(b, i, d)
    BY <2>1 DEF Put, SoundBook, Books
  <2> HIDE DEF d
  <2>5. Followed(b, Put(b, i, d))
    BY <2>2, PutInv, LivesInOrder
  <2>6. QED
    BY <1>2, <2>2, <2>3, <2>4, <2>5, PutFields DEF SoundBook
<1>3. CASE mac # None /\ b.asset[i].key \in Ips /\ KeyHolder(b, mac) # Nobody
  <2> DEFINE other == KeyHolder(b, mac)
  <2>1. other \in Ids /\ b.asset[other].life = "live" /\ b.asset[other].key = mac /\ mac \in Macs
    BY <1>3, HolderIsKeyed
  <2>2. other # i
    BY <1>3, <2>1, AliasesAssumption
  <2>3. Rekeyed(b, i, mac) = <<Merged(b, other, i), Survivor(b, other, i)>>
    BY <1>3 DEF Rekeyed
  <2>4. ClearBook(b) => b.asset[other].mac = mac
    BY <2>1 DEF ClearBook, Clear
  <2> HIDE DEF other
  <2>5. /\ Followed(b, Merged(b, other, i))
        /\ ClearBook(b) => ClearBook(Merged(b, other, i))
        /\ Survivor(b, other, i) \in Ids
        /\ Merged(b, other, i).asset[Survivor(b, other, i)].life = "live"
        /\ \A m \in Macs : b.asset[other].mac = m /\ b.asset[i].mac \in {None, m}
              => Merged(b, other, i).asset[Survivor(b, other, i)].mac = m
    BY <2>1, <2>2, MergedInv
  <2>6. QED
    BY <1>3, <2>1, <2>3, <2>4, <2>5
<1>4. QED
  BY <1>1, <1>2, <1>3

LEMMA PromotedInv ==
    ASSUME NEW b, SoundBook(b), NEW i \in Ids, b.asset[i].life = "live",
           NEW mac \in Macs \cup {None}
    PROVE  LET p == Promoted(b, i, mac)
           IN  /\ Followed(b, p) /\ p.alias = b.alias
               /\ \A j \in Ids : j # i => p.asset[j] = b.asset[j]
               /\ p.asset[i].life = "live" /\ p.asset[i].key = b.asset[i].key
               /\ p.asset[i].mac = IF b.promote /\ mac # None THEN mac ELSE b.asset[i].mac
<1>1. CASE ~b.promote
  BY <1>1, FollowsItself DEF Promoted
<1>2. CASE b.promote
  <2> DEFINE own == IF mac = None THEN b.asset[i].mac ELSE mac
             d == [b.asset[i] EXCEPT !.mac = own, !.status = "current"]
  <2>1. b.asset \in [Ids -> Devices] /\ b.asset[i] \in Devices /\ own \in Macs \cup {None}
    BY DEF SoundBook, Books, Devices
  <2>2. d \in Devices /\ d.life = "live" /\ d.key = b.asset[i].key /\ d.mac = own
    BY <2>1 DEF Devices
  <2>3. Promoted(b, i, mac) = Put(b, i, d)
    BY <1>2, <2>1 DEF Promoted, Put, SoundBook, Books
  <2>4. own = IF b.promote /\ mac # None THEN mac ELSE b.asset[i].mac
    BY <1>2
  <2> HIDE DEF d, own
  <2>5. Followed(b, Put(b, i, d))
    BY <2>2, PutInv, LivesInOrder
  <2>6. QED
    BY <2>2, <2>3, <2>4, <2>5, PutFields DEF SoundBook
<1>3. QED
  BY <1>1, <1>2

LEMMA CreatedInv ==
    ASSUME NEW b, SoundBook(b), NEW h \in Host, NextId(b) \in Ids
    PROVE  LET x == Created(b, h)
           IN  /\ Followed(b, x[1]) /\ x[2] \in Ids /\ x[1].asset[x[2]].life = "live"
               /\ ClearBook(b) => ClearBook(x[1])
               /\ x[1].asset[x[2]].mac = h.mac
<1> DEFINE i == NextId(b)
           d == [life |-> "live", key |-> IF h.mac = None THEN h.ip ELSE h.mac,
                 mac |-> h.mac, status |-> IF b.promote THEN "current" ELSE "stale"]
<1>1. /\ b.asset[i].life = "unborn"
      /\ \A j \in Ids : j < i => b.asset[j].life # "unborn"
  BY NextIdIsFree
<1>2. d \in Devices /\ d.life = "live" /\ d.mac = h.mac /\ (d.key \in Macs => d.key = h.mac)
  BY HostAliases DEF Devices, Aliases
<1>3. Created(b, h) = <<Put(b, i, d), i>>
  BY DEF Created, Put, SoundBook, Books
<1> HIDE DEF i, d
<1>4. i \in Ids
  BY DEF i
<1>5. Followed(b, Put(b, i, d))
  BY <1>1, <1>2, <1>4, PutInv
<1>6. /\ Put(b, i, d).alias = b.alias /\ Put(b, i, d).asset[i] = d
      /\ \A j \in Ids : j # i => Put(b, i, d).asset[j] = b.asset[j]
  BY <1>2, <1>4, PutFields DEF SoundBook
<1>7. ASSUME ClearBook(b) PROVE ClearBook(Put(b, i, d))
  <2>1. \A m \in Macs : b.alias[m].owner # i
    BY <1>1, <1>4, IdsAreNumbers DEF SoundBook, Sound, Aliases
  <2>2. \A m \in Macs : b.alias[m].owner # Nobody => b.alias[m].owner \in Ids
    BY DEF SoundBook, Books, Claims, Aliases
  <2>3. QED
    BY <1>2, <1>4, <1>6, <1>7, <2>1, <2>2 DEF ClearBook, Clear
<1>8. QED
  BY <1>2, <1>3, <1>4, <1>5, <1>6, <1>7

(* A host finds its asset or brings a new one; unless it brings an old one *)
(* its first hardware address without promoting it, the asset has the      *)
(* host's then.                                                            *)
LEMMA IdentifiedInv ==
    ASSUME NEW b, SoundBook(b), NEW h \in Host, Room(b, h)
    PROVE  LET x == Identified(b, h)
           IN  /\ Followed(b, x[1]) /\ x[2] \in Ids /\ x[1].asset[x[2]].life = "live"
               /\ ClearBook(b) /\ ~Blurs(b, h) =>
                     ClearBook(x[1]) /\ (h.mac # None => x[1].asset[x[2]].mac = h.mac)
<1> DEFINE s == Selected(b, h)
           r == Rekeyed(s[1], s[2], h.mac)
           p == Promoted(r[1], r[2], h.mac)
<1>1. /\ Followed(b, s[1])
      /\ ClearBook(b) => ClearBook(s[1])
      /\ s[2] = Nobody => s[1] = b
      /\ s[2] # Nobody =>
            /\ s[2] \in Ids /\ s[1].asset[s[2]].life = "live"
            /\ ClearBook(b) /\ h.mac # None => s[1].asset[s[2]].mac \in {None, h.mac}
  BY SelectedInv
<1>2. CASE s[2] = Nobody
  <2>1. Identified(b, h) = Created(b, h)
    BY <1>2 DEF Identified
  <2>2. NextId(b) \in Ids
    BY <1>2 DEF Room
  <2>3. QED
    BY <2>1, <2>2, CreatedInv
<1>3. CASE s[2] # Nobody
  <2> DEFINE c == s[1]
             i == s[2]
             mac == h.mac
  <2>1. Identified(b, h) = <<p, r[2]>>
    BY <1>3 DEF Identified
  <2>2. SoundBook(c) /\ i \in Ids /\ c.asset[i].life = "live" /\ mac \in Macs \cup {None}
    BY <1>1, <1>3, HostAliases DEF Followed
  <2>3. c.promote = b.promote
    BY <1>1 DEF Followed
  <2>4. ClearBook(b) => /\ ClearBook(c)
                        /\ mac # None => c.asset[i].mac \in {None, mac}
    BY <1>1, <1>3
  <2>5. ~Blurs(b, h) /\ mac # None => b.promote \/ c.asset[i].mac # None
    BY <1>3 DEF Blurs
  <2>6. /\ Followed(c, r[1]) /\ r[2] \in Ids /\ r[1].asset[r[2]].life = "live"
        /\ ClearBook(c) /\ mac # None /\ c.asset[i].mac \in {None, mac} =>
              \/ ClearBook(r[1]) /\ r[1].asset[r[2]].mac = mac
              \/ /\ r[2] = i /\ r[1].alias = c.alias
                 /\ \A j \in Ids : j # i => r[1].asset[j] = c.asset[j]
                 /\ r[1].asset[i].mac = c.asset[i].mac
                 /\ r[1].asset[i].key \in {c.asset[i].key, mac}
        /\ mac = None => r[1] = c
    <3> HIDE DEF c, i, mac
    <3>1. QED
      BY <2>2, RekeyedInv DEF c, i, mac
  <2>7. SoundBook(r[1]) /\ r[1].promote = b.promote
    BY <2>3, <2>6 DEF Followed
  <2> DEFINE q == r[1]
             j == r[2]
  <2>8. /\ Followed(q, p) /\ p.alias = q.alias
        /\ \A k \in Ids : k # j => p.asset[k] = q.asset[k]
        /\ p.asset[j].life = "live" /\ p.asset[j].key = q.asset[j].key
        /\ p.asset[j].mac = IF q.promote /\ mac # None THEN mac ELSE q.asset[j].mac
    <3>1. SoundBook(q) /\ j \in Ids /\ q.asset[j].life = "live" /\ p = Promoted(q, j, mac)
      BY <2>6, <2>7
    <3> HIDE DEF q, j, p, mac
    <3>2. QED
      BY <2>2, <3>1, PromotedInv
  <2>9. Followed(b, p)
    <3>1. SoundBook(b) /\ Followed(b, c) /\ Followed(c, q) /\ Followed(q, p)
      BY <1>1, <2>6, <2>8
    <3> HIDE DEF c, q, p
    <3>2. Followed(b, q)
      BY <3>1, FollowedIsTransitive
    <3>3. QED
      BY <3>1, <3>2, FollowedIsTransitive
  <2>10. j \in Ids /\ q.asset[j].life = "live"
    BY <2>6
  <2>11. /\ c.asset \in [Ids -> Devices] /\ q.asset \in [Ids -> Devices]
         /\ q.alias \in [Aliases -> Claims] /\ c.alias \in [Aliases -> Claims]
         /\ q.promote \in BOOLEAN
    BY <2>2, <2>7 DEF SoundBook, Books
  <2>12. Identified(b, h)[1] = p /\ Identified(b, h)[2] = j
    BY <2>1
  <2>13. q.promote = b.promote
    BY <2>7
  <2> HIDE DEF c, i, q, j, p, mac
  <2>14. ASSUME ClearBook(b), ~Blurs(b, h), mac # None
         PROVE  ClearBook(p) /\ p.asset[j].mac = mac
    <3>1. ClearBook(c) /\ c.asset[i].mac \in {None, mac} /\ mac \in Macs
      BY <2>2, <2>4, <2>14
    <3>2. q.promote \/ c.asset[i].mac = mac
      BY <2>5, <2>13, <2>14, <3>1
    <3>3. CASE ClearBook(q) /\ q.asset[j].mac = mac
      <4>1. p.asset[j].mac = mac
        BY <2>8, <3>3
      <4>2. \A k \in Ids : /\ p.asset[k].mac = q.asset[k].mac
                           /\ p.asset[k].key = q.asset[k].key
                           /\ p.asset[k].life = q.asset[k].life
        BY <2>8, <2>10, <3>3, <4>1
      <4>3. \A m \in Macs : q.alias[m].owner \in Ids \cup {Nobody}
        BY <2>11 DEF Claims, Aliases
      <4>4. QED
        BY <2>8, <3>3, <4>1, <4>2, <4>3 DEF ClearBook, Clear
    <3>4. CASE /\ j = i /\ q.alias = c.alias
               /\ \A k \in Ids : k # i => q.asset[k] = c.asset[k]
               /\ q.asset[i].mac = c.asset[i].mac
               /\ q.asset[i].key \in {c.asset[i].key, mac}
      <4>1. p.asset[i].mac = mac
        BY <2>8, <2>14, <3>2, <3>4
      <4>2. /\ p.alias = c.alias
            /\ \A k \in Ids : k # i => p.asset[k] = c.asset[k]
            /\ p.asset[i].key \in {c.asset[i].key, mac}
        BY <2>8, <3>4
      <4>3. \A m \in Macs : c.alias[m].owner \in Ids \cup {Nobody}
        BY <2>11 DEF Claims, Aliases
      <4>4. \A m \in Macs : c.alias[m].owner = i => m = mac
        <5> SUFFICES ASSUME NEW m \in Macs, c.alias[m].owner = i PROVE m = mac
          OBVIOUS
        <5>1. c.asset[i].mac = m /\ m # None
          BY <2>2, <3>1, IdsAreNumbers, AliasesAssumption DEF ClearBook, Clear
        <5>2. QED
          BY <3>1, <5>1
      <4>5. \A m \in Macs : p.alias[m].owner # Nobody => p.asset[p.alias[m].owner].mac = m
        BY <3>1, <4>1, <4>2, <4>3, <4>4 DEF ClearBook, Clear
      <4>6. \A k \in Ids : p.asset[k].life = "live" /\ p.asset[k].key \in Macs
                              => p.asset[k].mac = p.asset[k].key
        <5> SUFFICES ASSUME NEW k \in Ids, p.asset[k].life = "live", p.asset[k].key \in Macs
                     PROVE  p.asset[k].mac = p.asset[k].key
          OBVIOUS
        <5>1. CASE k # i
          BY <3>1, <4>2, <5>1 DEF ClearBook, Clear
        <5>2. CASE k = i
          <6>1. c.asset[i].key \in Macs => c.asset[i].mac = c.asset[i].key /\ c.asset[i].key # None
            BY <2>2, <3>1, AliasesAssumption DEF ClearBook, Clear
          <6>2. QED
            BY <3>1, <4>1, <4>2, <5>2, <6>1
        <5>3. QED
          BY <5>1, <5>2
      <4>7. QED
        BY <3>4, <4>1, <4>5, <4>6 DEF ClearBook, Clear
    <3>5. QED
      BY <2>6, <2>14, <3>1, <3>3, <3>4 DEF q, j
  <2>15. ASSUME ClearBook(b), mac = None PROVE ClearBook(p)
    <3>1. ClearBook(q)
      BY <2>4, <2>6, <2>15 DEF q
    <3>2. \A k \in Ids : /\ p.asset[k].mac = q.asset[k].mac
                         /\ p.asset[k].key = q.asset[k].key
                         /\ p.asset[k].life = q.asset[k].life
      BY <2>8, <2>10, <2>15
    <3>3. \A m \in Macs : q.alias[m].owner \in Ids \cup {Nobody}
      BY <2>11 DEF Claims, Aliases
    <3>4. QED
      BY <2>8, <3>1, <3>2, <3>3 DEF ClearBook, Clear
  <2>16. p.asset[j].life = "live"
    BY <2>8
  <2>17. QED
    BY <2>9, <2>10, <2>12, <2>14, <2>15, <2>16 DEF mac
<1>4. QED
  BY <1>2, <1>3

LEMMA SightedInv ==
    ASSUME NEW b, SoundBook(b), NEW m, Followed(b, m), NEW j \in Ids, m.asset[j].life = "live",
           NEW a \in Aliases,
           \/ b.alias[a].owner = Nobody
           \/ b.at > b.alias[a].seen
           \/ b.at >= b.alias[a].seen /\ b.alias[a].owner = j
    PROVE  LET c == [m EXCEPT !.alias[a] = [owner |-> j, seen |-> b.at]]
           IN  /\ Followed(b, c) /\ c.asset = m.asset
               /\ ClearBook(m) /\ (a \in Macs => m.asset[j].mac = a) => ClearBook(c)
<1> DEFINE al == [m.alias EXCEPT ![a] = [owner |-> j, seen |-> b.at]]
           c == [m EXCEPT !.alias[a] = [owner |-> j, seen |-> b.at]]
<1>1. /\ m.alias \in [Aliases -> Claims] /\ b.alias \in [Aliases -> Claims] /\ b.at \in Int
      /\ m \in Books
  BY BoundsAssumption DEF Followed, SoundBook, Books, Time
<1>2. /\ al \in [Aliases -> Claims] /\ al[a].owner = j /\ al[a].seen = b.at
      /\ \A x \in Aliases : x # a => al[x] = m.alias[x]
  BY <1>1 DEF Claims
<1>3. c = [m EXCEPT !.alias = al]
  BY <1>1
<1> HIDE DEF al
<1>4. /\ c \in Books /\ c.asset = m.asset /\ c.alias = al /\ c.promote = m.promote /\ c.at = m.at
  BY <1>1, <1>2, <1>3 DEF Books
<1> HIDE DEF c
<1>5. Sound(c.asset, c.alias)
  BY <1>2, <1>4 DEF Followed, SoundBook, Sound
<1>6. Moved(b.asset, b.alias, c.asset, c.alias)
  <2>1. ASSUME NEW x \in Aliases, b.alias[x].owner # Nobody
        PROVE  /\ c.alias[x].owner # Nobody
               /\ c.alias[x].seen >= b.alias[x].seen
               /\ \/ c.alias[x].owner = b.alias[x].owner
                  \/ c.alias[x].seen > b.alias[x].seen
                  \/ c.asset[b.alias[x].owner].life = "merged"
    <3>1. CASE x = a
      <4>1. c.alias[x].owner = j /\ c.alias[x].seen = b.at /\ j # Nobody
        BY <1>2, <1>4, <3>1, IdsAreNumbers
      <4>2. b.alias[x].seen \in Int
        BY <1>1 DEF Claims
      <4>3. b.at >= b.alias[x].seen /\ (b.at > b.alias[x].seen \/ b.alias[x].owner = j)
        BY <1>1, <2>1, <3>1, <4>2
      <4>4. QED
        BY <4>1, <4>3
    <3>2. CASE x # a
      <4>1. c.alias[x] = m.alias[x] /\ c.asset = m.asset
        BY <1>2, <1>4, <3>2
      <4>2. QED
        BY <2>1, <4>1 DEF Followed, Moved
    <3>3. QED
      BY <3>1, <3>2
  <2>2. QED
    BY <1>4, <2>1 DEF Followed, Moved
<1>7. ASSUME ClearBook(m), a \in Macs => m.asset[j].mac = a PROVE ClearBook(c)
  BY <1>2, <1>4, <1>7 DEF ClearBook, Clear, Aliases
<1>8. QED
  BY <1>4, <1>5, <1>6, <1>7 DEF Followed, SoundBook, c

(* An alias that an asset is seen under becomes its own, or stays.         *)
LEMMA ClaimedInv ==
    ASSUME NEW b, SoundBook(b), NEW i \in Ids, NEW a \in Aliases \cup {None}
    PROVE  /\ Followed(b, Claimed(b, i, a)) /\ Kept(b, Claimed(b, i, a))
           /\ ClearBook(b) /\ (a \in Macs => b.asset[i].mac = a) => ClearBook(Claimed(b, i, a))
<1>0. Followed(b, b) /\ Kept(b, b)
  BY FollowsItself DEF Kept
<1>1. CASE a = None \/ b.asset[i].life # "live"
  BY <1>0, <1>1 DEF Claimed, Live
<1>2. CASE a # None /\ b.asset[i].life = "live"
  <2> DEFINE former == b.alias[a].owner
             sighted == [owner |-> i, seen |-> b.at]
             mine == [b EXCEPT !.alias[a] = sighted]
  <2>1. /\ a \in Aliases /\ i # Nobody /\ b.at \in Int /\ b.alias[a].seen \in Int
        /\ former \in Ids \cup {Nobody} /\ (former # Nobody => b.asset[former].life = "live")
        /\ \A m \in Macs : m # None
    BY <1>2, IdsAreNumbers, AliasesAssumption, BoundsAssumption
       DEF SoundBook, Sound, Books, Claims, Time
  <2>2. Claimed(b, i, a) =
            IF former = Nobody THEN mine
            ELSE IF b.at < b.alias[a].seen \/ (b.at = b.alias[a].seen /\ former # i) THEN b
            ELSE IF former = i \/ (a \notin Macs /\ DistinctMacs(b, i, former)) THEN mine
            ELSE [Merged(b, i, former) EXCEPT
                    !.alias[a] = [sighted EXCEPT !.owner = Survivor(b, i, former)]]
    BY <1>2, <2>1 DEF Claimed, Live
  <2>3. CASE former = Nobody
    <3>1. Claimed(b, i, a) = mine
      BY <2>2, <2>3
    <3> HIDE DEF mine
    <3>2. /\ Followed(b, mine) /\ mine.asset = b.asset
          /\ ClearBook(b) /\ (a \in Macs => b.asset[i].mac = a) => ClearBook(mine)
      BY <1>0, <1>2, <2>1, <2>3, SightedInv DEF mine
    <3>3. QED
      BY <3>1, <3>2 DEF Kept
  <2>4. CASE former # Nobody /\ (b.at < b.alias[a].seen \/ (b.at = b.alias[a].seen /\ former # i))
    <3>1. Claimed(b, i, a) = b
      BY <2>2, <2>4
    <3>2. QED
      BY <1>0, <3>1
  <2>5. CASE /\ former # Nobody
             /\ ~(b.at < b.alias[a].seen \/ (b.at = b.alias[a].seen /\ former # i))
    <3>1. b.at > b.alias[a].seen \/ (b.at >= b.alias[a].seen /\ former = i)
      BY <2>1, <2>5
    <3>2. CASE former = i \/ (a \notin Macs /\ DistinctMacs(b, i, former))
      <4>1. Claimed(b, i, a) = mine
        BY <2>2, <2>5, <3>2
      <4> HIDE DEF mine
      <4>2. /\ Followed(b, mine) /\ mine.asset = b.asset
            /\ ClearBook(b) /\ (a \in Macs => b.asset[i].mac = a) => ClearBook(mine)
        BY <1>0, <1>2, <2>1, <3>1, SightedInv DEF mine
      <4>3. QED
        BY <4>1, <4>2 DEF Kept
    <3>3. CASE ~(former = i \/ (a \notin Macs /\ DistinctMacs(b, i, former)))
      <4> DEFINE m == Merged(b, i, former)
                 s == Survivor(b, i, former)
                 c == [m EXCEPT !.alias[a] = [owner |-> s, seen |-> b.at]]
      <4>1. Claimed(b, i, a) = c
        BY <2>2, <2>5, <3>3
      <4>2. b.at > b.alias[a].seen
        BY <3>1, <3>3
      <4>3. former \in Ids /\ former # i /\ b.asset[former].life = "live"
        BY <2>1, <2>5, <3>3
      <4> HIDE DEF former
      <4>4. /\ Followed(b, m) /\ Kept(b, m) /\ (ClearBook(b) => ClearBook(m))
            /\ s \in Ids /\ m.asset[s].life = "live"
            /\ \A x \in Macs : b.asset[i].mac = x /\ b.asset[former].mac \in {None, x}
                  => m.asset[s].mac = x
        BY <1>2, <4>3, MergedInv
      <4> HIDE DEF m, s, c
      <4>5. /\ Followed(b, c) /\ c.asset = m.asset
            /\ ClearBook(m) /\ (a \in Macs => m.asset[s].mac = a) => ClearBook(c)
        BY <2>1, <4>2, <4>4, SightedInv DEF c
      <4>6. ClearBook(b) /\ a \in Macs => b.asset[former].mac = a
        BY <4>3, IdsAreNumbers DEF ClearBook, Clear, former
      <4>7. Kept(b, c)
        BY <4>4, <4>5 DEF Kept
      <4>8. QED
        BY <4>1, <4>4, <4>5, <4>6, <4>7
    <3>4. QED
      BY <3>2, <3>3
  <2>6. QED
    BY <2>3, <2>4, <2>5
<1>3. QED
  BY <1>1, <1>2

(* One host leaves the book sound.                                         *)
LEMMA ObservedInv ==
    ASSUME NEW b, SoundBook(b), NEW h \in Host, Room(b, h)
    PROVE  /\ Followed(b, Observed(b, h))
           /\ ClearBook(b) /\ ~Blurs(b, h) => ClearBook(Observed(b, h))
<1> DEFINE x == Identified(b, h)
           i == x[2]
           c0 == x[1]
           c1 == Claimed(c0, i, h.ip)
           c2 == Claimed(c1, i, h.mac)
           c3 == Claimed(c2, i, h.name)
           seen == [c3 EXCEPT !.hosts[h.ip] = i]
           refused == [b EXCEPT !.broken = TRUE]
<1>1. /\ Followed(b, c0) /\ i \in Ids
      /\ ClearBook(b) /\ ~Blurs(b, h) =>
            ClearBook(c0) /\ (h.mac # None => c0.asset[i].mac = h.mac)
  BY IdentifiedInv
<1>2. Observed(b, h) \in {b, refused, Served(seen, i)}
  BY DEF Observed
<1> HIDE DEF x, i, c0, c1, c2, c3
<1>3. SoundBook(c0) /\ Followed(b, c0)
  BY <1>1 DEF Followed
<1>4. /\ Followed(c0, c1) /\ Kept(c0, c1) /\ SoundBook(c1)
      /\ ClearBook(c0) => ClearBook(c1)
  BY <1>1, <1>3, HostAliases, ClaimedInv DEF c1, Followed
<1>5. /\ Followed(c1, c2) /\ Kept(c1, c2) /\ SoundBook(c2)
      /\ ClearBook(c1) /\ (h.mac # None => c1.asset[i].mac = h.mac) => ClearBook(c2)
  BY <1>1, <1>4, HostAliases, AliasesAssumption, ClaimedInv DEF c2, Followed
<1>6. /\ Followed(c2, c3) /\ SoundBook(c3)
      /\ ClearBook(c2) => ClearBook(c3)
  BY <1>1, <1>5, HostAliases, ClaimedInv DEF c3, Followed
<1>7. Followed(b, c3)
  BY <1>3, <1>4, <1>5, <1>6, FollowedIsTransitive
<1>8. ClearBook(b) /\ ~Blurs(b, h) => ClearBook(c3)
  BY <1>1, <1>4, <1>5, <1>6 DEF Kept
<1>9. /\ Served(seen, i) \in Books
      /\ Served(seen, i).asset = c3.asset /\ Served(seen, i).alias = c3.alias
      /\ Served(seen, i).promote = c3.promote /\ Served(seen, i).at = c3.at
  <2>1. h.ip \in Ips /\ c3 \in Books
    BY <1>6, HostAliases DEF SoundBook
  <2>2. /\ seen \in Books /\ seen.asset = c3.asset /\ seen.alias = c3.alias
        /\ seen.promote = c3.promote /\ seen.at = c3.at
    <3> DEFINE hs == [c3.hosts EXCEPT ![h.ip] = i]
    <3>1. hs \in [Ips -> Ids \cup {Nobody}] /\ seen = [c3 EXCEPT !.hosts = hs]
      BY <1>1, <2>1 DEF Books
    <3> HIDE DEF hs
    <3>2. QED
      BY <2>1, <3>1 DEF Books
  <2> HIDE DEF seen
  <2>3. CASE ~seen.listening
    BY <2>2, <2>3 DEF Served
  <2>4. CASE seen.listening /\ i \in seen.serving
    BY <2>2, <2>4 DEF Served, Books
  <2>5. CASE seen.listening /\ i \notin seen.serving
    <3> DEFINE srv == seen.serving \cup {i}
    <3>1. srv \in SUBSET Ids /\ Served(seen, i) = [seen EXCEPT !.serving = srv]
      BY <1>1, <2>2, <2>5 DEF Served, Books
    <3> HIDE DEF srv
    <3>2. QED
      BY <2>2, <3>1 DEF Books
  <2>6. QED
    BY <2>3, <2>4, <2>5
<1> HIDE DEF seen
<1>10. Followed(b, Served(seen, i)) /\ (ClearBook(c3) => ClearBook(Served(seen, i)))
  BY <1>7, <1>9 DEF Followed, SoundBook, ClearBook
<1>11. /\ refused \in Books /\ refused.asset = b.asset /\ refused.alias = b.alias
       /\ refused.promote = b.promote /\ refused.at = b.at
  BY DEF SoundBook, Books
<1> HIDE DEF refused
<1>12. Followed(b, refused) /\ (ClearBook(b) => ClearBook(refused))
  BY <1>11, FollowsItself DEF Followed, SoundBook, ClearBook
<1>13. QED
  BY <1>2, <1>8, <1>10, <1>12, FollowsItself

IdentityInv ==
    /\ asset \in [Ids -> Devices] /\ alias \in [Aliases -> Claims]
    /\ inventory \in [Ips -> Ids \cup {Nobody}] /\ generation \in Int
    /\ Sound(asset, alias)
    /\ ~blurred => Clear(asset, alias)
    /\ open =>
          /\ SoundBook(book)
          /\ Moved(asset, alias, book.asset, book.alias)
          /\ ~blurred => ClearBook(book)

LEMMA IdentityInitInv == Init => IdentityInv
<1> SUFFICES ASSUME Init PROVE IdentityInv
  OBVIOUS
<1>1. Unborn \in Devices /\ Unclaimed \in Claims
  BY DEF Unborn, Devices, Unclaimed, Claims, Never
<1>2. /\ asset \in [Ids -> Devices] /\ alias \in [Aliases -> Claims]
      /\ inventory \in [Ips -> Ids \cup {Nobody}] /\ generation \in Int
  BY <1>1 DEF Init, Never
<1>3. /\ \A i \in Ids : asset[i].life = "unborn"
      /\ \A a \in Aliases : alias[a].owner = Nobody
  BY DEF Init, Unborn, Unclaimed
<1>4. Sound(asset, alias) /\ Clear(asset, alias)
  BY <1>3 DEF Sound, Clear, Aliases
<1>5. QED
  BY <1>2, <1>4 DEF Init, IdentityInv

LEMMA MovesNothing ==
    ASSUME IdentityInv
    PROVE  Moved(asset, alias, asset, alias)
<1>1. \A a \in Aliases : alias[a].seen \in Int
  BY DEF IdentityInv, Claims
<1>2. \A a \in Aliases : alias[a].seen >= alias[a].seen
  BY <1>1
<1>3. QED
  BY <1>2 DEF Moved

(* What is said of assets and aliases does not depend on their status.     *)
LEMMA StatusIsApart ==
    ASSUME NEW s, NEW as, NEW l, NEW al \in [Aliases -> Claims], NEW bs,
           \A i \in Ids : /\ bs[i].life = as[i].life /\ bs[i].mac = as[i].mac
                          /\ bs[i].key = as[i].key,
           \A a \in Aliases : l[a].owner \in Ids \cup {Nobody}
    PROVE  /\ Sound(as, al) => Sound(bs, al)
           /\ Clear(as, al) => Clear(bs, al)
           /\ Moved(s, l, as, al) => Moved(s, l, bs, al)
<1>1. \A a \in Aliases : al[a].owner \in Ids \cup {Nobody}
  BY DEF Claims
<1>2. Sound(as, al) => Sound(bs, al)
  BY <1>1 DEF Sound
<1>3. Clear(as, al) => Clear(bs, al)
  BY <1>1 DEF Clear, Aliases
<1>4. Moved(s, l, as, al) => Moved(s, l, bs, al)
  BY <1>1 DEF Moved
<1>5. QED
  BY <1>2, <1>3, <1>4

(* A step keeps the invariant, and only a commit moves anything.           *)
LEMMA IdentityStep ==
    ASSUME IdentityInv, [Next]_vars
    PROVE  IdentityInv' /\ Moved(asset, alias, asset', alias')
<1>0. Moved(asset, alias, asset, alias)
  BY MovesNothing
<1>1. ASSUME NEW seen \in Time, NEW complete \in BOOLEAN, NEW listening1 \in Listening,
             Begin(seen, complete, listening1)
      PROVE  IdentityInv'
  <2> DEFINE b == [asset |-> asset, alias |-> alias, inventory |-> inventory,
                   hosts |-> [i \in Ips |-> Nobody], serving |-> {}, at |-> seen,
                   promote |-> complete /\ seen > generation, listening |-> listening1,
                   broken |-> FALSE]
  <2>1. /\ book' = b /\ open' = TRUE
        /\ UNCHANGED <<asset, alias, inventory, generation, blurred>>
    BY <1>1 DEF Begin
  <2>2. b \in Books /\ b.asset = asset /\ b.alias = alias
    <3>1. (complete /\ seen > generation) \in BOOLEAN
      OBVIOUS
    <3>2. [i \in Ips |-> Nobody] \in [Ips -> Ids \cup {Nobody}]
      OBVIOUS
    <3>3. QED
      BY <3>1, <3>2 DEF IdentityInv, Books
  <2> HIDE DEF b
  <2>3. SoundBook(b) /\ (~blurred => ClearBook(b)) /\ Moved(asset, alias, b.asset, b.alias)
    BY <1>0, <2>2 DEF IdentityInv, SoundBook, ClearBook
  <2>4. QED
    BY <2>1, <2>3 DEF IdentityInv
<1>2. ASSUME NEW h \in Host, IngestHost(h)
      PROVE  IdentityInv'
  <2>1. /\ open /\ Room(book, h) /\ book' = Observed(book, h)
        /\ blurred' = (blurred \/ Blurs(book, h))
        /\ UNCHANGED <<asset, alias, inventory, generation, open>>
    BY <1>2 DEF IngestHost
  <2>2. /\ SoundBook(book) /\ Moved(asset, alias, book.asset, book.alias)
        /\ ~blurred => ClearBook(book)
    BY <2>1 DEF IdentityInv
  <2>3. /\ Followed(book, Observed(book, h))
        /\ ClearBook(book) /\ ~Blurs(book, h) => ClearBook(Observed(book, h))
    BY <2>1, <2>2, ObservedInv
  <2>4. Moved(asset, alias, Observed(book, h).asset, Observed(book, h).alias)
    <3> DEFINE stored == [book EXCEPT !.asset = asset, !.alias = alias]
    <3>1. /\ stored \in Books /\ stored.asset = asset /\ stored.alias = alias
          /\ stored.promote = book.promote /\ stored.at = book.at
      BY <2>2 DEF IdentityInv, SoundBook, Books
    <3> HIDE DEF stored
    <3>2. SoundBook(stored) /\ Followed(stored, book)
      BY <2>2, <3>1 DEF IdentityInv, SoundBook, Followed
    <3>3. Followed(stored, Observed(book, h))
      BY <2>3, <3>2, FollowedIsTransitive
    <3>4. QED
      BY <3>1, <3>3 DEF Followed
  <2>5. ~blurred' => ClearBook(book')
    BY <2>1, <2>2, <2>3
  <2>6. SoundBook(book') /\ Moved(asset, alias, book'.asset, book'.alias)
    BY <2>1, <2>3, <2>4 DEF Followed
  <2>7. ~blurred' => Clear(asset, alias)
    BY <2>1 DEF IdentityInv
  <2>8. QED
    BY <2>1, <2>5, <2>6, <2>7 DEF IdentityInv
<1>3. ASSUME Fail PROVE IdentityInv'
  BY <1>3 DEF Fail, IdentityInv
<1>4. ASSUME NEW absent \in {"unobserved", "stale"}, Commit(absent)
      PROVE  IdentityInv' /\ Moved(asset, alias, asset', alias')
  <2>1. /\ open /\ SoundBook(book) /\ Moved(asset, alias, book.asset, book.alias)
        /\ ~blurred => ClearBook(book)
    BY <1>4 DEF Commit, IdentityInv
  <2>2. book.asset \in [Ids -> Devices] /\ book.alias \in [Aliases -> Claims]
    BY <2>1 DEF SoundBook, Books
  <2>3. /\ Finalized(book, absent) \in [Ids -> Devices]
        /\ \A i \in Ids : /\ Finalized(book, absent)[i].life = book.asset[i].life
                          /\ Finalized(book, absent)[i].mac = book.asset[i].mac
                          /\ Finalized(book, absent)[i].key = book.asset[i].key
    BY <2>2 DEF Finalized, Devices
  <2>4. /\ asset' = (IF book.promote THEN Finalized(book, absent) ELSE book.asset)
        /\ alias' = book.alias /\ open' = FALSE /\ blurred' = blurred
    BY <1>4 DEF Commit
  <2>5. /\ asset' \in [Ids -> Devices]
        /\ \A i \in Ids : /\ asset'[i].life = book.asset[i].life
                          /\ asset'[i].mac = book.asset[i].mac
                          /\ asset'[i].key = book.asset[i].key
    BY <2>2, <2>3, <2>4
  <2>6. /\ inventory' \in [Ips -> Ids \cup {Nobody}] /\ generation' \in Int
    BY <1>4, <2>1, BoundsAssumption DEF Commit, IdentityInv, SoundBook, Books, Time
  <2>7. \A a \in Aliases : alias[a].owner \in Ids \cup {Nobody}
    BY DEF IdentityInv, Claims
  <2>8. /\ Sound(asset', alias') /\ Moved(asset, alias, asset', alias')
        /\ ~blurred => Clear(asset', alias')
    BY <2>1, <2>2, <2>4, <2>5, <2>7, StatusIsApart DEF SoundBook, ClearBook
  <2>9. QED
    BY <2>2, <2>4, <2>5, <2>6, <2>8 DEF IdentityInv
<1>5. ASSUME NEW i \in Ids, Analyse(i) PROVE IdentityInv'
  BY <1>5 DEF Analyse, IdentityInv
<1>6. CASE UNCHANGED vars
  BY <1>0, <1>6 DEF vars, IdentityInv
<1>7. (asset' = asset /\ alias' = alias) \/ \E absent \in {"unobserved", "stale"} : Commit(absent)
  BY DEF Next, Begin, IngestHost, Fail, Analyse, vars
<1>8. QED
  BY <1>0, <1>1, <1>2, <1>3, <1>4, <1>5, <1>6, <1>7 DEF Next

LEMMA PartsRunTheIdentities == PartsSpec => Spec
<1>1. PartsInit => Init
  BY DEF PartsInit
<1>2. [PartsNext]_partsVars => [Next]_vars
  BY DEF PartsNext, partsVars, identityVars
<1>3. QED
  BY <1>1, <1>2, PTL DEF PartsSpec, Spec

LEMMA IdentityInvHolds == Spec => []IdentityInv
<1>1. IdentityInv /\ [Next]_vars => IdentityInv'
  BY IdentityStep
<1>2. QED
  BY <1>1, IdentityInitInv, PTL DEF Spec

(* Two hardware addresses are never aliases of one asset, whichever scans, *)
(* complete or not, delayed or not, are ingested in whichever order        *)
(* (upsert_asset, _upsert_asset_alias, _merge_assets), until a scan that   *)
(* does not promote brings an asset its first one.                         *)
THEOREM MacsAlwaysStayApart == PartsSpec => []MacsStayApart
<1>1. IdentityInv => MacsStayApart
  <2> SUFFICES ASSUME IdentityInv, ~blurred, NEW m \in Macs, NEW n \in Macs, m # n,
                      alias[m].owner = alias[n].owner, alias[m].owner # Nobody
               PROVE  FALSE
    BY DEF MacsStayApart
  <2>1. asset[alias[m].owner].mac = m /\ asset[alias[n].owner].mac = n
    BY DEF IdentityInv, Clear
  <2>2. QED
    BY <2>1
<1>2. QED
  BY <1>1, PartsRunTheIdentities, IdentityInvHolds, PTL

(* A delayed scan moves no alias of a newer identity (_upsert_asset_alias),*)
(* through all the merges of one ingestion.                                *)
THEOREM OlderNeverMoves == PartsSpec => OlderMovesNothing
<1>1. IdentityInv /\ [Next]_vars =>
          [\A a \in Aliases : alias[a].owner # Nobody /\ alias'[a].owner # alias[a].owner =>
              \/ alias'[a].seen > alias[a].seen
              \/ asset'[alias[a].owner].life = "merged"]_vars
  BY IdentityStep DEF Moved
<1>2. QED
  BY <1>1, PartsRunTheIdentities, IdentityInvHolds, PTL DEF Spec, OlderMovesNothing

-----------------------------------------------------------------------------
(* Attack chains: what follows from facts                                  *)

LEMMA FollowsContains ==
    ASSUME NEW us, NEW facts, NEW H
    PROVE  facts \subseteq Chains!Follows(us, facts, H)
  BY DEF Chains!Follows

LEMMA FollowsClosed ==
    ASSUME NEW us, NEW facts, NEW H
    PROVE  Chains!ClosedUnder(us, H, Chains!Follows(us, facts, H))
<1> DEFINE P == UNION {Chains!Effects(us[i]) : i \in H}
           F == Chains!Follows(us, facts, H)
<1>1. F = {f \in facts \cup P :
              \A made \in SUBSET P :
                  Chains!ClosedUnder(us, H, facts \cup made) => f \in facts \cup made}
  BY DEF Chains!Follows
<1> HIDE DEF P, F
<1>2. SUFFICES ASSUME NEW i \in H, us[i].pre \subseteq F, NEW e \in Chains!Effects(us[i])
               PROVE  e \in F
  BY DEF Chains!ClosedUnder, F
<1>3. e \in P
  BY <1>2 DEF P
<1>4. ASSUME NEW made \in SUBSET P, Chains!ClosedUnder(us, H, facts \cup made)
      PROVE  e \in facts \cup made
  <2>1. us[i].pre \subseteq facts \cup made
    BY <1>1, <1>2, <1>4
  <2>2. QED
    BY <1>2, <1>4, <2>1 DEF Chains!ClosedUnder
<1>5. QED
  BY <1>1, <1>3, <1>4

LEMMA FollowsLeast ==
    ASSUME NEW us, NEW facts, NEW H, NEW K, facts \subseteq K, Chains!ClosedUnder(us, H, K)
    PROVE  Chains!Follows(us, facts, H) \subseteq K
<1> DEFINE P == UNION {Chains!Effects(us[i]) : i \in H}
           M == K \cap P
<1>1. Chains!ClosedUnder(us, H, facts \cup M)
  <2>1. SUFFICES ASSUME NEW i \in H, us[i].pre \subseteq facts \cup M
                 PROVE  Chains!Effects(us[i]) \subseteq facts \cup M
    BY DEF Chains!ClosedUnder
  <2>2. us[i].pre \subseteq K
    BY <2>1
  <2>3. Chains!Effects(us[i]) \subseteq K
    BY <2>2 DEF Chains!ClosedUnder
  <2>4. Chains!Effects(us[i]) \subseteq P
    BY <2>1
  <2>5. QED
    BY <2>3, <2>4
<1>2. M \in SUBSET P
  OBVIOUS
<1>3. \A f \in Chains!Follows(us, facts, H) : f \in facts \cup M
  BY <1>1, <1>2 DEF Chains!Follows
<1>4. QED
  BY <1>3

LEMMA FollowsMonotone ==
    ASSUME NEW us, NEW facts, NEW H, NEW G, H \subseteq G
    PROVE  Chains!Follows(us, facts, H) \subseteq Chains!Follows(us, facts, G)
<1>1. Chains!ClosedUnder(us, H, Chains!Follows(us, facts, G))
  BY FollowsClosed DEF Chains!ClosedUnder
<1>2. QED
  BY <1>1, FollowsContains, FollowsLeast

-----------------------------------------------------------------------------
(* Attack chains: the units                                                *)

(* The unit of a class: it has an effect, and what a class requires ranks  *)
(* below what it brings about.                                             *)
Rank(f) ==
    IF f[1] \in {"network.reachable", "host.vuln_present"} THEN 0
    ELSE IF f[1] \in {"file.delivered", "file.present", "host.state_changed"} THEN 1
    ELSE IF f[1] \in {"user.opened", "process.running"} THEN 2
    ELSE IF f[1] \in {"privilege.code_execution", "data.c2_channel", "defense.disabled"} THEN 3
    ELSE IF f[1] \in {"host.access", "data.exfiltrated"} THEN 5
    ELSE 4

Descends(pre, post) ==
    /\ \E S : post \in Seq(S)
    /\ post # <<>>
    /\ \A f \in pre : \A k \in DOMAIN post : Rank(f) < Rank(post[k])

LEMMA OneEffect ==
    ASSUME NEW pre, NEW x, \A f \in pre : Rank(f) < Rank(x)
    PROVE  Descends(pre, <<x>>)
<1>1. <<x>> \in Seq({x}) /\ <<x>> # <<>>
  OBVIOUS
<1>2. \A k \in DOMAIN <<x>> : <<x>>[k] = x
  OBVIOUS
<1>3. QED
  BY <1>1, <1>2 DEF Descends

LEMMA NoPremise ==
    ASSUME NEW x, NEW y
    PROVE  Descends({}, <<x, y>>)
<1>1. <<x, y>> \in Seq({x, y}) /\ <<x, y>> # <<>>
  OBVIOUS
<1>2. QED
  BY <1>1 DEF Descends

LEMMA Classes ==
    ASSUME NEW o
    PROVE  DOMAIN Chains!Conditions(o) =
              {"delivery", "user_action", "download", "exploitation", "execute", "persistence",
               "privilege_escalation", "defense_evasion", "credential_access", "discovery",
               "lateral_movement", "collection", "communication", "exfiltration", "impact",
               "other"}
  BY DEF Chains!Conditions

LEMMA ConditionsDescend ==
    ASSUME NEW o, NEW c \in DOMAIN Chains!Conditions(o)
    PROVE  Descends(Chains!Conditions(o)[c].pre, Chains!Conditions(o)[c].post)
<1>1. CASE c = "delivery"
  BY <1>1, NoPremise DEF Chains!Conditions
<1>2. CASE c = "user_action"
  <2>1. \A f \in {Chains!Delivered(o)} : Rank(f) < Rank(Chains!Opened(o))
    BY DEF Rank, Chains!Delivered, Chains!Present, Chains!Opened, Chains!Running,
           Chains!Executing, Chains!Channel, Chains!Obtained, Chains!Collected
  <2>2. QED
    BY <1>2, <2>1, OneEffect DEF Chains!Conditions
<1>3. CASE c = "download"
  <2>1. \A f \in {<<"network.reachable", "remote_server">>} : Rank(f) < Rank(Chains!Present(o))
    BY DEF Rank, Chains!Delivered, Chains!Present, Chains!Opened, Chains!Running,
           Chains!Executing, Chains!Channel, Chains!Obtained, Chains!Collected
  <2>2. QED
    BY <1>3, <2>1, OneEffect DEF Chains!Conditions
<1>4. CASE c = "exploitation"
  <2>1. \A f \in {<<"host.vuln_present", o>>} : Rank(f) < Rank(Chains!Executing)
    BY DEF Rank, Chains!Delivered, Chains!Present, Chains!Opened, Chains!Running,
           Chains!Executing, Chains!Channel, Chains!Obtained, Chains!Collected
  <2>2. QED
    BY <1>4, <2>1, OneEffect DEF Chains!Conditions
<1>5. CASE c = "execute"
  <2>1. \A f \in {Chains!Present(o)} : Rank(f) < Rank(Chains!Running(o))
    BY DEF Rank, Chains!Delivered, Chains!Present, Chains!Opened, Chains!Running,
           Chains!Executing, Chains!Channel, Chains!Obtained, Chains!Collected
  <2>2. QED
    BY <1>5, <2>1, OneEffect DEF Chains!Conditions
<1>6. CASE c = "persistence"
  <2>1. \A f \in {Chains!Executing} : Rank(f) < Rank(<<"persistence.established", Generic>>)
    BY DEF Rank, Chains!Delivered, Chains!Present, Chains!Opened, Chains!Running,
           Chains!Executing, Chains!Channel, Chains!Obtained, Chains!Collected
  <2>2. QED
    BY <1>6, <2>1, OneEffect DEF Chains!Conditions
<1>7. CASE c = "privilege_escalation"
  <2>1. \A f \in {Chains!Executing} : Rank(f) < Rank(<<"privilege.level", Generic>>)
    BY DEF Rank, Chains!Delivered, Chains!Present, Chains!Opened, Chains!Running,
           Chains!Executing, Chains!Channel, Chains!Obtained, Chains!Collected
  <2>2. QED
    BY <1>7, <2>1, OneEffect DEF Chains!Conditions
<1>8. CASE c = "defense_evasion"
  <2>1. \A f \in {Chains!Running(Generic)} : Rank(f) < Rank(<<"defense.disabled", Generic>>)
    BY DEF Rank, Chains!Delivered, Chains!Present, Chains!Opened, Chains!Running,
           Chains!Executing, Chains!Channel, Chains!Obtained, Chains!Collected
  <2>2. QED
    BY <1>8, <2>1, OneEffect DEF Chains!Conditions
<1>9. CASE c = "credential_access"
  <2>1. \A f \in {Chains!Executing} : Rank(f) < Rank(Chains!Obtained)
    BY DEF Rank, Chains!Delivered, Chains!Present, Chains!Opened, Chains!Running,
           Chains!Executing, Chains!Channel, Chains!Obtained, Chains!Collected
  <2>2. QED
    BY <1>9, <2>1, OneEffect DEF Chains!Conditions
<1>10. CASE c = "discovery"
  <2>1. \A f \in {Chains!Executing} : Rank(f) < Rank(<<"host.discovered", Generic>>)
    BY DEF Rank, Chains!Delivered, Chains!Present, Chains!Opened, Chains!Running,
           Chains!Executing, Chains!Channel, Chains!Obtained, Chains!Collected
  <2>2. QED
    BY <1>10, <2>1, OneEffect DEF Chains!Conditions
<1>11. CASE c = "lateral_movement"
  <2>1. \A f \in {Chains!Obtained, <<"network.reachable", "lateral_host">>} :
            Rank(f) < Rank(<<"host.access", Generic>>)
    BY DEF Rank, Chains!Delivered, Chains!Present, Chains!Opened, Chains!Running,
           Chains!Executing, Chains!Channel, Chains!Obtained, Chains!Collected
  <2>2. QED
    BY <1>11, <2>1, OneEffect DEF Chains!Conditions
<1>12. CASE c = "collection"
  <2>1. \A f \in {Chains!Executing} : Rank(f) < Rank(Chains!Collected)
    BY DEF Rank, Chains!Delivered, Chains!Present, Chains!Opened, Chains!Running,
           Chains!Executing, Chains!Channel, Chains!Obtained, Chains!Collected
  <2>2. QED
    BY <1>12, <2>1, OneEffect DEF Chains!Conditions
<1>13. CASE c = "communication"
  <2>1. \A f \in {Chains!Running(Generic)} : Rank(f) < Rank(Chains!Channel)
    BY DEF Rank, Chains!Delivered, Chains!Present, Chains!Opened, Chains!Running,
           Chains!Executing, Chains!Channel, Chains!Obtained, Chains!Collected
  <2>2. QED
    BY <1>13, <2>1, OneEffect DEF Chains!Conditions
<1>14. CASE c = "exfiltration"
  <2>1. \A f \in {Chains!Collected, Chains!Channel} :
            Rank(f) < Rank(<<"data.exfiltrated", Generic>>)
    BY DEF Rank, Chains!Delivered, Chains!Present, Chains!Opened, Chains!Running,
           Chains!Executing, Chains!Channel, Chains!Obtained, Chains!Collected
  <2>2. QED
    BY <1>14, <2>1, OneEffect DEF Chains!Conditions
<1>15. CASE c = "impact"
  <2>1. \A f \in {Chains!Executing} : Rank(f) < Rank(<<"host.impacted", Generic>>)
    BY DEF Rank, Chains!Delivered, Chains!Present, Chains!Opened, Chains!Running,
           Chains!Executing, Chains!Channel, Chains!Obtained, Chains!Collected
  <2>2. QED
    BY <1>15, <2>1, OneEffect DEF Chains!Conditions
<1>16. CASE c = "other"
  <2>1. \A f \in {} : Rank(f) < Rank(<<"host.state_changed", o>>)
    BY DEF Rank, Chains!Delivered, Chains!Present, Chains!Opened, Chains!Running,
           Chains!Executing, Chains!Channel, Chains!Obtained, Chains!Collected
  <2>2. QED
    BY <1>16, <2>1, OneEffect DEF Chains!Conditions
<1>17. QED
  BY Classes, <1>1, <1>2, <1>3, <1>4, <1>5, <1>6, <1>7, <1>8, <1>9, <1>10, <1>11, <1>12, <1>13,
     <1>14, <1>15, <1>16

-----------------------------------------------------------------------------
(* Attack chains: units of a report                                        *)

GoodUnit(u) == u.post \in Seq(Chains!Effects(u)) /\ u.post # <<>>

LEMMA GoodSequence ==
    ASSUME NEW u, NEW S, u.post \in Seq(S), u.post # <<>>
    PROVE  GoodUnit(u)
<1>1. \A k \in 1..Len(u.post) : u.post[k] \in Chains!Effects(u)
  BY DEF Chains!Effects, Chains!ToSet
<1>2. u.post \in Seq(Chains!Effects(u))
  BY <1>1
<1>3. QED
  BY <1>2 DEF GoodUnit

LEMMA EffectsOfGood ==
    ASSUME NEW u, GoodUnit(u)
    PROVE  /\ Len(u.post) \in Nat /\ Len(u.post) >= 1
           /\ DOMAIN u.post = 1..Len(u.post)
           /\ \A k \in 1..Len(u.post) : u.post[k] \in Chains!Effects(u)
           /\ \A h \in Chains!Effects(u) : \E k \in 1..Len(u.post) : u.post[k] = h
<1>1. u.post \in Seq(Chains!Effects(u)) /\ u.post # <<>>
  BY DEF GoodUnit
<1>2. Chains!Effects(u) = {u.post[k] : k \in DOMAIN u.post}
  BY DEF Chains!Effects, Chains!ToSet
<1>3. QED
  BY <1>1, <1>2

(* What the conditions of another behaviour add to a step's own ones are   *)
(* effects that rank below its own effects, too.                           *)
LEMMA DependencyDescends ==
    ASSUME NEW o, NEW c \in DOMAIN Chains!Conditions(o), c \in DOMAIN Chains!Dependency, NEW f,
           f[1] = Chains!Dependency[c][2], NEW k \in DOMAIN Chains!Conditions(o)[c].post
    PROVE  Rank(f) < Rank(Chains!Conditions(o)[c].post[k])
<1>1. c \in {"exploitation", "execute", "communication", "exfiltration"}
  BY DEF Chains!Dependency
<1>2. CASE c = "exploitation"
  <2>1. Chains!Conditions(o)["exploitation"].post = <<Chains!Executing>>
    BY DEF Chains!Conditions
  <2>2. Chains!Dependency["exploitation"][2] = "user.opened"
    BY DEF Chains!Dependency
  <2>3. QED
    BY <1>2, <2>1, <2>2 DEF Rank, Chains!Executing
<1>3. CASE c = "execute"
  <2>1. Chains!Conditions(o)["execute"].post = <<Chains!Running(o)>>
    BY DEF Chains!Conditions
  <2>2. Chains!Dependency["execute"][2] = "file.present"
    BY DEF Chains!Dependency
  <2>3. QED
    BY <1>3, <2>1, <2>2 DEF Rank, Chains!Running
<1>4. CASE c = "communication"
  <2>1. Chains!Conditions(o)["communication"].post = <<Chains!Channel>>
    BY DEF Chains!Conditions
  <2>2. Chains!Dependency["communication"][2] = "process.running"
    BY DEF Chains!Dependency
  <2>3. QED
    BY <1>4, <2>1, <2>2 DEF Rank, Chains!Channel
<1>5. CASE c = "exfiltration"
  <2>1. Chains!Conditions(o)["exfiltration"].post = <<<<"data.exfiltrated", Generic>>>>
    BY DEF Chains!Conditions
  <2>2. Chains!Dependency["exfiltration"][2] = "data.collected"
    BY DEF Chains!Dependency
  <2>3. QED
    BY <1>5, <2>1, <2>2 DEF Rank
<1>6. QED
  BY <1>1, <1>2, <1>3, <1>4, <1>5

LEMMA ReportDescends ==
    ASSUME NEW ss \in Seq(Behaviours), NEW i \in DOMAIN ss
    PROVE  /\ GoodUnit(Chains!UnitsOf(ss)[i])
           /\ \A f \in Chains!UnitsOf(ss)[i].pre :
                 \A h \in Chains!Effects(Chains!UnitsOf(ss)[i]) : Rank(f) < Rank(h)
<1> DEFINE o == ss[i].object
           c == ss[i].class
           u == Chains!UnitsOf(ss)[i]
<1>1. ss[i] \in Behaviours
  OBVIOUS
<1>2. c \in DOMAIN Chains!Conditions(o)
  BY <1>1, ChainsAssumption
<1>3. /\ u.pre = Chains!Conditions(o)[c].pre \cup Chains!Global(ss, i)
      /\ u.post = Chains!Conditions(o)[c].post
  BY DEF Chains!UnitsOf, Chains!Local
<1>4. Descends(Chains!Conditions(o)[c].pre, Chains!Conditions(o)[c].post)
  BY <1>2, ConditionsDescend
<1>5. GoodUnit(u)
  BY <1>3, <1>4, GoodSequence DEF Descends
<1>6. \A f \in Chains!Global(ss, i) :
          \/ f \in Chains!Conditions(o)[c].pre
          \/ c \in DOMAIN Chains!Dependency /\ f[1] = Chains!Dependency[c][2]
  <2>1. CASE c \notin DOMAIN Chains!Dependency
    <3>1. Chains!Global(ss, i) = Chains!Conditions(o)[c].pre
      BY <2>1 DEF Chains!Global, Chains!Local
    <3>2. QED
      BY <3>1
  <2>2. CASE c \in DOMAIN Chains!Dependency
    <3> DEFINE d == Chains!Dependency[c]
               prior == Chains!Prior(ss, i, d[1], d[2])
    <3>1. \A f \in prior : f[1] = d[2]
      BY DEF Chains!Prior
    <3>2. Chains!Global(ss, i) = IF prior = {} THEN Chains!Conditions(o)[c].pre
                          ELSE {f \in Chains!Conditions(o)[c].pre : f[1] # d[2]} \cup prior
      BY <2>2 DEF Chains!Global, Chains!Local
    <3> HIDE DEF d, prior
    <3>3. \A f \in Chains!Global(ss, i) : f \in Chains!Conditions(o)[c].pre \/ f[1] = d[2]
      BY <3>1, <3>2
    <3>4. QED
      BY <2>2, <3>3 DEF d
  <2>3. QED
    BY <2>1, <2>2
<1>7. ASSUME NEW f \in u.pre, NEW h \in Chains!Effects(u)
      PROVE  Rank(f) < Rank(h)
  <2>1. PICK k \in DOMAIN Chains!Conditions(o)[c].post : h = Chains!Conditions(o)[c].post[k]
    BY <1>3, <1>7 DEF Chains!Effects, Chains!ToSet
  <2>2. CASE f \in Chains!Conditions(o)[c].pre
    BY <1>4, <2>1, <2>2 DEF Descends
  <2>3. CASE c \in DOMAIN Chains!Dependency /\ f[1] = Chains!Dependency[c][2]
    BY <1>2, <2>1, <2>3, DependencyDescends
  <2>4. QED
    BY <1>3, <1>6, <1>7, <2>2, <2>3
<1>8. QED
  BY <1>5, <1>7

-----------------------------------------------------------------------------
(* Attack chains: the invariant of forward chaining                        *)

(* Units have effects, and those of a report are what it was read as.      *)
UnitsInv ==
    /\ steps \in Seq(Behaviours)
    /\ \E V : units \in Seq(V)
    /\ \A i \in DOMAIN units : GoodUnit(units[i])
    /\ phase \in {"extracting", "chaining", "proving"}
    /\ steps # <<>> => units = IF phase = "extracting" THEN <<>> ELSE Chains!UnitsOf(steps)

(* Every fact of a unit has its contexts and its rules.                    *)
TablesInv ==
    /\ initial \subseteq DOMAIN derived
    /\ \A i \in DOMAIN units :
          units[i].pre \subseteq DOMAIN derived /\ Chains!Effects(units[i]) \subseteq DOMAIN derived
    /\ DOMAIN derivations = DOMAIN derived

(* A context makes its fact follow from the units that it does not exclude. *)
Within(c) == {i \in DOMAIN units : units[i].branch \subseteq c}
Justifies(c, f) ==
    /\ c \subseteq Chains!Options /\ Chains!Compatible(c)
    /\ f \in Chains!Follows(units, initial, Within(c))
ContextsInv ==
    /\ \A f \in initial : {} \in derived[f]
    /\ \A f \in DOMAIN derived : \A c \in derived[f] : Justifies(c, f)

(* The rules of a fact have it as their head and a known body.             *)
RulesOf(f) ==
    {r \in [unit : DOMAIN units, head : {f}] :
        f \in Chains!Effects(units[r.unit]) /\ units[r.unit].pre \subseteq Chains!Known}
RulesInv ==
    /\ \A f \in DOMAIN derived : derivations[f] \in Seq(RulesOf(f))
    /\ \A f \in Chains!Known : f \in initial \/ derivations[f] # <<>>

(* While a pass has changed nothing, the rules it has left behind can add  *)
(* nothing; once it is over, no rule can.                                  *)
Saturated(i, k) ==
    Chains!Firings([unit |-> i, head |-> units[i].post[k]], derived)
        \subseteq derived[units[i].post[k]]
PassInv ==
    /\ at[1] \in Nat /\ at[1] >= 1 /\ at[2] \in Nat /\ at[2] >= 1
    /\ at[1] <= Len(units) => at[2] <= Len(units[at[1]].post)
    /\ phase = "chaining" /\ ~changed =>
          \A i \in DOMAIN units : \A k \in DOMAIN units[i].post :
              i < at[1] \/ (i = at[1] /\ k < at[2]) => Saturated(i, k)
    /\ phase = "proving" =>
          \A i \in DOMAIN units : \A k \in DOMAIN units[i].post : Saturated(i, k)

ChainingInv == TablesInv /\ ContextsInv /\ RulesInv /\ PassInv
ForwardInv == UnitsInv /\ (phase # "extracting" => ChainingInv)

LEMMA UnitsStart ==
    ASSUME Chains!Init
    PROVE  UnitsInv
<1>1. <<>> \in Seq(Behaviours)
  OBVIOUS
<1>2. QED
  BY <1>1 DEF Chains!Init, UnitsInv

LEMMA UnitsStep ==
    ASSUME UnitsInv, Chains!Next \/ UNCHANGED Chains!vars
    PROVE  UnitsInv'
<1>1. ASSUME NEW u \in Universe, Chains!Supply(u)
      PROVE  UnitsInv'
  <2>1. PICK V : units \in Seq(V)
    BY DEF UnitsInv
  <2>2. units' \in Seq(V \cup {u})
    <3>1. units \in Seq(V \cup {u})
      BY <2>1
    <3>2. QED
      BY <3>1, <1>1 DEF Chains!Supply
  <2>3. GoodUnit(u)
    BY <1>1, ChainsAssumption DEF GoodUnit
  <2>4. \A i \in DOMAIN units' : GoodUnit(units'[i])
    <3>1. \A i \in DOMAIN units' : (i \in DOMAIN units /\ units'[i] = units[i]) \/ units'[i] = u
      BY <2>1, <1>1 DEF Chains!Supply
    <3>2. QED
      BY <3>1, <2>3 DEF UnitsInv
  <2>5. QED
    BY <1>1, <2>2, <2>4 DEF UnitsInv, Chains!Supply
<1>2. ASSUME NEW b \in Behaviours, Chains!Recognise(b)
      PROVE  UnitsInv'
  <2>1. steps' \in Seq(Behaviours)
    BY <1>2 DEF UnitsInv, Chains!Recognise
  <2>2. QED
    BY <1>2, <2>1 DEF UnitsInv, Chains!Recognise
<1>3. ASSUME NEW facts, NEW g, Chains!Analyze(facts, g)
      PROVE  UnitsInv'
  <2>1. phase' = "chaining" /\ steps' = steps
    BY <1>3 DEF Chains!Analyze, Chains!Start
  <2>2. CASE steps = <<>>
    <3>1. units' = units
      BY <1>3, <2>2 DEF Chains!Analyze
    <3>2. QED
      BY <2>1, <2>2, <3>1 DEF UnitsInv
  <2>3. CASE steps # <<>>
    <3>1. units' = Chains!UnitsOf(steps)
      BY <1>3, <2>3 DEF Chains!Analyze
    <3>2. steps \in Seq(Behaviours)
      BY DEF UnitsInv
    <3>3. DOMAIN units' = DOMAIN steps
      BY <3>1 DEF Chains!UnitsOf
    <3>4. \A i \in DOMAIN units' : GoodUnit(units'[i])
      BY <3>1, <3>2, <3>3, ReportDescends
    <3>5. \E V : units' \in Seq(V)
      <4> DEFINE V == {units'[i] : i \in DOMAIN units'}
      <4>1. units' = [i \in 1..Len(steps) |-> units'[i]] /\ Len(steps) \in Nat
        BY <3>1, <3>2 DEF Chains!UnitsOf
      <4>2. units' \in Seq(V)
        BY <4>1
      <4>3. QED
        BY <4>2
    <3>6. QED
      BY <2>1, <3>1, <3>2, <3>4, <3>5 DEF UnitsInv
  <2>4. QED
    BY <2>2, <2>3
<1>4. ASSUME NEW facts, NEW g, Chains!ReasonAgain(facts, g)
      PROVE  UnitsInv'
  BY <1>4 DEF UnitsInv, Chains!ReasonAgain, Chains!Start, Chains!Reasoned
<1>5. ASSUME UNCHANGED Chains!input, phase' = phase
      PROVE  UnitsInv'
  BY <1>5 DEF UnitsInv, Chains!input
<1>6. ASSUME Chains!EndPass
      PROVE  UnitsInv'
  BY <1>6 DEF UnitsInv, Chains!EndPass, Chains!input
<1>7. CASE Chains!FireRule \/ Chains!Prove \/ UNCHANGED Chains!vars
  BY <1>5, <1>7 DEF Chains!FireRule, Chains!Prove, Chains!vars
<1>8. QED
  BY <1>1, <1>2, <1>3, <1>4, <1>6, <1>7 DEF Chains!Next

(* Chaining starts from the initial facts alone.                           *)
LEMMA ChainingStart ==
    ASSUME NEW us, NEW facts, NEW g, Chains!Start(us, facts, g), units' = us, UnitsInv'
    PROVE  ChainingInv'
<1> DEFINE all == facts \cup UNION {u.pre \cup Chains!Effects(u) : u \in Chains!ToSet(us)}
<1>1. /\ phase' = "chaining" /\ initial' = facts
      /\ derived' = [f \in all |-> IF f \in facts THEN {{}} ELSE {}]
      /\ derivations' = [f \in all |-> <<>>]
      /\ at' = <<1, 1>>
  BY DEF Chains!Start, Chains!First
<1>2. Chains!ToSet(us) = {us[i] : i \in DOMAIN us}
  BY DEF Chains!ToSet
<1>3. TablesInv'
  <2>1. \A i \in DOMAIN us : us[i].pre \subseteq all /\ Chains!Effects(us[i]) \subseteq all
    BY <1>2
  <2>2. facts \subseteq all /\ DOMAIN derived' = all /\ DOMAIN derivations' = all
    BY <1>1
  <2>3. QED
    BY <1>1, <2>1, <2>2 DEF TablesInv
<1>4. \A f \in all : \A c \in derived'[f] : c = {} /\ f \in facts
  BY <1>1
<1>5. \A f \in facts : derived'[f] = {{}}
  BY <1>1
<1>6. ContextsInv'
  <2>1. ASSUME NEW f \in DOMAIN derived', NEW c \in derived'[f]
        PROVE  Justifies(c, f)'
    <3>1. c = {} /\ f \in initial'
      BY <1>1, <1>4, <2>1
    <3>2. QED
      BY <3>1, FollowsContains DEF Justifies, Chains!Compatible
  <2>2. \A f \in initial' : {} \in derived'[f]
    BY <1>1, <1>5
  <2>3. QED
    BY <2>1, <2>2 DEF ContextsInv
<1>7. RulesInv'
  <2>1. \A f \in Chains!Known' : f \in facts
    BY <1>1, <1>4 DEF Chains!Known
  <2>2. \A f \in DOMAIN derived' : derivations'[f] \in Seq(RulesOf(f)')
    BY <1>1
  <2>3. QED
    BY <1>1, <2>1, <2>2 DEF RulesInv
<1>8. PassInv'
  <2>1. \E V : units' \in Seq(V)
    BY DEF UnitsInv
  <2>2. \A i \in DOMAIN units' :
            Len(units'[i].post) >= 1 /\ DOMAIN units'[i].post = 1..Len(units'[i].post)
    BY EffectsOfGood DEF UnitsInv
  <2>3. DOMAIN units' = 1..Len(units') /\ Len(units') \in Nat
    BY <2>1
  <2>4. at'[1] <= Len(units') => at'[2] <= Len(units'[at'[1]].post)
    BY <1>1, <2>2, <2>3
  <2>5. QED
    BY <1>1, <2>2, <2>3, <2>4 DEF PassInv
<1>9. QED
  BY <1>3, <1>6, <1>7, <1>8 DEF ChainingInv

(* What a rule derives is justified, and its body is known.                *)
LEMMA FiringsJustified ==
    ASSUME ContextsInv, TablesInv, NEW i \in DOMAIN units, NEW h \in Chains!Effects(units[i]),
           NEW c \in Chains!Firings([unit |-> i, head |-> h], derived)
    PROVE  Justifies(c, h) /\ units[i].pre \subseteq Chains!Known
<1> DEFINE B == units[i].pre
           S == UNION {derived[f] : f \in B}
<1>1. PICK p \in [B -> S] :
         /\ \A f \in B : p[f] \in derived[f]
         /\ c = units[i].branch \cup UNION {p[f] : f \in B}
         /\ Chains!Compatible(c)
  BY DEF Chains!Firings, Chains!Body
<1>2. B \subseteq DOMAIN derived
  BY DEF TablesInv
<1>3. B \subseteq Chains!Known
  BY <1>1, <1>2 DEF Chains!Known
<1>4. \A f \in B : Justifies(p[f], f)
  BY <1>1, <1>2 DEF ContextsInv
<1>5. c \subseteq Chains!Options
  <2>1. units[i].branch \subseteq Chains!Options
    BY DEF Chains!Options
  <2>2. QED
    BY <1>1, <1>4, <2>1 DEF Justifies
<1>6. \A f \in B : p[f] \subseteq c
  BY <1>1
<1>7. ASSUME NEW f \in B
      PROVE  f \in Chains!Follows(units, initial, Within(c))
  <2>1. Within(p[f]) \subseteq Within(c)
    BY <1>6, <1>7 DEF Within
  <2>2. QED
    BY <1>4, <1>7, <2>1, FollowsMonotone DEF Justifies
<1>8. i \in Within(c)
  BY <1>1 DEF Within
<1>9. h \in Chains!Follows(units, initial, Within(c))
  BY <1>7, <1>8, FollowsClosed DEF Chains!ClosedUnder
<1>10. QED
  BY <1>1, <1>3, <1>5, <1>9 DEF Justifies

LEMMA FireStep ==
    ASSUME UnitsInv, ChainingInv, Chains!FireRule
    PROVE  ChainingInv'
<1> DEFINE i == at[1]
           k == at[2]
<1>0. PICK h : h = units[i].post[k]
  OBVIOUS
<1> DEFINE rule == [unit |-> i, head |-> h]
           new == Chains!Firings(rule, derived)
<1>1. /\ phase = "chaining" /\ phase' = phase /\ i <= Len(units)
      /\ derived' = [derived EXCEPT ![h] = @ \cup new]
      /\ changed' = (changed \/ ~(new \subseteq derived[h]))
      /\ derivations' = IF new = {} \/ rule \in Chains!ToSet(derivations[h]) THEN derivations
                        ELSE [derivations EXCEPT ![h] = Append(@, rule)]
      /\ at' = Chains!After(at)
      /\ units' = units /\ initial' = initial
  BY <1>0 DEF Chains!FireRule, Chains!Rule, Chains!input
<1>2. DOMAIN units = 1..Len(units) /\ Len(units) \in Nat
  <2>1. \E V : units \in Seq(V)
    BY DEF UnitsInv
  <2>2. QED
    BY <2>1
<1>3. i \in DOMAIN units /\ k \in 1..Len(units[i].post) /\ GoodUnit(units[i])
  <2>0. /\ i \in Nat /\ i >= 1 /\ k \in Nat /\ k >= 1
        /\ i <= Len(units) => k <= Len(units[i].post)
    BY DEF ChainingInv, PassInv
  <2> HIDE DEF i, k
  <2>1. i \in DOMAIN units
    BY <2>0, <1>1, <1>2
  <2>2. GoodUnit(units[i])
    BY <2>1 DEF UnitsInv
  <2>3. Len(units[i].post) \in Nat
    BY <2>2, EffectsOfGood
  <2>4. QED
    BY <2>0, <1>1, <2>1, <2>2, <2>3
<1>4. h \in Chains!Effects(units[i]) /\ DOMAIN units[i].post = 1..Len(units[i].post)
  BY <1>0, <1>3, EffectsOfGood
<1>5. h \in DOMAIN derived /\ DOMAIN derivations = DOMAIN derived
  BY <1>3, <1>4 DEF ChainingInv, TablesInv
<1> HIDE DEF rule, new
<1>6. /\ DOMAIN derived' = DOMAIN derived
      /\ derived'[h] = derived[h] \cup new
      /\ \A f \in DOMAIN derived : f # h => derived'[f] = derived[f]
      /\ \A f \in DOMAIN derived : derived[f] \subseteq derived'[f]
  BY <1>1, <1>5
<1>7. TablesInv'
  <2>1. DOMAIN derivations' = DOMAIN derivations
    BY <1>1
  <2>2. QED
    BY <1>1, <1>6, <2>1 DEF ChainingInv, TablesInv
<1>8. \A c \in new : Justifies(c, h)
  BY <1>3, <1>4, FiringsJustified DEF ChainingInv, new, rule
<1>9. new # {} => units[i].pre \subseteq Chains!Known
  BY <1>3, <1>4, FiringsJustified DEF ChainingInv, new, rule
<1>10. ContextsInv'
  <2>1. \A f, c : Justifies(c, f)' <=> Justifies(c, f)
    BY <1>1 DEF Justifies, Chains!Options, Within
  <2>2. ASSUME NEW f \in DOMAIN derived', NEW c \in derived'[f]
        PROVE  Justifies(c, f)
    BY <1>6, <1>8, <2>2 DEF ChainingInv, ContextsInv
  <2>3. \A f \in initial' : {} \in derived'[f]
    BY <1>1, <1>6 DEF ChainingInv, ContextsInv, TablesInv
  <2>4. QED
    BY <2>1, <2>2, <2>3 DEF ContextsInv
<1>11. RulesInv'
  <2>1. Chains!Known \subseteq Chains!Known'
    BY <1>6 DEF Chains!Known
  <2>2. \A f : RulesOf(f) \subseteq RulesOf(f)'
    BY <1>1, <2>1 DEF RulesOf
  <2>3. new # {} => rule \in RulesOf(h)
    BY <1>3, <1>4, <1>9 DEF RulesOf, rule
  <2>4. \A f \in DOMAIN derived : derivations[f] \in Seq(RulesOf(f)')
    <3>1. ASSUME NEW f \in DOMAIN derived
          PROVE  derivations[f] \in Seq(RulesOf(f)')
      <4>1. derivations[f] \in Seq(RulesOf(f))
        BY <3>1 DEF ChainingInv, RulesInv
      <4>2. QED
        BY <4>1, <2>2
    <3>2. QED
      BY <3>1
  <2>5. CASE new = {} \/ rule \in Chains!ToSet(derivations[h])
    <3>1. derivations' = derivations
      BY <1>1, <2>5
    <3>2. new # {} => derivations[h] # <<>>
      BY <2>5 DEF Chains!ToSet
    <3>3. \A f \in Chains!Known' : f \in Chains!Known \/ (f = h /\ new # {})
      BY <1>6 DEF Chains!Known
    <3>4. \A f \in Chains!Known' : f \in initial' \/ derivations'[f] # <<>>
      BY <1>1, <3>1, <3>2, <3>3 DEF ChainingInv, RulesInv
    <3>5. QED
      BY <1>6, <2>4, <3>1, <3>4 DEF RulesInv
  <2>6. CASE ~(new = {} \/ rule \in Chains!ToSet(derivations[h]))
    <3>1. derivations' = [derivations EXCEPT ![h] = Append(@, rule)]
      BY <1>1, <2>6
    <3>2. /\ derivations'[h] = Append(derivations[h], rule)
          /\ \A f \in DOMAIN derived : f # h => derivations'[f] = derivations[f]
      BY <1>5, <3>1
    <3>3. /\ derivations'[h] \in Seq(RulesOf(h)')
          /\ derivations'[h] # <<>>
      <4>1. rule \in RulesOf(h)'
        <5>1. rule \in RulesOf(h)
          BY <2>3, <2>6
        <5>2. QED
          BY <2>2, <5>1
      <4>2. derivations[h] \in Seq(RulesOf(h)')
        BY <1>5, <2>4
      <4>3. QED
        BY <3>2, <4>1, <4>2
    <3>4. \A f \in Chains!Known' : f \in initial' \/ derivations'[f] # <<>>
      <4>1. \A f \in Chains!Known' : f \in DOMAIN derived /\ (f \in Chains!Known \/ f = h)
        BY <1>6 DEF Chains!Known
      <4>2. QED
        BY <1>1, <3>2, <3>3, <4>1 DEF ChainingInv, RulesInv
    <3>5. \A f \in DOMAIN derived' : derivations'[f] \in Seq(RulesOf(f)')
      <4>1. ASSUME NEW f \in DOMAIN derived'
            PROVE  derivations'[f] \in Seq(RulesOf(f)')
        <5>1. CASE f = h
          BY <3>3, <5>1
        <5>2. CASE f # h
          <6>1. f \in DOMAIN derived
            BY <1>6, <4>1
          <6>2. derivations'[f] = derivations[f]
            BY <3>2, <5>2, <6>1
          <6>3. QED
            BY <2>4, <6>1, <6>2
        <5>3. QED
          BY <5>1, <5>2
      <4>2. QED
        BY <4>1
    <3>6. QED
      BY <3>4, <3>5 DEF RulesInv
  <2>7. QED
    BY <2>5, <2>6
<1>12. PassInv'
  <2>1. /\ at'[1] \in Nat /\ at'[1] >= 1 /\ at'[2] \in Nat /\ at'[2] >= 1
        /\ at'[1] <= Len(units) => at'[2] <= Len(units[at'[1]].post)
    <3>1. at[1] \in Nat /\ at[1] >= 1 /\ at[2] \in Nat /\ at[2] >= 1
      BY DEF ChainingInv, PassInv
    <3>2. CASE k < Len(units[i].post)
      <4>1. at' = <<i, k + 1>>
        BY <1>1, <3>2 DEF Chains!After
      <4>2. QED
        BY <1>3, <3>1, <3>2, <4>1
    <3>3. CASE ~(k < Len(units[i].post))
      <4>1. at' = <<i + 1, 1>>
        BY <1>1, <3>3 DEF Chains!After
      <4>2. i + 1 <= Len(units) => Len(units[i + 1].post) >= 1
        <5>1. ASSUME i + 1 <= Len(units)
              PROVE  Len(units[i + 1].post) >= 1
          <6>1. i + 1 \in DOMAIN units
            BY <1>2, <3>1, <5>1
          <6>2. GoodUnit(units[i + 1])
            BY <6>1 DEF UnitsInv
          <6>3. QED
            BY <6>2, EffectsOfGood
        <5>2. QED
          BY <5>1
      <4>3. QED
        BY <3>1, <4>1, <4>2
    <3>4. QED
      BY <3>2, <3>3
  <2>2. ASSUME ~changed', NEW j \in DOMAIN units, NEW l \in DOMAIN units[j].post,
               j < at'[1] \/ (j = at'[1] /\ l < at'[2])
        PROVE  Saturated(j, l)'
    <3>1. ~changed /\ new \subseteq derived[h]
      BY <1>1, <2>2
    <3>2. \A f \in DOMAIN derived : derived'[f] = derived[f]
      BY <1>6, <3>1
    <3>3. DOMAIN units[j].post = 1..Len(units[j].post) /\ Len(units[j].post) \in Nat
      BY EffectsOfGood DEF UnitsInv
    <3>4. (j < i \/ (j = i /\ l < k)) \/ (j = i /\ l = k)
      BY <1>1, <1>2, <1>3, <2>2, <3>3 DEF Chains!After
    <3>5. Saturated(j, l)
      <4>1. CASE j < i \/ (j = i /\ l < k)
        BY <1>1, <3>1, <4>1 DEF ChainingInv, PassInv
      <4>2. CASE j = i /\ l = k
        BY <1>0, <3>1, <4>2 DEF Saturated, new, rule
      <4>3. QED
        BY <3>4, <4>1, <4>2
    <3>6. units[j].pre \subseteq DOMAIN derived /\ units[j].post[l] \in DOMAIN derived
      BY EffectsOfGood DEF ChainingInv, TablesInv, UnitsInv
    <3>7. Chains!Firings([unit |-> j, head |-> units[j].post[l]], derived)'
            = Chains!Firings([unit |-> j, head |-> units[j].post[l]], derived)
      <4> DEFINE B == units[j].pre
      <4>1. \A f \in B : derived'[f] = derived[f]
        BY <3>2, <3>6
      <4>2. UNION {derived'[f] : f \in B} = UNION {derived[f] : f \in B}
        BY <4>1
      <4> DEFINE S == UNION {derived[f] : f \in B}
      <4>3. {p \in [B -> S] : \A f \in B : p[f] \in derived'[f]}
              = {p \in [B -> S] : \A f \in B : p[f] \in derived[f]}
        BY <4>1
      <4>4. Chains!Body([unit |-> j, head |-> units[j].post[l]]) = B
        BY DEF Chains!Body
      <4>5. Chains!Firings([unit |-> j, head |-> units[j].post[l]], derived)'
              = {c \in {units[j].branch \cup UNION {p[f] : f \in B} :
                          p \in {q \in [B -> UNION {derived'[f] : f \in B}] :
                                    \A f \in B : q[f] \in derived'[f]}} : Chains!Compatible(c)}
        BY <1>1 DEF Chains!Firings, Chains!Body
      <4>6. Chains!Firings([unit |-> j, head |-> units[j].post[l]], derived)
              = {c \in {units[j].branch \cup UNION {p[f] : f \in B} :
                          p \in {q \in [B -> UNION {derived[f] : f \in B}] :
                                    \A f \in B : q[f] \in derived[f]}} : Chains!Compatible(c)}
        BY DEF Chains!Firings, Chains!Body
      <4>7. QED
        BY <4>2, <4>3, <4>5, <4>6
    <3>8. QED
      BY <1>1, <3>2, <3>5, <3>6, <3>7 DEF Saturated
  <2>3. QED
    BY <1>1, <2>1, <2>2 DEF PassInv
<1>13. QED
  BY <1>7, <1>10, <1>11, <1>12 DEF ChainingInv

LEMMA ForwardStays ==
    ASSUME units' = units, initial' = initial, derived' = derived, derivations' = derivations
    PROVE  /\ TablesInv => TablesInv'
           /\ ContextsInv => ContextsInv'
           /\ RulesInv => RulesInv'
           /\ \A i, k : Saturated(i, k)' <=> Saturated(i, k)
<1>1. TablesInv => TablesInv'
  BY DEF TablesInv
<1>2. ContextsInv => ContextsInv'
  <2>1. \A c, f : Justifies(c, f)' <=> Justifies(c, f)
    BY DEF Justifies, Chains!Options, Within
  <2>2. QED
    BY <2>1 DEF ContextsInv
<1>3. RulesInv => RulesInv'
  <2>1. Chains!Known' = Chains!Known
    BY DEF Chains!Known
  <2>2. \A f : RulesOf(f)' = RulesOf(f)
    BY <2>1 DEF RulesOf
  <2>3. QED
    BY <2>1, <2>2 DEF RulesInv
<1>4. \A i, k : Saturated(i, k)' <=> Saturated(i, k)
  BY DEF Saturated, Chains!Firings, Chains!Body
<1>5. QED
  BY <1>1, <1>2, <1>3, <1>4

LEMMA EndPassStep ==
    ASSUME UnitsInv, ChainingInv, Chains!EndPass
    PROVE  ChainingInv'
<1>1. /\ phase = "chaining" /\ at[1] > Len(units)
      /\ at' = <<1, 1>>
      /\ derived' = derived /\ derivations' = derivations
      /\ units' = units /\ initial' = initial
      /\ phase' = IF changed THEN phase ELSE "proving"
  BY DEF Chains!EndPass, Chains!First, Chains!input
<1>2. TablesInv' /\ ContextsInv' /\ RulesInv'
  BY <1>1, ForwardStays DEF ChainingInv
<1>3. Len(units) \in Nat /\ DOMAIN units = 1..Len(units)
  <2>1. \E V : units \in Seq(V)
    BY DEF UnitsInv
  <2>2. QED
    BY <2>1
<1>4. \A i \in DOMAIN units :
          Len(units[i].post) >= 1 /\ DOMAIN units[i].post = 1..Len(units[i].post)
  BY EffectsOfGood DEF UnitsInv
<1>5. ASSUME ~changed, NEW i \in DOMAIN units, NEW k \in DOMAIN units[i].post
      PROVE  Saturated(i, k)
  <2>1. i < at[1]
    BY <1>3, <1>1 DEF Chains!EndPass, ChainingInv, PassInv
  <2>2. phase = "chaining"
    BY DEF Chains!EndPass
  <2>3. QED
    BY <1>5, <2>1, <2>2 DEF ChainingInv, PassInv
<1>6. \A i, k : Saturated(i, k)' <=> Saturated(i, k)
  BY <1>1, ForwardStays
<1>7. PassInv'
  <2>1. /\ at'[1] \in Nat /\ at'[1] >= 1 /\ at'[2] \in Nat /\ at'[2] >= 1
        /\ at'[1] <= Len(units) => at'[2] <= Len(units[at'[1]].post)
    BY <1>1, <1>3, <1>4
  <2>2. \A i \in DOMAIN units : \A k \in DOMAIN units[i].post :
            ~(i < at'[1] \/ (i = at'[1] /\ k < at'[2]))
    BY <1>1, <1>3, <1>4
  <2>3. phase' = "proving" => ~changed
    BY <1>1 DEF Chains!EndPass
  <2>4. QED
    BY <1>1, <1>5, <1>6, <2>1, <2>2, <2>3 DEF PassInv
<1>8. QED
  BY <1>2, <1>7 DEF ChainingInv

LEMMA ForwardStep ==
    ASSUME ForwardInv, Chains!Next \/ UNCHANGED Chains!vars
    PROVE  ForwardInv'
<1>1. UnitsInv /\ UnitsInv'
  BY UnitsStep DEF ForwardInv
<1>2. ASSUME phase' = "extracting"
      PROVE  ForwardInv'
  BY <1>1, <1>2 DEF ForwardInv
<1>3. ASSUME NEW u \in Universe, Chains!Supply(u)
      PROVE  ForwardInv'
  BY <1>2, <1>3 DEF Chains!Supply
<1>4. ASSUME NEW b \in Behaviours, Chains!Recognise(b)
      PROVE  ForwardInv'
  BY <1>2, <1>4 DEF Chains!Recognise
<1>5. ASSUME NEW facts, NEW g, Chains!Analyze(facts, g)
      PROVE  ForwardInv'
  <2>1. PICK us, h : Chains!Start(us, facts, h) /\ units' = us
    BY <1>5 DEF Chains!Analyze
  <2>2. ChainingInv'
    BY <1>1, <2>1, ChainingStart
  <2>3. QED
    BY <1>1, <2>2 DEF ForwardInv
<1>6. ASSUME NEW facts, NEW g, Chains!ReasonAgain(facts, g)
      PROVE  ForwardInv'
  <2>1. PICK us : Chains!Start(us, facts, g) /\ units' = us
    BY <1>6 DEF Chains!ReasonAgain
  <2>2. ChainingInv'
    BY <1>1, <2>1, ChainingStart
  <2>3. QED
    BY <1>1, <2>2 DEF ForwardInv
<1>7. CASE Chains!FireRule
  <2>1. phase # "extracting"
    BY <1>7 DEF Chains!FireRule
  <2>2. QED
    BY <1>1, <1>7, <2>1, FireStep DEF ForwardInv
<1>8. CASE Chains!EndPass
  <2>1. phase # "extracting"
    BY <1>8 DEF Chains!EndPass
  <2>2. QED
    BY <1>1, <1>8, <2>1, EndPassStep DEF ForwardInv
<1>9. CASE Chains!Prove \/ UNCHANGED Chains!vars
  <2>1. /\ units' = units /\ initial' = initial /\ phase' = phase
        /\ derived' = derived /\ derivations' = derivations
        /\ at' = at /\ changed' = changed
    BY <1>9 DEF Chains!Prove, Chains!vars, Chains!input, Chains!forward
  <2>2. ChainingInv => ChainingInv'
    BY <2>1, ForwardStays DEF ChainingInv, PassInv
  <2>3. QED
    BY <1>1, <2>1, <2>2 DEF ForwardInv
<1>10. QED
  BY <1>3, <1>4, <1>5, <1>6, <1>7, <1>8, <1>9 DEF Chains!Next

LEMMA ForwardStart ==
    ASSUME Chains!Init
    PROVE  ForwardInv
  BY UnitsStart DEF Chains!Init, ForwardInv

-----------------------------------------------------------------------------
(* Attack chains: chaining is exact                                        *)

(* A context that is not contradictory belongs to some consistent choice.  *)
LEMMA ContextIsChosen ==
    ASSUME NEW c \in SUBSET Chains!Options, Chains!Compatible(c)
    PROVE  \E s \in Chains!Selections : c \subseteq s
<1> DEFINE missing == {g \in {o.group : o \in Chains!Options} : \A m \in c : m.group # g}
           Pick(g) == CHOOSE o \in Chains!Options : o.group = g
           s == c \cup {Pick(g) : g \in missing}
<1>1. \A g \in missing : Pick(g) \in Chains!Options /\ Pick(g).group = g
  <2>1. ASSUME NEW g \in missing
        PROVE  \E o \in Chains!Options : o.group = g
    OBVIOUS
  <2>2. QED
    BY <2>1
<1> HIDE DEF Pick
<1>2. ASSUME NEW o \in Chains!Options
      PROVE  \E m \in s : {n \in s : n.group = o.group} = {m}
  <2>1. CASE \E m \in c : m.group = o.group
    <3>1. PICK m \in c : m.group = o.group
      BY <2>1
    <3>2. \A n \in s : n.group = o.group => n \in c
      BY <1>1, <3>1
    <3>3. \A n \in s : n.group = o.group => n = m
      BY <3>1, <3>2 DEF Chains!Compatible
    <3>4. QED
      BY <3>1, <3>3
  <2>2. CASE \A m \in c : m.group # o.group
    <3>1. o.group \in missing
      BY <2>2
    <3>2. Pick(o.group) \in s /\ Pick(o.group).group = o.group
      BY <1>1, <3>1
    <3>3. \A n \in s : n.group = o.group => n = Pick(o.group)
      BY <1>1, <2>2
    <3>4. {n \in s : n.group = o.group} = {Pick(o.group)}
      BY <3>2, <3>3
    <3>5. QED
      BY <3>2, <3>4
  <2>3. QED
    BY <2>1, <2>2
<1>3. s \in SUBSET Chains!Options
  BY <1>1
<1>4. s \in Chains!Selections
  BY <1>2, <1>3 DEF Chains!Selections
<1>5. QED
  BY <1>4

LEMMA SelectionIsCompatible ==
    ASSUME NEW s \in Chains!Selections, NEW c \in SUBSET s
    PROVE  Chains!Compatible(c)
<1>1. SUFFICES ASSUME NEW m \in c, NEW n \in c, m.group = n.group
               PROVE  m = n
  BY DEF Chains!Compatible
<1>2. m \in Chains!Options /\ m \in s /\ n \in s
  BY DEF Chains!Selections
<1>3. PICK x \in s : {y \in s : y.group = m.group} = {x}
  BY <1>2 DEF Chains!Selections
<1>4. m \in {x} /\ n \in {x}
  BY <1>1, <1>2, <1>3
<1>5. QED
  BY <1>4

LEMMA ExactWhenReasoned ==
    ASSUME ForwardInv, phase = "proving"
    PROVE  Chains!Known = Chains!Derivable
<1>0. ChainingInv
  BY DEF ForwardInv
<1>1. ASSUME NEW f \in Chains!Known
      PROVE  f \in Chains!Derivable
  <2>1. PICK c \in derived[f] : Justifies(c, f)
    BY <1>0 DEF Chains!Known, ChainingInv, ContextsInv
  <2>2. PICK s \in Chains!Selections : c \subseteq s
    BY <2>1, ContextIsChosen DEF Justifies
  <2>3. Within(c) \subseteq Within(s)
    BY <2>2 DEF Within
  <2>4. f \in Chains!Follows(units, initial, Within(s))
    BY <2>1, <2>3, FollowsMonotone DEF Justifies
  <2>5. QED
    BY <2>4 DEF Chains!Derivable, Chains!Consequences, Within
<1>2. ASSUME NEW s \in Chains!Selections
      PROVE  Chains!Consequences(s) \subseteq Chains!Known
  <2> DEFINE K == {f \in Chains!Known : \E c \in derived[f] : c \subseteq s}
             H == {i \in DOMAIN units : units[i].branch \subseteq s}
  <2>1. initial \subseteq K
    BY <1>0 DEF ChainingInv, ContextsInv, TablesInv, Chains!Known
  <2>2. ASSUME NEW i \in H, units[i].pre \subseteq K, NEW h \in Chains!Effects(units[i])
        PROVE  h \in K
    <3>1. GoodUnit(units[i])
      BY DEF ForwardInv, UnitsInv
    <3>2. PICK k \in DOMAIN units[i].post : units[i].post[k] = h
      BY <3>1, EffectsOfGood
    <3>3. Chains!Firings([unit |-> i, head |-> h], derived) \subseteq derived[h]
      BY <1>0, <3>2 DEF ChainingInv, PassInv, Saturated
    <3> DEFINE B == units[i].pre
               p == [f \in B |-> CHOOSE c \in derived[f] : c \subseteq s]
               c == units[i].branch \cup UNION {p[f] : f \in B}
    <3>4. \A f \in B : p[f] \in derived[f] /\ p[f] \subseteq s
      BY <2>2
    <3>5. p \in [B -> UNION {derived[f] : f \in B}]
      BY <3>4
    <3> HIDE DEF p
    <3>6. c \in SUBSET s
      BY <3>4
    <3>7. Chains!Compatible(c)
      BY <3>6, SelectionIsCompatible
    <3>8. c \in Chains!Firings([unit |-> i, head |-> h], derived)
      BY <3>4, <3>5, <3>7 DEF Chains!Firings, Chains!Body
    <3>9. h \in DOMAIN derived
      BY <1>0 DEF ChainingInv, TablesInv
    <3>10. QED
      BY <3>3, <3>6, <3>8, <3>9 DEF Chains!Known
  <2>3. Chains!ClosedUnder(units, H, K)
    BY <2>2 DEF Chains!ClosedUnder
  <2>4. Chains!Follows(units, initial, H) \subseteq K
    BY <2>1, <2>3, FollowsLeast
  <2>5. QED
    BY <2>4 DEF Chains!Consequences
<1>3. QED
  BY <1>1, <1>2 DEF Chains!Derivable

-----------------------------------------------------------------------------
(* Attack chains: a clean chain happens                                    *)

LEMMA CleanWhenReasoned ==
    ASSUME ForwardInv, phase = "proving", Chains!Options = {}, ~Chains!DependencyIssue
    PROVE  \A i \in DOMAIN units : units[i].pre \subseteq Chains!Known
<1> DEFINE bad == {i \in DOMAIN units : ~(units[i].pre \subseteq Chains!Known)}
<1>1. DOMAIN units = 1..Len(units) /\ Len(units) \in Nat
  <2>1. \E V : units \in Seq(V)
    BY DEF ForwardInv, UnitsInv
  <2>2. QED
    BY <2>1
<1>2. SUFFICES ASSUME bad # {} PROVE FALSE
  OBVIOUS
<1>3. bad \in SUBSET Nat
  BY <1>1
<1>4. PICK i \in bad : \A j \in bad : i <= j
  <2> HIDE DEF bad
  <2>1. QED
    BY <1>2, <1>3, Least
<1>5. PICK f \in units[i].pre : f \notin Chains!Known
  BY <1>4
<1>6. f \in Chains!ProducedBefore(i)
  BY <1>4 DEF Chains!DependencyIssue, Chains!FutureDependency, Chains!Unsupported
<1>7. Chains!Known = Chains!Follows(units, initial, DOMAIN units)
  <2>1. Chains!Selections = {{}}
    BY DEF Chains!Selections
  <2>2. \A j \in DOMAIN units : units[j].branch = {}
    BY DEF Chains!Options
  <2>3. {j \in DOMAIN units : units[j].branch \subseteq {}} = DOMAIN units
    BY <2>2
  <2>4. Chains!Derivable = Chains!Follows(units, initial, DOMAIN units)
    BY <2>1, <2>3 DEF Chains!Derivable, Chains!Consequences
  <2>5. QED
    BY <2>4, ExactWhenReasoned
<1>8. CASE f \in initial
  BY <1>5, <1>7, <1>8, FollowsContains
<1>9. CASE f \notin initial
  <2>1. PICK j \in 1..(i - 1) : f \in Chains!Effects(units[j])
    BY <1>6, <1>9 DEF Chains!ProducedBefore
  <2>2. j \in DOMAIN units /\ j < i
    BY <1>1, <1>4, <2>1
  <2>3. units[j].pre \subseteq Chains!Known
    BY <1>1, <1>4, <2>2
  <2>4. f \in Chains!Known
    BY <1>7, <2>1, <2>2, <2>3, FollowsClosed DEF Chains!ClosedUnder
  <2>5. QED
    BY <1>5, <2>4
<1>10. QED
  BY <1>8, <1>9

-----------------------------------------------------------------------------
(* Attack chains: the invariant of the backward proofs                     *)

Proofs == [units : SUBSET DOMAIN units, choices : SUBSET Chains!Options]
Frames ==
    [fact : DOMAIN derived, rules : Seq([unit : DOMAIN units, head : DOMAIN derived]),
     proofs : SUBSET Proofs, left : SUBSET DOMAIN derived, partial : SUBSET Proofs]

(* A proof has the options of its units, and the fact follows from them.   *)
Alone(p) == p \in Proofs /\ p.choices = UNION {units[i].branch : i \in p.units}
Stands(p, f) ==
    Alone(p) /\ Chains!Compatible(p.choices) /\ f \in Chains!Follows(units, initial, p.units)

(* A part of one has the rule's unit and proves the premises answered.     *)
Partly(p, i, left) ==
    /\ Alone(p) /\ i \in p.units
    /\ units[i].pre \ left \subseteq Chains!Follows(units, initial, p.units)

FrameInv(fr) ==
    /\ fr \in Frames
    /\ fr.rules \in Seq(RulesOf(fr.fact))
    /\ \A p \in fr.proofs : Stands(p, fr.fact)
    /\ fr.rules = <<>> => fr.left = {}
    /\ fr.rules # <<>> =>
          /\ fr.left \subseteq units[Head(fr.rules).unit].pre
          /\ \A p \in fr.partial : Partly(p, Head(fr.rules).unit, fr.left)

StackInv == stack \in Seq(Frames) /\ \A k \in DOMAIN stack : FrameInv(stack[k])
MemoInv == \A f \in DOMAIN memo : \A p \in memo[f] : Stands(p, f)
GoalInv ==
    goal \in Chains!Known \ initial =>
        goal \in DOMAIN memo \/ (stack # <<>> /\ stack[1].fact = goal)
BackwardInv ==
    /\ phase = "proving" => StackInv /\ MemoInv /\ GoalInv
    /\ phase # "proving" => memo = <<>>

(* What a report brings about has a rank, and what is being proved has one *)
(* below everything that waits for it: no proof is cut short.              *)
Promising(fr) ==
    /\ fr.fact \in Chains!Known \ initial
    /\ fr.rules = <<>> => fr.proofs # {}
    /\ fr.rules # <<>> => fr.partial # {}
ReportInv ==
    phase = "proving" /\ steps # <<>> =>
        /\ \A f \in DOMAIN memo : memo[f] # {}
        /\ \A k \in DOMAIN stack : Promising(stack[k])
        /\ \A j, k \in DOMAIN stack : j < k => Rank(stack[k].fact) < Rank(stack[j].fact)

LEMMA BackwardStays ==
    ASSUME units' = units, initial' = initial, derived' = derived, derivations' = derivations
    PROVE  /\ Chains!Known' = Chains!Known /\ Frames' = Frames
           /\ \A p, f : Stands(p, f)' <=> Stands(p, f)
           /\ \A fr : FrameInv(fr)' <=> FrameInv(fr)
           /\ \A fr : Promising(fr)' <=> Promising(fr)
<1>1. Chains!Known' = Chains!Known /\ Chains!Options' = Chains!Options
  BY DEF Chains!Known, Chains!Options
<1>2. Proofs' = Proofs
  BY <1>1 DEF Proofs
<1>3. Frames' = Frames
  BY <1>2 DEF Frames
<1>4. \A p : Alone(p)' <=> Alone(p)
  BY <1>2 DEF Alone
<1>5. \A p, f : Stands(p, f)' <=> Stands(p, f)
  BY <1>4 DEF Stands
<1>6. \A p, i, left : Partly(p, i, left)' <=> Partly(p, i, left)
  BY <1>4 DEF Partly
<1>7. \A f : RulesOf(f)' = RulesOf(f)
  BY <1>1 DEF RulesOf
<1>8. \A fr : FrameInv(fr)' <=> FrameInv(fr)
  BY <1>3, <1>5, <1>6, <1>7 DEF FrameInv
<1>9. \A fr : Promising(fr)' <=> Promising(fr)
  BY <1>1 DEF Promising
<1>10. QED
  BY <1>1, <1>3, <1>5, <1>8, <1>9

(* A call starts with the first rule alone.                                *)
LEMMA FrameStarts ==
    ASSUME TablesInv, NEW f \in DOMAIN derived, NEW rules \in Seq(RulesOf(f)),
           NEW proofs, \A p \in proofs : Stands(p, f)
    PROVE  FrameInv(Chains!Frame(f, rules, proofs))
<1> DEFINE fr == Chains!Frame(f, rules, proofs)
           r == Head(rules)
<1>1. /\ fr.fact = f /\ fr.rules = rules /\ fr.proofs = proofs
      /\ fr.left = IF rules = <<>> THEN {} ELSE units[r.unit].pre
      /\ fr.partial = IF rules = <<>> THEN {} ELSE {Chains!Leaf(r)}
      /\ fr = [fact |-> fr.fact, rules |-> fr.rules, proofs |-> fr.proofs,
               left |-> fr.left, partial |-> fr.partial]
  BY DEF Chains!Frame, Chains!Body
<1>2. rules # <<>> => r \in RulesOf(f)
  OBVIOUS
<1> HIDE DEF fr, r
<1>3. rules # <<>> => /\ r.unit \in DOMAIN units
                      /\ units[r.unit].pre \subseteq DOMAIN derived
                      /\ Partly(Chains!Leaf(r), r.unit, units[r.unit].pre)
  <2>1. SUFFICES ASSUME rules # <<>>
                 PROVE  /\ r.unit \in DOMAIN units
                        /\ units[r.unit].pre \subseteq DOMAIN derived
                        /\ Partly(Chains!Leaf(r), r.unit, units[r.unit].pre)
    OBVIOUS
  <2>2. r.unit \in DOMAIN units
    BY <1>2, <2>1 DEF RulesOf
  <2>3. units[r.unit].branch \subseteq Chains!Options
    BY <2>2 DEF Chains!Options
  <2>4. Chains!Leaf(r) \in Proofs
    BY <2>2, <2>3 DEF Chains!Leaf, Proofs
  <2>5. Chains!Leaf(r).units = {r.unit} /\ Chains!Leaf(r).choices = units[r.unit].branch
    BY DEF Chains!Leaf
  <2>6. UNION {units[i].branch : i \in {r.unit}} = units[r.unit].branch
    OBVIOUS
  <2>7. QED
    BY <2>2, <2>4, <2>5, <2>6 DEF TablesInv, Partly, Alone
<1> DEFINE A == [unit : DOMAIN units, head : DOMAIN derived]
<1>4. RulesOf(f) \subseteq A
  BY DEF RulesOf
<1>5. rules \in Seq(A)
  <2> HIDE DEF A
  <2>1. QED
    BY <1>4
<1>6. fr.partial \subseteq Proofs
  BY <1>1, <1>3 DEF Partly, Alone
<1>7. fr.proofs \subseteq Proofs
  BY <1>1 DEF Stands, Alone
<1>8. fr \in Frames
  <2>1. fr.left \subseteq DOMAIN derived
    BY <1>1, <1>3
  <2>2. [fact |-> fr.fact, rules |-> fr.rules, proofs |-> fr.proofs,
         left |-> fr.left, partial |-> fr.partial] \in Frames
    BY <1>1, <1>5, <1>6, <1>7, <2>1 DEF Frames
  <2>3. QED
    BY <1>1, <2>2
<1>9. FrameInv(fr)
  BY <1>1, <1>3, <1>8, r = Head(rules) DEF FrameInv, r
<1>10. QED
  BY <1>9 DEF fr

(* A part joined with a proof of a premise proves that premise as well.    *)
LEMMA JoinedPartly ==
    ASSUME NEW i, NEW left, NEW g, NEW ps, NEW qs,
           \A p \in ps : Partly(p, i, left), \A q \in qs : Stands(q, g)
    PROVE  \A p \in Chains!Joined(ps, qs) : Partly(p, i, left \ {g})
<1>1. SUFFICES ASSUME NEW p \in ps, NEW q \in qs
               PROVE  Partly([units |-> p.units \cup q.units, choices |-> p.choices \cup q.choices],
                             i, left \ {g})
  BY DEF Chains!Joined
<1> DEFINE x == [units |-> p.units \cup q.units, choices |-> p.choices \cup q.choices]
<1>2. /\ p \in Proofs /\ p.choices = UNION {units[j].branch : j \in p.units} /\ i \in p.units
      /\ units[i].pre \ left \subseteq Chains!Follows(units, initial, p.units)
  BY <1>1 DEF Partly, Alone
<1>3. /\ q \in Proofs /\ q.choices = UNION {units[j].branch : j \in q.units}
      /\ g \in Chains!Follows(units, initial, q.units)
  BY <1>1 DEF Stands, Alone
<1>4. x \in Proofs /\ x.units = p.units \cup q.units /\ x.choices = p.choices \cup q.choices
  BY <1>2, <1>3 DEF Proofs
<1> HIDE DEF x
<1>5. x.choices = UNION {units[j].branch : j \in x.units}
  BY <1>2, <1>3, <1>4
<1>6. /\ Chains!Follows(units, initial, p.units) \subseteq Chains!Follows(units, initial, x.units)
      /\ Chains!Follows(units, initial, q.units) \subseteq Chains!Follows(units, initial, x.units)
  BY <1>4, FollowsMonotone
<1>7. Partly(x, i, left \ {g})
  BY <1>2, <1>3, <1>4, <1>5, <1>6 DEF Partly, Alone
<1>8. QED
  BY <1>7 DEF x

LEMMA JoinedIsNotEmpty ==
    ASSUME NEW ps, NEW qs, ps # {}, qs # {}
    PROVE  Chains!Joined(ps, qs) # {}
<1> DEFINE J(x, y) == [units |-> x.units \cup y.units, choices |-> x.choices \cup y.choices]
           S == {J(x, y) : x \in ps, y \in qs}
<1>1. PICK p \in ps, q \in qs : TRUE
  OBVIOUS
<1>2. Chains!Joined(ps, qs) = S
  BY DEF Chains!Joined
<1> HIDE DEF J
<1>3. J(p, q) \in S
  OBVIOUS
<1> HIDE DEF S
<1>4. QED
  BY <1>2, <1>3

(* When its premises are proved, a part is a proof.                        *)
LEMMA PartlyStands ==
    ASSUME NEW f, NEW r \in RulesOf(f), NEW p, Partly(p, r.unit, {}), Chains!Compatible(p.choices)
    PROVE  Stands(p, f)
<1>1. f \in Chains!Effects(units[r.unit])
  BY DEF RulesOf
<1>2. units[r.unit].pre \subseteq Chains!Follows(units, initial, p.units) /\ r.unit \in p.units
  BY DEF Partly
<1>3. f \in Chains!Follows(units, initial, p.units)
  BY <1>1, <1>2, FollowsClosed DEF Chains!ClosedUnder
<1>4. QED
  BY <1>3 DEF Stands, Partly

-----------------------------------------------------------------------------
(* Attack chains: the steps of the backward proofs                         *)

LEMMA Replacing ==
    ASSUME NEW S, stack \in Seq(S), stack # <<>>, NEW fr \in S,
           stack' = [stack EXCEPT ![Len(stack)] = fr]
    PROVE  /\ stack' \in Seq(S) /\ Len(stack') = Len(stack) /\ DOMAIN stack' = DOMAIN stack
           /\ Len(stack) \in DOMAIN stack /\ stack'[Len(stack)] = fr /\ stack' # <<>>
           /\ \A k \in DOMAIN stack : k # Len(stack) => stack'[k] = stack[k]
  OBVIOUS

(* The call on top of the stack goes on, for the same fact.                *)
LEMMA TopGoesOn ==
    ASSUME StackInv, MemoInv, GoalInv, stack # <<>>,
           NEW fr, FrameInv(fr), fr.fact = Chains!Top.fact,
           stack' = [stack EXCEPT ![Len(stack)] = fr], memo' = memo, goal' = goal,
           units' = units, initial' = initial, derived' = derived, derivations' = derivations
    PROVE  StackInv' /\ MemoInv' /\ GoalInv'
<1>1. stack \in Seq(Frames) /\ fr \in Frames
  BY DEF StackInv, FrameInv
<1>2. /\ stack' \in Seq(Frames) /\ Len(stack') = Len(stack) /\ DOMAIN stack' = DOMAIN stack
      /\ Len(stack) \in DOMAIN stack /\ stack'[Len(stack)] = fr /\ stack' # <<>>
      /\ \A k \in DOMAIN stack : k # Len(stack) => stack'[k] = stack[k]
  BY <1>1, Replacing
<1>3. StackInv'
  <2>1. \A k \in DOMAIN stack' : FrameInv(stack'[k])
    BY <1>2 DEF StackInv
  <2>2. ASSUME NEW k \in DOMAIN stack'
        PROVE  FrameInv(stack[k])'
    <3>1. PICK x : x = stack'[k]
      OBVIOUS
    <3>2. FrameInv(x)'
      BY <2>1, <3>1, BackwardStays
    <3>3. QED
      BY <3>1, <3>2
  <2>3. Frames' = Frames
    BY BackwardStays
  <2>4. QED
    BY <1>2, <2>2, <2>3 DEF StackInv
<1>4. MemoInv'
  BY BackwardStays DEF MemoInv
<1>5. GoalInv'
  <2>1. Chains!Known' = Chains!Known
    BY BackwardStays
  <2>2. stack'[1].fact = stack[1].fact
    <3>1. 1 \in DOMAIN stack
      BY <1>1
    <3>2. QED
      BY <1>2, <3>1 DEF Chains!Top
  <2>3. QED
    BY <1>2, <2>1, <2>2 DEF GoalInv
<1>6. QED
  BY <1>3, <1>4, <1>5

LEMMA ResolveFrame ==
    ASSUME UnitsInv, ChainingInv, StackInv, MemoInv, stack # <<>>, NEW f, Chains!Resolve(f)
    PROVE  \E fr : /\ FrameInv(fr) /\ fr.fact = Chains!Top.fact
                   /\ fr.rules = Chains!Top.rules /\ fr.proofs = Chains!Top.proofs
                   /\ fr.partial = Chains!Joined(Chains!Top.partial, Chains!Answer(f))
                   /\ stack' = [stack EXCEPT ![Len(stack)] = fr]
<1> DEFINE fr == [Chains!Top EXCEPT !.left = @ \ {f},
                             !.partial = Chains!Joined(@, Chains!Answer(f))]
<1>1. Len(stack) \in DOMAIN stack
  BY DEF StackInv
<1>2. FrameInv(Chains!Top) /\ Chains!Top \in Frames
  BY <1>1 DEF StackInv, Chains!Top, FrameInv
<1>3. f \in Chains!Top.left /\ Chains!Answered(f)
  BY DEF Chains!Resolve
<1>4. Chains!Top.rules # <<>>
  BY <1>2, <1>3 DEF FrameInv
<1> DEFINE r == Head(Chains!Top.rules)
<1>5. \A q \in Chains!Answer(f) : Stands(q, f)
  <2>1. CASE f \in initial
    <3>1. f \in Chains!Follows(units, initial, {})
      BY <2>1, FollowsContains
    <3>2. Stands(Chains!Axiom, f)
      BY <3>1 DEF Chains!Axiom, Stands, Alone, Proofs, Chains!Compatible
    <3>3. QED
      BY <2>1, <3>2 DEF Chains!Answer
  <2>2. CASE f \notin initial
    BY <1>3, <2>2 DEF Chains!Answer, Chains!Answered, MemoInv
  <2>3. QED
    BY <2>1, <2>2
<1>6. /\ Chains!Top.left \subseteq units[r.unit].pre
      /\ \A p \in Chains!Top.partial : Partly(p, r.unit, Chains!Top.left)
  BY <1>2, <1>4 DEF FrameInv
<1>7. \A p \in Chains!Joined(Chains!Top.partial, Chains!Answer(f)) :
          Partly(p, r.unit, Chains!Top.left \ {f})
  BY <1>5, <1>6, JoinedPartly
<1>8. /\ fr.fact = Chains!Top.fact /\ fr.rules = Chains!Top.rules /\ fr.proofs = Chains!Top.proofs
      /\ fr.left = Chains!Top.left \ {f}
      /\ fr.partial = Chains!Joined(Chains!Top.partial, Chains!Answer(f))
  BY <1>2 DEF Frames
<1>9. fr \in Frames
  <2>1. Chains!Joined(Chains!Top.partial, Chains!Answer(f)) \subseteq Proofs
    BY <1>7 DEF Partly, Alone
  <2>2. QED
    BY <1>2, <2>1 DEF Frames
<1> HIDE DEF fr
<1>10. FrameInv(fr)
  BY <1>2, <1>4, <1>6, <1>7, <1>8, <1>9 DEF FrameInv
<1>11. stack' = [stack EXCEPT ![Len(stack)] = fr]
  BY DEF Chains!Resolve, fr
<1>12. QED
  BY <1>8, <1>10, <1>11 DEF fr

(* The proofs a call has found when it has tried another rule.             *)
Found == Chains!Top.proofs \cup {p \in Chains!Top.partial : Chains!Compatible(p.choices)}

LEMMA FinishFrame ==
    ASSUME UnitsInv, ChainingInv, StackInv, stack # <<>>, Chains!FinishRule
    PROVE  \E fr : /\ FrameInv(fr) /\ fr.fact = Chains!Top.fact
                   /\ fr = Chains!Frame(Chains!Top.fact, Tail(Chains!Top.rules), Found)
                   /\ stack' = [stack EXCEPT ![Len(stack)] = fr]
<1> DEFINE fr == Chains!Frame(Chains!Top.fact, Tail(Chains!Top.rules), Found)
<1>1. Len(stack) \in DOMAIN stack
  BY DEF StackInv
<1>2. FrameInv(Chains!Top)
  BY <1>1 DEF StackInv, Chains!Top
<1>3. /\ Chains!Top.rules # <<>> /\ Chains!Top.left = {}
      /\ Chains!Top.rules \in Seq(RulesOf(Chains!Top.fact))
  BY <1>2 DEF Chains!FinishRule, FrameInv
<1>4. /\ Head(Chains!Top.rules) \in RulesOf(Chains!Top.fact)
      /\ Tail(Chains!Top.rules) \in Seq(RulesOf(Chains!Top.fact))
  BY <1>3, HeadTailProperties
<1>5. \A p \in Found : Stands(p, Chains!Top.fact)
  BY <1>2, <1>3, <1>4, PartlyStands DEF FrameInv, Found
<1>6. Chains!Top.fact \in DOMAIN derived
  BY <1>2 DEF FrameInv, Frames
<1>7. FrameInv(fr)
  BY <1>4, <1>5, <1>6, FrameStarts DEF ChainingInv
<1>8. fr.fact = Chains!Top.fact
  BY DEF Chains!Frame
<1>9. stack' = [stack EXCEPT ![Len(stack)] = fr]
  BY DEF Chains!FinishRule, Found
<1>10. QED
  BY <1>7, <1>8, <1>9

(* A premise without an answer is proved by a call of its own.             *)
LEMMA CallStep ==
    ASSUME UnitsInv, ChainingInv, StackInv, MemoInv, GoalInv, stack # <<>>, NEW f, Chains!Call(f),
           goal' = goal, units' = units, initial' = initial, derived' = derived,
           derivations' = derivations
    PROVE  StackInv' /\ MemoInv' /\ GoalInv'
<1>1. /\ stack' = Append(stack, Chains!Frame(f, derivations[f], {}))
      /\ memo' = memo /\ f \in Chains!Top.left
  BY DEF Chains!Call
<1>2. Len(stack) \in DOMAIN stack /\ stack \in Seq(Frames)
  BY DEF StackInv
<1>3. FrameInv(Chains!Top)
  BY <1>2 DEF StackInv, Chains!Top
<1>4. f \in DOMAIN derived
  BY <1>1, <1>3 DEF FrameInv, Frames
<1>5. derivations[f] \in Seq(RulesOf(f))
  BY <1>4 DEF ChainingInv, RulesInv
<1>6. PICK fr : fr = Chains!Frame(f, derivations[f], {})
  OBVIOUS
<1>7. FrameInv(fr)
  BY <1>4, <1>5, <1>6, FrameStarts DEF ChainingInv
<1>8. fr \in Frames
  BY <1>7 DEF FrameInv
<1>9. /\ stack' \in Seq(Frames) /\ DOMAIN stack' = DOMAIN stack \cup {Len(stack) + 1}
      /\ stack'[Len(stack) + 1] = fr /\ \A k \in DOMAIN stack : stack'[k] = stack[k]
      /\ stack' # <<>> /\ 1 \in DOMAIN stack
  BY <1>1, <1>2, <1>6, <1>8
<1>10. StackInv'
  <2>1. \A k \in DOMAIN stack' : FrameInv(stack'[k])
    BY <1>7, <1>9 DEF StackInv
  <2>2. ASSUME NEW k \in DOMAIN stack'
        PROVE  FrameInv(stack[k])'
    <3>1. PICK x : x = stack'[k]
      OBVIOUS
    <3>2. FrameInv(x)'
      BY <2>1, <3>1, BackwardStays
    <3>3. QED
      BY <3>1, <3>2
  <2>3. Frames' = Frames
    BY BackwardStays
  <2>4. QED
    BY <1>9, <2>2, <2>3 DEF StackInv
<1>11. MemoInv'
  BY <1>1, BackwardStays DEF MemoInv
<1>12. GoalInv'
  BY <1>1, <1>9, BackwardStays DEF GoalInv
<1>13. QED
  BY <1>10, <1>11, <1>12

LEMMA Popped ==
    ASSUME NEW S, stack \in Seq(S), stack # <<>>, stack' = SubSeq(stack, 1, Len(stack) - 1)
    PROVE  /\ stack' \in Seq(S) /\ Len(stack') = Len(stack) - 1
           /\ DOMAIN stack' = 1..(Len(stack) - 1)
           /\ \A k \in DOMAIN stack' : k \in DOMAIN stack /\ stack'[k] = stack[k]
<1>1. Len(stack) \in Nat /\ Len(stack) >= 1 /\ DOMAIN stack = 1..Len(stack)
  OBVIOUS
<1>2. \A k \in 1..(Len(stack) - 1) : stack[k] \in S
  BY <1>1
<1>3. QED
  BY <1>1, <1>2, SubSeqProperties

(* A call that returns leaves its proofs in the memo.                      *)
LEMMA ReturnStep ==
    ASSUME StackInv, MemoInv, GoalInv, stack # <<>>, Chains!Return,
           goal' = goal, units' = units, initial' = initial, derived' = derived,
           derivations' = derivations
    PROVE  StackInv' /\ MemoInv' /\ GoalInv'
<1>1. /\ memo' = [f \in DOMAIN memo \cup {Chains!Top.fact} |->
                     IF f = Chains!Top.fact THEN Chains!Top.proofs ELSE memo[f]]
      /\ stack' = SubSeq(stack, 1, Len(stack) - 1)
  BY DEF Chains!Return
<1>2. Len(stack) \in DOMAIN stack /\ stack \in Seq(Frames) /\ 1 \in DOMAIN stack
  BY DEF StackInv
<1>3. FrameInv(Chains!Top)
  BY <1>2 DEF StackInv, Chains!Top
<1>4. /\ stack' \in Seq(Frames) /\ Len(stack') = Len(stack) - 1
      /\ DOMAIN stack' = 1..(Len(stack) - 1)
      /\ \A k \in DOMAIN stack' : k \in DOMAIN stack /\ stack'[k] = stack[k]
  BY <1>1, <1>2, Popped
<1>5. StackInv'
  <2>1. ASSUME NEW k \in DOMAIN stack'
        PROVE  FrameInv(stack[k])'
    <3>1. PICK x : x = stack'[k]
      OBVIOUS
    <3>2. FrameInv(x)
      BY <1>4, <3>1 DEF StackInv
    <3>3. FrameInv(x)'
      BY <3>2, BackwardStays
    <3>4. QED
      BY <3>1, <3>3
  <2>2. Frames' = Frames
    BY BackwardStays
  <2>3. QED
    BY <1>4, <2>1, <2>2 DEF StackInv
<1>6. MemoInv'
  <2>1. ASSUME NEW f \in DOMAIN memo', NEW p \in memo'[f]
        PROVE  Stands(p, f)'
    <3>1. Stands(p, f)
      BY <1>1, <1>3, <2>1 DEF MemoInv, FrameInv
    <3>2. QED
      BY <3>1, BackwardStays
  <2>2. QED
    BY <2>1 DEF MemoInv
<1>7. GoalInv'
  <2>1. SUFFICES ASSUME goal \in Chains!Known \ initial, goal \notin DOMAIN memo'
                 PROVE  stack' # <<>> /\ stack'[1].fact = goal
    BY BackwardStays DEF GoalInv
  <2>2. stack[1].fact = goal /\ Chains!Top.fact # goal
    BY <1>1, <2>1 DEF GoalInv
  <2>3. Len(stack) # 1
    BY <2>2 DEF Chains!Top
  <2>4. 1 \in DOMAIN stack'
    BY <1>2, <1>4, <2>3
  <2>5. stack'[1] = stack[1] /\ stack' # <<>>
    BY <1>4, <2>4
  <2>6. QED
    BY <2>2, <2>5
<1>8. QED
  BY <1>5, <1>6, <1>7

LEMMA ProveStep ==
    ASSUME ForwardInv, BackwardInv, Chains!Prove
    PROVE  BackwardInv'
<1>1. /\ phase = "proving" /\ phase' = phase /\ stack # <<>>
      /\ goal' = goal /\ units' = units /\ initial' = initial
      /\ derived' = derived /\ derivations' = derivations
  BY DEF Chains!Prove, Chains!input, Chains!forward
<1>2. UnitsInv /\ ChainingInv /\ StackInv /\ MemoInv /\ GoalInv
  BY <1>1 DEF ForwardInv, BackwardInv
<1>3. SUFFICES StackInv' /\ MemoInv' /\ GoalInv'
  BY <1>1 DEF BackwardInv
<1>4. ASSUME NEW f, Chains!Resolve(f)
      PROVE  StackInv' /\ MemoInv' /\ GoalInv'
  <2>1. memo' = memo
    BY <1>4 DEF Chains!Resolve
  <2>2. PICK fr : /\ FrameInv(fr) /\ fr.fact = Chains!Top.fact
                  /\ stack' = [stack EXCEPT ![Len(stack)] = fr]
    BY <1>1, <1>2, <1>4, ResolveFrame
  <2>3. QED
    BY <1>1, <1>2, <2>1, <2>2, TopGoesOn
<1>5. ASSUME NEW f, Chains!Call(f)
      PROVE  StackInv' /\ MemoInv' /\ GoalInv'
  BY <1>1, <1>2, <1>5, CallStep
<1>6. CASE Chains!FinishRule
  <2>1. memo' = memo
    BY <1>6 DEF Chains!FinishRule
  <2>2. PICK fr : /\ FrameInv(fr) /\ fr.fact = Chains!Top.fact
                  /\ stack' = [stack EXCEPT ![Len(stack)] = fr]
    BY <1>1, <1>2, <1>6, FinishFrame
  <2>3. QED
    BY <1>1, <1>2, <2>1, <2>2, TopGoesOn
<1>7. CASE Chains!Return
  BY <1>1, <1>2, <1>7, ReturnStep
<1>8. QED
  BY <1>4, <1>5, <1>6, <1>7 DEF Chains!Prove

(* The last pass starts the proofs of a goal that is known.                *)
LEMMA ProvingStarts ==
    ASSUME ForwardInv, BackwardInv, Chains!EndPass
    PROVE  BackwardInv'
<1>1. /\ phase = "chaining" /\ memo' = memo /\ goal' = goal /\ units' = units /\ initial' = initial
      /\ derived' = derived /\ derivations' = derivations
  BY DEF Chains!EndPass, Chains!input
<1>2. memo' = <<>>
  BY <1>1 DEF BackwardInv
<1>3. CASE phase' # "proving"
  BY <1>2, <1>3 DEF BackwardInv
<1>4. CASE phase' = "proving"
  <2>1. stack' = IF goal \in Chains!Known \ initial
                 THEN <<Chains!Frame(goal, derivations[goal], {})>> ELSE <<>>
    BY <1>1, <1>4 DEF Chains!EndPass
  <2>2. TablesInv /\ RulesInv
    BY <1>1 DEF ForwardInv, ChainingInv
  <2>3. MemoInv'
    BY <1>2 DEF MemoInv
  <2>4. CASE goal \in Chains!Known \ initial
    <3>1. PICK fr : fr = Chains!Frame(goal, derivations[goal], {})
      OBVIOUS
    <3>2. goal \in DOMAIN derived
      BY <2>4 DEF Chains!Known
    <3>3. FrameInv(fr)
      BY <2>2, <3>1, <3>2, FrameStarts DEF RulesInv
    <3>4. FrameInv(fr)' /\ fr \in Frames'
      BY <1>1, <3>3, BackwardStays DEF FrameInv
    <3>5. stack' = <<fr>>
      BY <2>1, <2>4, <3>1
    <3>6. StackInv'
      BY <3>4, <3>5 DEF StackInv
    <3>7. fr.fact = goal
      BY <3>1 DEF Chains!Frame
    <3>8. GoalInv'
      BY <1>1, <3>5, <3>7 DEF GoalInv
    <3>9. QED
      BY <1>4, <2>3, <3>6, <3>8 DEF BackwardInv
  <2>5. CASE goal \notin Chains!Known \ initial
    <3>1. stack' = <<>>
      BY <2>1, <2>5
    <3>2. StackInv'
      BY <3>1 DEF StackInv
    <3>3. GoalInv'
      BY <1>1, <2>5, BackwardStays DEF GoalInv
    <3>4. QED
      BY <1>4, <2>3, <3>2, <3>3 DEF BackwardInv
  <2>6. QED
    BY <2>4, <2>5
<1>5. QED
  BY <1>3, <1>4

(* Nothing is proved or remembered before.                                 *)
LEMMA NothingProvedYet ==
    ASSUME BackwardInv, Chains!Next, ~Chains!EndPass, ~Chains!Prove
    PROVE  phase' # "proving" /\ memo' = <<>>
<1>1. ASSUME NEW us, NEW facts, NEW g, Chains!Start(us, facts, g)
      PROVE  phase' # "proving" /\ memo' = <<>>
  BY <1>1 DEF Chains!Start
<1>2. ASSUME phase # "proving", phase' = phase, memo' = memo
      PROVE  phase' # "proving" /\ memo' = <<>>
  BY <1>2 DEF BackwardInv
<1>3. ASSUME NEW u \in Universe, Chains!Supply(u)
      PROVE  phase' # "proving" /\ memo' = <<>>
  BY <1>2, <1>3 DEF Chains!Supply, Chains!backward
<1>4. ASSUME NEW b \in Behaviours, Chains!Recognise(b)
      PROVE  phase' # "proving" /\ memo' = <<>>
  BY <1>2, <1>4 DEF Chains!Recognise, Chains!backward
<1>5. ASSUME NEW facts, NEW g, Chains!Analyze(facts, g)
      PROVE  phase' # "proving" /\ memo' = <<>>
  BY <1>1, <1>5 DEF Chains!Analyze
<1>6. ASSUME NEW facts, NEW g, Chains!ReasonAgain(facts, g)
      PROVE  phase' # "proving" /\ memo' = <<>>
  BY <1>1, <1>6 DEF Chains!ReasonAgain
<1>7. CASE Chains!FireRule
  BY <1>2, <1>7 DEF Chains!FireRule, Chains!backward
<1>8. QED
  BY <1>3, <1>4, <1>5, <1>6, <1>7 DEF Chains!Next

LEMMA BackwardStart ==
    ASSUME Chains!Init
    PROVE  BackwardInv /\ ReportInv
  BY DEF Chains!Init, BackwardInv, ReportInv

LEMMA BackwardStep ==
    ASSUME ForwardInv, BackwardInv, Chains!Next \/ UNCHANGED Chains!vars
    PROVE  BackwardInv'
<1>1. CASE Chains!EndPass
  BY <1>1, ProvingStarts
<1>2. CASE Chains!Prove
  BY <1>2, ProveStep
<1>3. CASE Chains!Next /\ ~Chains!EndPass /\ ~Chains!Prove
  BY <1>3, NothingProvedYet DEF BackwardInv
<1>4. CASE UNCHANGED Chains!vars
  <2>1. /\ phase' = phase /\ goal' = goal /\ units' = units /\ initial' = initial
        /\ derived' = derived /\ derivations' = derivations /\ stack' = stack /\ memo' = memo
    BY <1>4 DEF Chains!vars, Chains!input, Chains!forward, Chains!backward
  <2>2. StackInv => StackInv'
    BY <2>1, BackwardStays DEF StackInv
  <2>3. MemoInv => MemoInv'
    BY <2>1, BackwardStays DEF MemoInv
  <2>4. GoalInv => GoalInv'
    BY <2>1, BackwardStays DEF GoalInv
  <2>5. QED
    BY <2>1, <2>2, <2>3, <2>4 DEF BackwardInv
<1>5. QED
  BY <1>1, <1>2, <1>3, <1>4

LEMMA AloneWhenReasoned ==
    ASSUME ForwardInv, BackwardInv, Chains!Reasoned, NEW p \in Chains!Paths
    PROVE  /\ p.choices = UNION {units[i].branch : i \in p.units}
           /\ \A m, n \in p.choices : m.group = n.group => m = n
           /\ goal \in Chains!Follows(units, initial, p.units)
<1>1. phase = "proving" /\ stack = <<>> /\ goal \in Chains!Known
  BY DEF Chains!Reasoned, Chains!Paths
<1>2. CASE goal \in initial
  <2>1. p = Chains!Axiom
    BY <1>1, <1>2 DEF Chains!Paths
  <2>2. goal \in Chains!Follows(units, initial, {})
    BY <1>2, FollowsContains
  <2>3. QED
    BY <2>1, <2>2 DEF Chains!Axiom
<1>3. CASE goal \notin initial
  <2>1. goal \in DOMAIN memo /\ p \in memo[goal]
    BY <1>1, <1>3 DEF Chains!Paths, BackwardInv, GoalInv
  <2>2. Stands(p, goal)
    BY <1>1, <2>1 DEF BackwardInv, MemoInv
  <2>3. QED
    BY <2>2 DEF Stands, Alone, Chains!Compatible
<1>4. QED
  BY <1>2, <1>3

-----------------------------------------------------------------------------
(* Attack chains: a report's derived goal has a path                       *)

LEMMA RankIsNumber ==
    ASSUME NEW f
    PROVE  Rank(f) \in Nat
  BY DEF Rank

(* A report has no branches, so everything is compatible.                  *)
LEMMA ReportHasNoBranches ==
    ASSUME ForwardInv, phase = "proving", steps # <<>>
    PROVE  Chains!Options = {} /\ \A p \in Proofs : Chains!Compatible(p.choices)
<1>1. units = Chains!UnitsOf(steps)
  BY DEF ForwardInv, UnitsInv
<1>2. \A i \in DOMAIN units : units[i].branch = {}
  BY <1>1 DEF Chains!UnitsOf
<1>3. Chains!Options = {}
  BY <1>2 DEF Chains!Options
<1>4. QED
  BY <1>3 DEF Proofs, Chains!Compatible

LEMMA RuleDescends ==
    ASSUME ForwardInv, phase = "proving", steps # <<>>, NEW f, NEW r \in RulesOf(f),
           NEW g \in units[r.unit].pre
    PROVE  Rank(g) < Rank(f) /\ g \in Chains!Known
<1>1. units = Chains!UnitsOf(steps) /\ steps \in Seq(Behaviours)
  BY DEF ForwardInv, UnitsInv
<1>2. r.unit \in DOMAIN steps /\ f \in Chains!Effects(units[r.unit]) /\ g \in Chains!Known
  BY <1>1 DEF RulesOf, Chains!UnitsOf
<1>3. QED
  BY <1>1, <1>2, ReportDescends

(* A call for a known fact that is not initial has a rule to try.          *)
LEMMA FramePromises ==
    ASSUME ForwardInv, phase = "proving" \/ phase = "chaining", NEW f \in Chains!Known \ initial
    PROVE  Promising(Chains!Frame(f, derivations[f], {}))
<1>1. derivations[f] # <<>>
  BY DEF ForwardInv, ChainingInv, RulesInv
<1>2. QED
  BY <1>1 DEF Promising, Chains!Frame

LEMMA ReportResolves ==
    ASSUME ForwardInv, BackwardInv, ReportInv, phase = "proving", steps # <<>>, stack # <<>>,
           NEW f, Chains!Resolve(f)
    PROVE  Chains!Answer(f) # {} /\ Chains!Top.partial # {} /\ Chains!Top.rules # <<>>
<1>1. Len(stack) \in DOMAIN stack /\ DOMAIN stack = 1..Len(stack) /\ Len(stack) \in Nat
  BY DEF BackwardInv, StackInv
<1>2. FrameInv(Chains!Top) /\ Promising(Chains!Top)
  BY <1>1 DEF BackwardInv, StackInv, Chains!Top, ReportInv
<1>3. f \in Chains!Top.left /\ Chains!Answered(f)
  BY DEF Chains!Resolve
<1>4. Chains!Top.rules # <<>> /\ Chains!Top.partial # {}
  BY <1>2, <1>3 DEF FrameInv, Promising
<1>5. /\ Head(Chains!Top.rules) \in RulesOf(Chains!Top.fact)
      /\ f \in units[Head(Chains!Top.rules).unit].pre
  BY <1>2, <1>3, <1>4, HeadTailProperties DEF FrameInv
<1>6. Rank(f) < Rank(Chains!Top.fact)
  BY <1>5, RuleDescends
<1>7. ASSUME NEW k \in DOMAIN stack, stack[k].fact = f
      PROVE  FALSE
  <2>1. k = Len(stack) \/ k < Len(stack)
    BY <1>1
  <2>2. CASE k = Len(stack)
    BY <1>6, <1>7, <2>2, RankIsNumber DEF Chains!Top
  <2>3. CASE k < Len(stack)
    <3>1. Rank(Chains!Top.fact) < Rank(f)
      BY <1>1, <1>7, <2>3 DEF ReportInv, Chains!Top
    <3>2. QED
      BY <1>6, <3>1, RankIsNumber
  <2>4. QED
    BY <2>1, <2>2, <2>3
<1>8. ~Chains!OnStack(f)
  BY <1>7 DEF Chains!OnStack
<1>9. Chains!Answer(f) # {}
  BY <1>3, <1>8 DEF Chains!Answer, Chains!Answered, ReportInv
<1>10. QED
  BY <1>4, <1>9

LEMMA ReportStep ==
    ASSUME ForwardInv, BackwardInv, ReportInv, Chains!Next \/ UNCHANGED Chains!vars
    PROVE  ReportInv'
<1>1. SUFFICES ASSUME phase' = "proving", steps' # <<>>
               PROVE  /\ \A f \in DOMAIN memo' : memo'[f] # {}
                      /\ \A k \in DOMAIN stack' : Promising(stack[k])'
                      /\ \A j, k \in DOMAIN stack' :
                            j < k => Rank(stack'[k].fact) < Rank(stack'[j].fact)
  BY DEF ReportInv
<1>2. CASE UNCHANGED Chains!vars
  <2>1. /\ phase' = phase /\ steps' = steps /\ units' = units /\ initial' = initial
        /\ derived' = derived /\ derivations' = derivations /\ stack' = stack /\ memo' = memo
    BY <1>2 DEF Chains!vars, Chains!input, Chains!forward, Chains!backward
  <2>2. QED
    BY <1>1, <2>1, BackwardStays DEF ReportInv
<1>3. CASE Chains!EndPass
  <2>1. /\ phase = "chaining" /\ memo' = memo /\ units' = units /\ initial' = initial
        /\ derived' = derived /\ derivations' = derivations
        /\ stack' = IF goal \in Chains!Known \ initial
                    THEN <<Chains!Frame(goal, derivations[goal], {})>> ELSE <<>>
    BY <1>1, <1>3 DEF Chains!EndPass, Chains!input
  <2>2. memo' = <<>>
    BY <2>1 DEF BackwardInv
  <2>3. CASE goal \in Chains!Known \ initial
    <3>1. PICK fr : fr = Chains!Frame(goal, derivations[goal], {})
      OBVIOUS
    <3>2. Promising(fr)
      BY <2>1, <2>3, <3>1, FramePromises
    <3>3. Promising(fr)'
      BY <2>1, <3>2, BackwardStays
    <3>4. stack' = <<fr>>
      BY <2>1, <2>3, <3>1
    <3>5. DOMAIN stack' = {1} /\ stack'[1] = fr
      BY <3>4
    <3>6. \A k \in DOMAIN stack' : Promising(stack[k])'
      BY <3>3, <3>5
    <3>7. QED
      BY <2>2, <3>5, <3>6
  <2>4. CASE goal \notin Chains!Known \ initial
    BY <2>1, <2>2, <2>4
  <2>5. QED
    BY <2>3, <2>4
<1>4. CASE Chains!Prove
  <2>1. /\ phase = "proving" /\ steps # <<>> /\ stack # <<>>
        /\ units' = units /\ initial' = initial /\ derived' = derived /\ derivations' = derivations
    BY <1>1, <1>4 DEF Chains!Prove, Chains!input, Chains!forward
  <2>2. StackInv
    BY <2>1 DEF BackwardInv
  <2>3. /\ stack \in Seq(Frames) /\ Len(stack) \in DOMAIN stack
        /\ DOMAIN stack = 1..Len(stack) /\ Len(stack) \in Nat
    BY <2>1, <2>2 DEF StackInv
  <2>4. /\ \A f \in DOMAIN memo : memo[f] # {}
        /\ \A k \in DOMAIN stack : Promising(stack[k])
        /\ \A j, k \in DOMAIN stack : j < k => Rank(stack[k].fact) < Rank(stack[j].fact)
    BY <2>1 DEF ReportInv
  <2>5. FrameInv(Chains!Top) /\ Promising(Chains!Top)
    BY <2>2, <2>3, <2>4 DEF StackInv, Chains!Top
  <2>6. UnitsInv /\ ChainingInv /\ MemoInv
    BY <2>1 DEF ForwardInv, BackwardInv
  <2>7. ASSUME NEW fr, Promising(fr), fr.fact = Chains!Top.fact, FrameInv(fr), memo' = memo,
               stack' = [stack EXCEPT ![Len(stack)] = fr]
        PROVE  ReportInv'
    <3>1. fr \in Frames
      BY <2>7 DEF FrameInv
    <3>2. /\ DOMAIN stack' = DOMAIN stack /\ stack'[Len(stack)] = fr
          /\ \A k \in DOMAIN stack : k # Len(stack) => stack'[k] = stack[k]
      BY <2>1, <2>3, <2>7, <3>1, Replacing
    <3>3. \A k \in DOMAIN stack : stack'[k].fact = stack[k].fact
      BY <2>7, <3>2 DEF Chains!Top
    <3>4. ASSUME NEW k \in DOMAIN stack'
          PROVE  Promising(stack[k])'
      <4>1. PICK x : x = stack'[k]
        OBVIOUS
      <4>2. Promising(x)
        BY <2>4, <2>7, <3>2, <4>1
      <4>3. Promising(x)'
        BY <2>1, <4>2, BackwardStays
      <4>4. QED
        BY <4>1, <4>3
    <3>5. QED
      BY <2>4, <2>7, <3>2, <3>3, <3>4 DEF ReportInv
  <2>8. ASSUME NEW f, Chains!Resolve(f)
        PROVE  ReportInv'
    <3>1. PICK fr : /\ FrameInv(fr) /\ fr.fact = Chains!Top.fact /\ fr.rules = Chains!Top.rules
                    /\ fr.partial = Chains!Joined(Chains!Top.partial, Chains!Answer(f))
                    /\ stack' = [stack EXCEPT ![Len(stack)] = fr]
      BY <2>1, <2>2, <2>6, <2>8, ResolveFrame
    <3>2. Chains!Answer(f) # {} /\ Chains!Top.partial # {} /\ Chains!Top.rules # <<>>
      BY <2>1, <2>8, ReportResolves
    <3>3. fr.partial # {}
      BY <3>1, <3>2, JoinedIsNotEmpty
    <3>4. Promising(fr)
      BY <2>5, <3>1, <3>2, <3>3 DEF Promising
    <3>5. memo' = memo
      BY <2>8 DEF Chains!Resolve
    <3>6. QED
      BY <2>7, <3>1, <3>4, <3>5
  <2>9. ASSUME Chains!FinishRule
        PROVE  ReportInv'
    <3>1. PICK fr : /\ FrameInv(fr) /\ fr.fact = Chains!Top.fact
                    /\ fr = Chains!Frame(Chains!Top.fact, Tail(Chains!Top.rules), Found)
                    /\ stack' = [stack EXCEPT ![Len(stack)] = fr]
      BY <2>1, <2>2, <2>6, <2>9, FinishFrame
    <3>2. Chains!Top.rules # <<>> /\ memo' = memo
      BY <2>9 DEF Chains!FinishRule
    <3>3. Chains!Top.partial # {} /\ Chains!Top.partial \subseteq Proofs
      BY <2>5, <3>2 DEF Promising, FrameInv, Frames
    <3>4. Found # {}
      BY <2>1, <3>3, ReportHasNoBranches DEF Found
    <3>5. Promising(fr)
      BY <2>5, <3>1, <3>4 DEF Promising, Chains!Frame
    <3>6. /\ FrameInv(fr) /\ fr.fact = Chains!Top.fact /\ memo' = memo
          /\ stack' = [stack EXCEPT ![Len(stack)] = fr]
      BY <3>1, <3>2
    <3>7. QED
      BY <2>7, <3>5, <3>6
  <2>10. ASSUME NEW f, Chains!Call(f)
         PROVE  ReportInv'
    <3>1. /\ f \in Chains!Top.left /\ f \notin initial /\ memo' = memo
          /\ stack' = Append(stack, Chains!Frame(f, derivations[f], {}))
      BY <2>10 DEF Chains!Call, Chains!Answered
    <3>2. Chains!Top.rules # <<>>
      BY <2>5, <3>1 DEF FrameInv
    <3>3. /\ Head(Chains!Top.rules) \in RulesOf(Chains!Top.fact)
          /\ f \in units[Head(Chains!Top.rules).unit].pre
      BY <2>5, <3>1, <3>2, HeadTailProperties DEF FrameInv
    <3>4. Rank(f) < Rank(Chains!Top.fact) /\ f \in Chains!Known
      BY <2>1, <3>3, RuleDescends
    <3>5. PICK fr : fr = Chains!Frame(f, derivations[f], {})
      OBVIOUS
    <3>6. Promising(fr) /\ fr.fact = f
      <4>1. fr.fact = f
        BY <3>5 DEF Chains!Frame
      <4>2. QED
        BY <2>1, <3>1, <3>4, <3>5, <4>1, FramePromises
    <3>7. /\ DOMAIN stack' = DOMAIN stack \cup {Len(stack) + 1}
          /\ stack'[Len(stack) + 1] = fr /\ \A k \in DOMAIN stack : stack'[k] = stack[k]
      BY <2>3, <3>1, <3>5
    <3>8. ASSUME NEW k \in DOMAIN stack'
          PROVE  Promising(stack[k])'
      <4>1. PICK x : x = stack'[k]
        OBVIOUS
      <4>2. Promising(x)
        BY <2>4, <3>6, <3>7, <4>1
      <4>3. Promising(x)'
        BY <2>1, <4>2, BackwardStays
      <4>4. QED
        BY <4>1, <4>3
    <3>9. ASSUME NEW j \in DOMAIN stack', NEW k \in DOMAIN stack', j < k
          PROVE  Rank(stack'[k].fact) < Rank(stack'[j].fact)
      <4>1. CASE k \in DOMAIN stack
        <5>1. j \in DOMAIN stack
          BY <2>3, <3>7, <3>9, <4>1
        <5>2. QED
          BY <2>4, <3>7, <3>9, <4>1, <5>1
      <4>2. CASE k = Len(stack) + 1
        <5>1. j \in DOMAIN stack /\ stack'[j] = stack[j] /\ stack'[k].fact = f
          BY <2>3, <3>6, <3>7, <3>9, <4>2
        <5>2. CASE j = Len(stack)
          BY <3>4, <5>1, <5>2 DEF Chains!Top
        <5>3. CASE j < Len(stack)
          <6>1. Rank(Chains!Top.fact) < Rank(stack[j].fact)
            BY <2>3, <2>4, <5>1, <5>3 DEF Chains!Top
          <6>2. QED
            BY <3>4, <5>1, <6>1, RankIsNumber
        <5>4. QED
          BY <2>3, <5>1, <5>2, <5>3
      <4>3. QED
        BY <3>7, <3>9, <4>1, <4>2
    <3>10. QED
      BY <2>4, <3>1, <3>8, <3>9 DEF ReportInv
  <2>11. ASSUME Chains!Return
         PROVE  ReportInv'
    <3>1. /\ Chains!Top.rules = <<>>
          /\ memo' = [f \in DOMAIN memo \cup {Chains!Top.fact} |->
                        IF f = Chains!Top.fact THEN Chains!Top.proofs ELSE memo[f]]
          /\ stack' = SubSeq(stack, 1, Len(stack) - 1)
      BY <2>11 DEF Chains!Return
    <3>2. Chains!Top.proofs # {}
      BY <2>5, <3>1 DEF Promising
    <3>3. \A f \in DOMAIN memo' : memo'[f] # {}
      BY <2>4, <3>1, <3>2
    <3>4. \A k \in DOMAIN stack' : k \in DOMAIN stack /\ stack'[k] = stack[k]
      BY <2>1, <2>3, <3>1, Popped
    <3>5. ASSUME NEW k \in DOMAIN stack'
          PROVE  Promising(stack[k])'
      <4>1. PICK x : x = stack'[k]
        OBVIOUS
      <4>2. Promising(x)
        BY <2>4, <3>4, <4>1
      <4>3. Promising(x)'
        BY <2>1, <4>2, BackwardStays
      <4>4. QED
        BY <4>1, <4>3
    <3>6. QED
      BY <2>4, <3>3, <3>4, <3>5 DEF ReportInv
  <2>12. ReportInv'
    <3>1. (\E f : Chains!Resolve(f) \/ Chains!Call(f)) \/ Chains!FinishRule \/ Chains!Return
      BY <1>4 DEF Chains!Prove
    <3>2. QED
      BY <3>1, <2>8, <2>9, <2>10, <2>11
  <2>13. QED
    BY <1>1, <2>12 DEF ReportInv
<1>5. CASE Chains!Next /\ ~Chains!EndPass /\ ~Chains!Prove
  BY <1>1, <1>5, NothingProvedYet
<1>6. QED
  BY <1>2, <1>3, <1>4, <1>5

LEMMA ReportWhenReasoned ==
    ASSUME BackwardInv, ReportInv, Chains!Reasoned, steps # <<>>
    PROVE  Chains!Reachable <=> goal \in Chains!Known
<1>1. phase = "proving" /\ stack = <<>>
  BY DEF Chains!Reasoned
<1>2. CASE goal \notin Chains!Known
  BY <1>2 DEF Chains!Reachable, Chains!Paths
<1>3. CASE goal \in Chains!Known /\ goal \in initial
  BY <1>3 DEF Chains!Reachable, Chains!Paths
<1>4. CASE goal \in Chains!Known \ initial
  <2>1. goal \in DOMAIN memo
    BY <1>1, <1>4 DEF BackwardInv, GoalInv
  <2>2. memo[goal] # {}
    BY <1>1, <2>1 DEF ReportInv
  <2>3. QED
    BY <1>4, <2>2 DEF Chains!Reachable, Chains!Paths
<1>5. QED
  BY <1>2, <1>3, <1>4

-----------------------------------------------------------------------------
(* Attack chains: the theorems                                             *)

ChainsInv == part = "chains" => ForwardInv /\ BackwardInv /\ ReportInv

LEMMA ChainsInductive == PartsSpec => []ChainsInv
<1>1. PartsInit => ChainsInv
  <2>1. ASSUME PartsInit PROVE ChainsInv
    BY <2>1, ForwardStart, BackwardStart DEF PartsInit, ChainsInv
  <2>2. QED
    BY <2>1
<1>2. ChainsInv /\ [PartsNext]_partsVars => ChainsInv'
  <2>1. ASSUME ChainsInv, [PartsNext]_partsVars PROVE ChainsInv'
    <3>1. part' = part
      BY <2>1 DEF PartsNext, partsVars
    <3>2. CASE part = "chains"
      <4>1. Chains!Next \/ UNCHANGED Chains!vars
        BY <2>1, <3>2 DEF PartsNext, partsVars, chainVars, Chains!vars, Chains!input,
                          Chains!forward, Chains!backward
      <4>2. ForwardInv /\ BackwardInv /\ ReportInv
        BY <2>1, <3>2 DEF ChainsInv
      <4>3. ForwardInv' /\ BackwardInv' /\ ReportInv'
        BY <4>1, <4>2, ForwardStep, BackwardStep, ReportStep
      <4>4. QED
        BY <4>3 DEF ChainsInv
    <3>3. CASE part # "chains"
      BY <3>1, <3>3 DEF ChainsInv
    <3>4. QED
      BY <3>2, <3>3
  <2>2. QED
    BY <2>1
<1>3. QED
  BY <1>1, <1>2, PTL DEF PartsSpec

(* When reason has finished its passes, it knows a fact exactly when some  *)
(* consistent choice of one option per group brings it about: for every    *)
(* chain of units and every order of them.                                 *)
THEOREM ForwardIsAlwaysExact == PartsSpec => []ForwardIsExact
<1>1. ChainsInv => ForwardIsExact
  BY ExactWhenReasoned DEF ChainsInv, ForwardIsExact, Chains!ForwardIsExact, Chains!Reasoned
<1>2. QED
  BY <1>1, ChainsInductive, PTL

(* Every path that prove returns stands alone: its own units bring about   *)
(* the goal, and no two of them belong to different options of a group.    *)
THEOREM PathsAlwaysStandAlone == PartsSpec => []PathsStandAlone
<1>1. ChainsInv => PathsStandAlone
  BY AloneWhenReasoned DEF ChainsInv, PathsStandAlone, Chains!PathsStandAlone
<1>2. QED
  BY <1>1, ChainsInductive, PTL

(* A chain without branches of which diagnose reports no dependency issue  *)
(* is one whose units can all happen.                                      *)
THEOREM CleanChainAlwaysHappens == PartsSpec => []CleanChainHappens
<1>1. ChainsInv => CleanChainHappens
  BY CleanWhenReasoned DEF ChainsInv, CleanChainHappens, Chains!CleanChainHappens, Chains!Reasoned
<1>2. QED
  BY <1>1, ChainsInductive, PTL

(* What the extraction makes of a report has no cycle, so no proof is cut  *)
(* short while it is remembered: a goal that chaining derives has a path.  *)
THEOREM ReportAlwaysReachable == PartsSpec => []ReportReachable
<1>1. ChainsInv => ReportReachable
  BY ReportWhenReasoned DEF ChainsInv, ReportReachable, Chains!ReportReachable
<1>2. QED
  BY <1>1, ChainsInductive, PTL
=============================================================================
