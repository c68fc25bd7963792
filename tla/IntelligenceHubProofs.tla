------------------------ MODULE IntelligenceHubProofs ------------------------
(***************************************************************************)
(* Proofs about the intelligence hub, for any number of records,           *)
(* correlators, contents and scans: a listing fails closed, the review     *)
(* gates the content a record has, and a drained queue leaves every effect *)
(* as its record demands.                                                  *)
(***************************************************************************)
EXTENDS IntelligenceHub, TLAPS

-----------------------------------------------------------------------------
(* Types.                                                                  *)

Origins == [content : 0..MaxContents, scan : Nat, withdrawn : BOOLEAN]
Threats == [modified : Times, matched : BOOLEAN, origin : Origins,
            risk : {"none", "open", "closed"}]
Assignments == [modified : Times, matched : BOOLEAN, origin : Origins,
                risk : {"none", "open", "closed", "kept"}]
Kinds == {"revised", "revoked", "restricted", "absent"}
Imports == [open : {TRUE}, r : Records, modified : Times, until : Times \cup {Forever},
            kind : Kinds, read : {"pending", "approved", "rejected"}]
Reads == [step : {"read"}, stale : BOOLEAN, job : BOOLEAN, old : [Records -> Threats],
          new : [Records -> Assignments]]
Assessments == [step : {"assessed"}, stale : BOOLEAN, job : BOOLEAN, old : [Records -> Threats],
                new : [Records -> Threats]]

Typed ==
    /\ now \in 0..MaxTime /\ contents \in 0..MaxContents /\ scan \in Nat
    /\ record \in [Records -> Record]
    /\ approved \in [Records -> SUBSET Nat]
    /\ raced \in [Records -> BOOLEAN]
    /\ threat \in [Records -> Threats]
    /\ import \in {NoImport} \cup Imports
    /\ session \in [Correlators -> {NoSession} \cup Reads \cup Assessments]
    /\ crossed \in BOOLEAN

LEMMA TimesAreNumbers == Times \subseteq Nat /\ Forever \in Nat /\ 0 \in Times
  BY BoundsAssumption DEF Times, Forever

LEMMA RetiredFacts ==
    ASSUME NEW t \in Threats
    PROVE  /\ Retired(t) \in Threats
           /\ Retired(t).modified = t.modified /\ Retired(t).origin.content = t.origin.content
           /\ Retired(t).matched => t.matched
           /\ (t.matched => Materialised(t)) => ~Retired(t).matched
<1>1. CASE ~Materialised(t) \/ AlreadyWithdrawn(t)
  BY <1>1 DEF Retired, AlreadyWithdrawn
<1>2. CASE ~(~Materialised(t) \/ AlreadyWithdrawn(t))
  <2> DEFINE o == [t.origin EXCEPT !.withdrawn = TRUE]
             k == IF t.risk = "none" THEN "none" ELSE "closed"
  <2>1. o \in Origins /\ o.content = t.origin.content
    BY DEF Threats, Origins
  <2>2. k \in {"none", "open", "closed"}
    OBVIOUS
  <2>3. Retired(t) = [t EXCEPT !.matched = FALSE, !.origin = o, !.risk = k]
    BY <1>2 DEF Retired
  <2> HIDE DEF o, k
  <2>4. QED
    BY <2>1, <2>2, <2>3 DEF Threats
<1>3. QED
  BY <1>1, <1>2

LEMMA MovedFacts ==
    ASSUME NEW t \in Threats, NEW rec \in Record, NEW hit \in BOOLEAN, NEW n \in Nat
    PROVE  /\ Moved(t, rec, hit, n) \in Threats
           /\ Moved(t, rec, hit, n).modified = t.modified
           /\ Moved(t, rec, hit, n).origin.content = t.origin.content
           /\ (t.matched => Materialised(t)) /\ Moved(t, rec, hit, n).matched =>
                 Materialised(t) /\ rec.status = "approved"
<1>1. CASE ~Materialised(t)
  BY <1>1 DEF Moved
<1>2. CASE Materialised(t)
  <2> DEFINE linked == Processable(rec) /\ hit
             o == [t.origin EXCEPT !.scan = n]
             k == IF t.risk = "none" THEN "none" ELSE IF linked THEN "open" ELSE "closed"
  <2>1. o \in Origins /\ o.content = t.origin.content
    BY DEF Threats, Origins
  <2>2. k \in {"none", "open", "closed"} /\ linked \in BOOLEAN
    BY DEF Processable, Active
  <2>3. linked => rec.status = "approved"
    BY DEF Processable
  <2>4. Moved(t, rec, hit, n) = [t EXCEPT !.matched = linked, !.origin = o, !.risk = k]
    BY <1>2 DEF Moved
  <2> HIDE DEF o, k, linked
  <2>5. QED
    BY <1>2, <2>1, <2>2, <2>3, <2>4 DEF Threats
<1>3. QED
  BY <1>1, <1>2

(* What a session writes of one column.                                    *)
LEMMA WrittenFacts ==
    ASSUME NEW old \in Threats, NEW new \in Threats, NEW current \in Threats
    PROVE  LET t == Written(old, new, current)
           IN  /\ t \in Threats
               /\ t.modified = IF old.modified = new.modified THEN current.modified ELSE new.modified
               /\ t.matched = IF old.matched = new.matched THEN current.matched ELSE new.matched
               /\ t.origin = IF old.origin = new.origin THEN current.origin ELSE new.origin
  BY DEF Written, Threats

-----------------------------------------------------------------------------
(* The inductive invariant.                                                *)

(* An approved record has the content an analyst approved, unless a review *)
(* raced an import; an import that no review raced holds the status as it  *)
(* is, and so writes it back to pending.                                   *)
RecordInv ==
    /\ \A r \in Records :
          /\ record[r].content <= contents
          /\ record[r].status = "approved" => Known(r)
          /\ record[r].status = "approved" => record[r].content \in approved[r] \/ raced[r]
    /\ import.open =>
          /\ contents < MaxContents
          /\ raced[import.r] \/ record[import.r].status = import.read
          /\ import.kind = "restricted" => Known(import.r)

(* What is matched although the content was not approved.                  *)
Reviewed(r) == record[r].content \in approved[r] \/ raced[r]
Bad(r) == threat[r].matched /\ Carried(r) /\ ~Reviewed(r)

ThreatInv ==
    \A r \in Records :
        /\ threat[r].origin.content <= contents
        /\ threat[r].matched => Materialised(threat[r])
        /\ Materialised(threat[r]) => Known(r)
        /\ Bad(r) => crossed \/ threat[r].modified > record[r].modified

(* What a correlator assigns to record r, old being what it read: it keeps *)
(* the effect, or assigns the content of the record, matched if that was   *)
(* approved.                                                               *)
Keeps(old, new) ==
    new.modified = old.modified /\ new.matched = old.matched /\ new.origin = old.origin
Assigns(r, old, new) ==
    /\ old.origin.content <= contents /\ new.origin.content <= contents
    /\ old.matched => Materialised(old)
    /\ new.matched => Materialised(new)
    /\ Materialised(new) => Known(r)
    /\ Materialised(old) => Materialised(new) /\ Materialised(threat[r])
    /\ \/ Keeps(old, new)
       \/ /\ Materialised(new)
          /\ new.matched => new.origin.content \in approved[r] \/ raced[r]

(* As long as no other correlation wrote since, the session wrote the last *)
(* content there is; a scan that matched the effect since then found the   *)
(* record approved; and the session unmatches what is matched unapproved.  *)
Alone(r, old, new) ==
    /\ threat[r].origin.content = old.origin.content
    /\ threat[r].matched /\ ~old.matched /\ new.origin.content = record[r].content
          => Reviewed(r)
    /\ Bad(r) => threat[r].modified > record[r].modified \/ (old.matched /\ ~new.matched)

SessionOk(s) ==
    s.step # "idle" => \A r \in Records : /\ Assigns(r, s.old[r], s.new[r])
                                          /\ s.stale \/ Alone(r, s.old[r], s.new[r])
SessionsInv == \A c \in Correlators : SessionOk(session[c])

HubInv == Typed /\ RecordInv /\ ThreatInv /\ SessionsInv

LEMMA AssignedFacts ==
    ASSUME Typed, NEW r \in Records
    PROVE  /\ Assigned(r) \in Assignments
           /\ \/ /\ Keeps(threat[r], Assigned(r)) /\ Assigned(r).risk = "kept"
                 /\ Materialised(threat[r]) => threat[r].modified > record[r].modified
              \/ /\ Assigned(r).risk \in {"open", "closed"}
                 /\ Assigned(r).origin.content = record[r].content
                 /\ Assigned(r).matched => record[r].status = "approved"
                 /\ Materialised(threat[r]) \/ Assigned(r).matched
<1> DEFINE hit == Processable(record[r]) /\ r \in matching /\ record[r].indexed
           kept == \/ ~Considered(r)
                   \/ Materialised(threat[r]) /\ threat[r].modified > record[r].modified
                   \/ ~Materialised(threat[r]) /\ ~hit
<1>1. record[r] \in Record /\ threat[r] \in Threats /\ scan \in Nat
  BY DEF Typed
<1>2. hit \in BOOLEAN /\ (hit => record[r].status = "approved")
  BY <1>1 DEF Record, Processable, Active
<1>3. CASE kept
  <2>1. Assigned(r) = [threat[r] EXCEPT !.risk = "kept"]
    BY <1>3 DEF Assigned
  <2>2. Materialised(threat[r]) => threat[r].modified > record[r].modified
    BY <1>3 DEF Considered
  <2>3. QED
    BY <1>1, <2>1, <2>2 DEF Threats, Assignments, Keeps
<1>4. CASE ~kept
  <2>1. Assigned(r) = [modified |-> record[r].modified, matched |-> hit,
                       origin |-> [content |-> record[r].content, scan |-> scan,
                                   withdrawn |-> FALSE],
                       risk |-> IF hit THEN "open" ELSE "closed"]
    BY <1>4 DEF Assigned
  <2>2. Materialised(threat[r]) \/ hit
    BY <1>4
  <2>3. record[r].modified \in Times /\ record[r].content \in 0..MaxContents
    BY <1>1 DEF Record
  <2> HIDE DEF hit
  <2>4. QED
    BY <1>1, <1>2, <2>1, <2>2, <2>3 DEF Assignments, Origins
<1>5. QED
  BY <1>3, <1>4

(* A step that is no commit: it may retire effects, or match them for a    *)
(* record that is approved, and a record only gets a content nobody had.   *)
Effect(r) ==
    /\ threat'[r].origin.content = threat[r].origin.content
    /\ threat'[r].modified = threat[r].modified
    /\ threat'[r].matched =>
          /\ Materialised(threat[r])
          /\ \/ threat[r].matched /\ record'[r].content = record[r].content
                /\ record'[r].modified = record[r].modified
             \/ Reviewed(r)'
    /\ record'[r].content = record[r].content \/ record'[r].content > contents
    /\ approved[r] \subseteq approved'[r]
    /\ raced[r] => raced'[r]

LEMMA EffectKeeps ==
    ASSUME HubInv, Typed', contents' >= contents, \A r \in Records : Effect(r), crossed' = crossed
    PROVE  /\ ThreatInv'
           /\ \A s : SessionOk(s) /\ s \in {NoSession} \cup Reads \cup Assessments => SessionOk(s)'
<1> USE DEF Materialised, Known
<1>1. ASSUME NEW r \in Records
      PROVE  /\ threat[r] \in Threats /\ threat'[r] \in Threats /\ contents \in Nat /\ contents' \in Nat
             /\ threat[r].origin.content \in Nat /\ threat'[r].origin.content \in Nat
             /\ record[r].content \in Nat /\ record'[r].content \in Nat
             /\ threat[r].modified \in Nat /\ record[r].modified \in Nat
             /\ record[r].content <= contents
  <2>1. threat[r] \in Threats /\ threat'[r] \in Threats /\ record[r] \in Record /\ record'[r] \in Record
    BY DEF HubInv, Typed
  <2>2. contents \in Nat /\ contents' \in Nat /\ record[r].content <= contents
    BY BoundsAssumption DEF HubInv, Typed, RecordInv
  <2>3. /\ threat[r].origin \in Origins /\ threat'[r].origin \in Origins
        /\ threat[r].modified \in Times /\ record[r].modified \in Times
        /\ record[r].content \in 0..MaxContents /\ record'[r].content \in 0..MaxContents
    BY <2>1 DEF Threats, Record
  <2>4. threat[r].origin.content \in 0..MaxContents /\ threat'[r].origin.content \in 0..MaxContents
    BY <2>3 DEF Origins
  <2>5. 0..MaxContents \subseteq Nat
    BY BoundsAssumption
  <2>6. threat[r].modified \in Nat /\ record[r].modified \in Nat
    BY <2>3, TimesAreNumbers
  <2>7. QED
    BY <2>1, <2>2, <2>3, <2>4, <2>5, <2>6
<1>2. ASSUME NEW r \in Records, Bad(r)'
      PROVE  Bad(r) /\ threat'[r].modified = threat[r].modified
             /\ record'[r].modified = record[r].modified
  <2>1. threat'[r].matched /\ ~Reviewed(r)' /\ threat'[r].origin.content = record'[r].content
    BY <1>2 DEF Bad, Carried
  <2>2. /\ threat[r].matched /\ record'[r].content = record[r].content
        /\ record'[r].modified = record[r].modified
    BY <2>1 DEF Effect
  <2>3. ~Reviewed(r)
    BY <2>1, <2>2 DEF Reviewed, Effect
  <2>4. QED
    BY <2>1, <2>2, <2>3 DEF Bad, Carried, Effect
<1>3. ASSUME NEW r \in Records
      PROVE  Known(r) => Known(r)'
  BY <1>1, <1>3 DEF Effect
<1>4. ThreatInv'
  <2> SUFFICES ASSUME NEW r \in Records
               PROVE  /\ threat'[r].origin.content <= contents'
                      /\ threat'[r].matched => Materialised(threat'[r])
                      /\ Materialised(threat'[r]) => Known(r)'
                      /\ Bad(r)' => crossed' \/ threat'[r].modified > record'[r].modified
    BY DEF ThreatInv
  <2>1. /\ threat[r].origin.content <= contents /\ (Materialised(threat[r]) => Known(r))
        /\ Bad(r) => crossed \/ threat[r].modified > record[r].modified
    BY DEF HubInv, ThreatInv
  <2>2. QED
    BY <1>1, <1>2, <1>3, <2>1 DEF Effect
<1>5. ASSUME NEW s, SessionOk(s), s \in {NoSession} \cup Reads \cup Assessments
      PROVE  SessionOk(s)'
  <2> SUFFICES ASSUME s.step # "idle", NEW r \in Records
               PROVE  Assigns(r, s.old[r], s.new[r])' /\ (s.stale \/ Alone(r, s.old[r], s.new[r])')
    BY DEF SessionOk
  <2> DEFINE old == s.old[r]
             new == s.new[r]
  <2>1. old.origin.content \in Nat /\ new.origin.content \in Nat
    <3>1. s \in Reads \cup Assessments
      BY <1>5 DEF NoSession
    <3>2. s.old \in [Records -> Threats] /\ s.new \in [Records -> Threats \cup Assignments]
      BY <3>1 DEF Reads, Assessments
    <3>3. old \in Threats /\ new \in Threats \cup Assignments
      BY <3>2
    <3>4. QED
      BY <3>3, BoundsAssumption DEF Threats, Assignments, Origins
  <2>2. Assigns(r, old, new) /\ (s.stale \/ Alone(r, old, new))
    BY <1>5 DEF SessionOk
  <2> HIDE DEF old, new
  <2>3. Assigns(r, old, new)'
    BY <1>1, <1>3, <2>1, <2>2 DEF Assigns, Effect
  <2>4. ASSUME Alone(r, old, new) PROVE Alone(r, old, new)'
    <3>1. threat'[r].origin.content = old.origin.content
      BY <2>4 DEF Alone, Effect
    <3>2. ASSUME threat'[r].matched, ~old.matched, new.origin.content = record'[r].content
          PROVE  Reviewed(r)'
      <4> SUFFICES ASSUME ~Reviewed(r)' PROVE FALSE
        OBVIOUS
      <4>1. threat[r].matched /\ record'[r].content = record[r].content
        BY <3>2 DEF Effect
      <4>2. Reviewed(r)
        BY <2>4, <3>2, <4>1 DEF Alone
      <4>3. QED
        BY <4>1, <4>2 DEF Reviewed, Effect
    <3>3. Bad(r)' => threat'[r].modified > record'[r].modified \/ (old.matched /\ ~new.matched)
      BY <1>2, <2>4 DEF Alone
    <3>4. QED
      BY <3>1, <3>2, <3>3 DEF Alone
  <2>5. QED
    BY <2>2, <2>3, <2>4 DEF old, new
<1>6. QED
  BY <1>4, <1>5

-----------------------------------------------------------------------------
(* One lemma per action.                                                   *)

LEMMA QuietEffect ==
    ASSUME HubInv, UNCHANGED <<record, approved, raced, threat>>
    PROVE  \A r \in Records : Effect(r)
  BY DEF HubInv, ThreatInv, Effect

(* Steps that leave the records, the effects and the sessions alone.       *)
LEMMA QuietStep ==
    ASSUME HubInv, Typed', RecordInv',
           UNCHANGED <<record, approved, raced, contents, threat, session, crossed>>
    PROVE  HubInv'
<1>1. ThreatInv' /\ \A s : SessionOk(s) /\ s \in {NoSession} \cup Reads \cup Assessments => SessionOk(s)'
  <2>1. contents' >= contents
    BY BoundsAssumption DEF HubInv, Typed
  <2>2. QED
    BY <2>1, QuietEffect, EffectKeeps
<1>2. SessionsInv'
  BY <1>1 DEF HubInv, Typed, SessionsInv
<1>3. QED
  BY <1>1, <1>2 DEF HubInv

LEMMA ReadRecordStep ==
    ASSUME HubInv, NEW r \in Records, NEW modified \in Times, NEW until \in {now + 1, Forever},
           NEW kind \in Kinds, ReadRecord(r, modified, until, kind)
    PROVE  HubInv'
<1>1. Typed /\ RecordInv /\ record[r] \in Record
  BY DEF HubInv, Typed
<1>2. /\ import' = [open |-> TRUE, r |-> r, modified |-> modified, until |-> until,
                    kind |-> kind, read |-> record[r].status]
      /\ UNCHANGED <<now, record, approved, raced, contents, scan, threat, session, crossed>>
      /\ contents < MaxContents /\ (kind = "restricted" => Known(r))
  BY DEF ReadRecord
<1>3. until \in Times \cup {Forever}
  BY <1>1, BoundsAssumption DEF Typed, Times
<1>4. record[r].status \in {"pending", "approved", "rejected"}
  BY <1>1 DEF Record
<1>5. import' \in Imports
  BY <1>2, <1>3, <1>4 DEF Imports
<1>6. Typed'
  BY <1>1, <1>2, <1>5 DEF Typed
<1>7. RecordInv'
  BY <1>1, <1>2 DEF RecordInv, Known
<1>8. QED
  BY <1>2, <1>6, <1>7, QuietStep

LEMMA StoredFacts ==
    ASSUME Typed, RecordInv, import.open, NEW n, n = Stored(import.read, Delivered(import), record[import.r])
    PROVE  /\ import \in Imports /\ n \in Record
           /\ n.content = contents + 1 \/ (Known(import.r) /\ n.content = record[import.r].content)
           /\ n.status = "approved" => raced[import.r] /\ Known(import.r)
<1>1. import \in Imports
  BY DEF Typed, NoImport
<1>2. /\ record[import.r] \in Record /\ contents + 1 \in 0..MaxContents /\ contents \in Nat
      /\ import.modified \in Times /\ import.until \in Times \cup {Forever} /\ import.kind \in Kinds
      /\ import.r \in Records
  BY <1>1, BoundsAssumption DEF Typed, Imports, RecordInv
<1> DEFINE d == Delivered(import)
           cur == record[import.r]
<1>3. /\ d \in Record /\ d.status = "pending"
      /\ d.content = contents + 1 \/ (Known(import.r) /\ d.content = cur.content)
  <2>1. CASE import.kind = "restricted"
    <3>1. d = [cur EXCEPT !.modified = import.modified, !.status = "pending",
                          !.revoked = TRUE, !.red = TRUE]
      BY <2>1 DEF Delivered
    <3>2. Known(import.r)
      BY <2>1 DEF RecordInv
    <3> HIDE DEF d
    <3>3. QED
      BY <1>2, <3>1, <3>2 DEF Record
  <2>2. CASE import.kind = "absent"
    <3>1. d = [modified |-> import.modified, content |-> contents + 1, status |-> "pending",
               until |-> import.modified, revoked |-> TRUE, red |-> FALSE, indexed |-> FALSE]
      BY <2>2 DEF Delivered, Tombstone
    <3> HIDE DEF d
    <3>2. QED
      BY <1>2, <3>1 DEF Record
  <2>3. CASE import.kind \in {"revised", "revoked"}
    <3>1. d = [modified |-> import.modified, content |-> contents + 1, status |-> "pending",
               until |-> import.until, revoked |-> import.kind = "revoked", red |-> FALSE,
               indexed |-> TRUE]
      BY <2>3 DEF Delivered
    <3> HIDE DEF d
    <3>2. QED
      BY <1>2, <3>1 DEF Record
  <2>4. QED
    BY <1>2, <2>1, <2>2, <2>3 DEF Kinds
<1> DEFINE st == IF import.read = d.status THEN cur.status ELSE d.status
<1>4. n = [d EXCEPT !.status = st]
  BY DEF Stored
<1>5. st \in {"pending", "approved", "rejected"} /\ (st = "approved" => raced[import.r] /\ Known(import.r))
  BY <1>2, <1>3 DEF Record, RecordInv
<1> HIDE DEF d, st
<1>6. n \in Record /\ n.content = d.content /\ n.status = st
  BY <1>3, <1>4, <1>5 DEF Record
<1>7. QED
  BY <1>1, <1>3, <1>5, <1>6

LEMMA WriteRecordStep ==
    ASSUME HubInv, WriteRecord
    PROVE  HubInv'
<1> DEFINE r == import.r
           n == Stored(import.read, Delivered(import), record[r])
<1>1. Typed /\ RecordInv /\ ThreatInv /\ import.open
  BY DEF HubInv, WriteRecord
<1>2. /\ import \in Imports /\ n \in Record /\ r \in Records
      /\ n.content = contents + 1 \/ (Known(r) /\ n.content = record[r].content)
      /\ n.status = "approved" => raced[r]
  <2>1. import \in Imports => r \in Records
    BY DEF Imports
  <2>2. QED
    BY <1>1, <2>1, StoredFacts
<1>3. /\ import' = NoImport /\ record' = [record EXCEPT ![r] = n] /\ contents' = contents + 1
      /\ UNCHANGED <<now, approved, raced, scan, session, crossed>>
      /\ IF Known(r) THEN threat' = [threat EXCEPT ![r] = Retired(@)] ELSE threat' = threat
  BY DEF WriteRecord
<1> HIDE DEF n
<1>4. contents \in Nat /\ contents + 1 \in 0..MaxContents /\ contents' \in Nat
  BY <1>1, <1>3, BoundsAssumption DEF Typed, RecordInv
<1>5. /\ threat' \in [Records -> Threats] /\ ~threat'[r].matched
      /\ threat'[r].origin.content = threat[r].origin.content
      /\ threat'[r].modified = threat[r].modified
      /\ \A q \in Records \ {r} : threat'[q] = threat[q]
  <2>1. threat[r] \in Threats /\ (threat[r].matched => Materialised(threat[r]))
          /\ (Materialised(threat[r]) => Known(r))
    BY <1>1, <1>2 DEF Typed, ThreatInv
  <2>2. /\ Retired(threat[r]) \in Threats /\ ~Retired(threat[r]).matched
        /\ Retired(threat[r]).origin.content = threat[r].origin.content
        /\ Retired(threat[r]).modified = threat[r].modified
    BY <2>1, RetiredFacts
  <2>3. CASE Known(r)
    BY <1>1, <1>2, <1>3, <2>2, <2>3 DEF Typed
  <2>4. CASE ~Known(r)
    BY <1>1, <1>3, <2>1, <2>4 DEF Typed
  <2>5. QED
    BY <2>3, <2>4
<1>6. /\ record' \in [Records -> Record] /\ record'[r] = n
      /\ \A q \in Records \ {r} : record'[q] = record[q]
  BY <1>1, <1>2, <1>3 DEF Typed
<1>7. Typed'
  BY <1>1, <1>3, <1>4, <1>5, <1>6 DEF Typed
<1>8. RecordInv'
  <2>1. ~import'.open
    BY <1>3 DEF NoImport
  <2>2. ASSUME NEW q \in Records
        PROVE  /\ record'[q].content <= contents'
               /\ record'[q].status = "approved" => Known(q)'
               /\ record'[q].status = "approved" => record'[q].content \in approved'[q] \/ raced'[q]
    <3>1. /\ record[q].content <= contents /\ record[q].content \in Nat
          /\ record[q].status = "approved" => Known(q)
          /\ record[q].status = "approved" => record[q].content \in approved[q] \/ raced[q]
      <4>1. record[q] \in Record
        BY <1>1 DEF Typed
      <4>2. record[q].content \in Nat
        BY <4>1, BoundsAssumption DEF Record
      <4>3. QED
        BY <1>1, <4>2 DEF RecordInv
    <3>2. CASE q = r
      BY <1>2, <1>3, <1>4, <1>6, <3>1, <3>2 DEF Known
    <3>3. CASE q # r
      BY <1>3, <1>4, <1>6, <3>1, <3>3 DEF Known
    <3>4. QED
      BY <3>2, <3>3
  <2>3. QED
    BY <2>1, <2>2 DEF RecordInv
<1>9. \A q \in Records : Effect(q)
  <2> SUFFICES ASSUME NEW q \in Records PROVE Effect(q)
    OBVIOUS
  <2>1. CASE q = r
    BY <1>2, <1>3, <1>4, <1>5, <1>6, <2>1 DEF Effect
  <2>2. CASE q # r
    BY <1>1, <1>3, <1>5, <1>6, <2>2 DEF Effect, ThreatInv
  <2>3. QED
    BY <2>1, <2>2
<1>10. ThreatInv' /\ \A s : SessionOk(s) /\ s \in {NoSession} \cup Reads \cup Assessments => SessionOk(s)'
  BY <1>3, <1>4, <1>7, <1>9, EffectKeeps
<1>11. SessionsInv'
  BY <1>1, <1>3, <1>10 DEF HubInv, Typed, SessionsInv
<1>12. QED
  BY <1>7, <1>8, <1>10, <1>11 DEF HubInv

LEMMA ReviewStep ==
    ASSUME HubInv, NEW r \in Records, NEW verdict \in {"approved", "rejected"}, Review(r, verdict)
    PROVE  HubInv'
<1>1. Typed /\ RecordInv /\ ThreatInv /\ record[r] \in Record /\ threat[r] \in Threats
  BY DEF HubInv, Typed
<1>2. /\ record' = [record EXCEPT ![r] = [@ EXCEPT !.status = verdict]]
      /\ approved' = [approved EXCEPT ![r] =
             IF verdict = "approved" THEN @ \cup {record[r].content} ELSE @]
      /\ raced' = [raced EXCEPT ![r] = @ \/ (import.open /\ import.r = r)]
      /\ UNCHANGED <<now, contents, scan, import, session, crossed>>
      /\ Known(r)
      /\ threat' = IF Processable(record'[r]) THEN threat ELSE [threat EXCEPT ![r] = Retired(@)]
  BY DEF Review
<1> DEFINE n == [record[r] EXCEPT !.status = verdict]
<1>3. n \in Record /\ n.status = verdict /\ n.content = record[r].content
        /\ n.modified = record[r].modified
  BY <1>1 DEF Record
<1>4. record' \in [Records -> Record] /\ record'[r] = n /\ \A q \in Records \ {r} : record'[q] = record[q]
  BY <1>1, <1>2, <1>3 DEF Typed
<1> HIDE DEF n
<1>5. contents \in Nat /\ record[r].content \in Nat /\ record[r].content <= contents
  BY <1>1, BoundsAssumption DEF Typed, Record, RecordInv
<1>6. /\ approved' \in [Records -> SUBSET Nat] /\ approved[r] \subseteq approved'[r]
      /\ verdict = "approved" => record[r].content \in approved'[r]
      /\ \A q \in Records \ {r} : approved'[q] = approved[q]
  BY <1>1, <1>2, <1>5 DEF Typed
<1>7. /\ raced' \in [Records -> BOOLEAN] /\ (raced[r] => raced'[r])
      /\ import.open /\ import.r = r => raced'[r]
      /\ \A q \in Records \ {r} : raced'[q] = raced[q]
  <2>1. raced'[r] = (raced[r] \/ (import.open /\ import.r = r))
    BY <1>1, <1>2 DEF Typed
  <2>2. raced' = [raced EXCEPT ![r] = raced'[r]]
    BY <1>1, <1>2, <2>1 DEF Typed
  <2>3. (raced[r] \/ (import.open /\ import.r = r)) \in BOOLEAN
    OBVIOUS
  <2>4. raced'[r] \in BOOLEAN
    BY <2>1, <2>3
  <2>5. QED
    BY <1>1, <2>1, <2>2, <2>4 DEF Typed
<1>8. /\ Retired(threat[r]) \in Threats /\ ~Retired(threat[r]).matched
      /\ Retired(threat[r]).origin.content = threat[r].origin.content
      /\ Retired(threat[r]).modified = threat[r].modified
  BY <1>1, RetiredFacts DEF ThreatInv
<1>9. /\ threat' \in [Records -> Threats]
      /\ threat'[r].origin.content = threat[r].origin.content
      /\ threat'[r].modified = threat[r].modified
      /\ threat'[r].matched => threat[r].matched
      /\ \A q \in Records \ {r} : threat'[q] = threat[q]
  BY <1>1, <1>2, <1>8 DEF Typed
<1>10. Typed'
  BY <1>1, <1>2, <1>4, <1>6, <1>7, <1>9 DEF Typed
<1>11. RecordInv'
  <2>1. ASSUME NEW q \in Records
        PROVE  /\ record'[q].content <= contents'
               /\ record'[q].status = "approved" => Known(q)'
               /\ record'[q].status = "approved" => record'[q].content \in approved'[q] \/ raced'[q]
    BY <1>1, <1>2, <1>3, <1>4, <1>5, <1>6, <1>7 DEF RecordInv, Known
  <2>2. ASSUME import.open
        PROVE  /\ contents < MaxContents
               /\ raced'[import.r] \/ record'[import.r].status = import.read
               /\ import.kind = "restricted" => Known(import.r)'
    <3>1. import \in Imports
      BY <1>1, <2>2 DEF Typed, NoImport
    <3>2. import.r \in Records
      BY <3>1 DEF Imports
    <3>3. QED
      BY <1>1, <1>2, <1>3, <1>4, <1>7, <2>2, <3>2 DEF RecordInv, Known
  <2>3. QED
    BY <1>2, <2>1, <2>2 DEF RecordInv
<1>12. \A q \in Records : Effect(q)
  <2> SUFFICES ASSUME NEW q \in Records PROVE Effect(q)
    OBVIOUS
  <2>1. CASE q = r
    BY <1>1, <1>3, <1>4, <1>6, <1>7, <1>9, <2>1 DEF Effect, ThreatInv
  <2>2. CASE q # r
    BY <1>1, <1>4, <1>6, <1>7, <1>9, <2>2 DEF Effect, ThreatInv
  <2>3. QED
    BY <2>1, <2>2
<1>13. ThreatInv' /\ \A s : SessionOk(s) /\ s \in {NoSession} \cup Reads \cup Assessments => SessionOk(s)'
  BY <1>2, <1>5, <1>10, <1>12, EffectKeeps
<1>14. SessionsInv'
  BY <1>1, <1>2, <1>13 DEF HubInv, Typed, SessionsInv
<1>15. QED
  BY <1>10, <1>11, <1>13, <1>14 DEF HubInv

LEMMA IngestInventoryStep ==
    ASSUME HubInv, NEW S \in SUBSET Records, IngestInventory(S)
    PROVE  HubInv'
<1>1. Typed /\ RecordInv /\ ThreatInv
  BY DEF HubInv
<1>2. /\ scan' = scan + 1
      /\ threat' = [r \in Records |-> Moved(threat[r], record[r], r \in S, scan + 1)]
      /\ UNCHANGED <<now, record, approved, raced, contents, import, session, crossed>>
  BY DEF IngestInventory
<1>3. ASSUME NEW r \in Records
      PROVE  /\ threat'[r] \in Threats /\ threat'[r].modified = threat[r].modified
             /\ threat'[r].origin.content = threat[r].origin.content
             /\ threat'[r].matched => Materialised(threat[r]) /\ record[r].status = "approved"
  <2> DEFINE hit == r \in S
  <2>1. /\ threat[r] \in Threats /\ record[r] \in Record /\ hit \in BOOLEAN
        /\ scan + 1 \in Nat /\ (threat[r].matched => Materialised(threat[r]))
    BY <1>1 DEF Typed, ThreatInv
  <2>2. threat'[r] = Moved(threat[r], record[r], hit, scan + 1)
    BY <1>2
  <2> HIDE DEF hit
  <2>3. QED
    BY <2>1, <2>2, MovedFacts
<1>4. threat' \in [Records -> Threats]
  BY <1>2, <1>3
<1>5. Typed'
  BY <1>1, <1>2, <1>4 DEF Typed
<1>6. RecordInv'
  BY <1>1, <1>2 DEF RecordInv, Known
<1>7. \A r \in Records : Effect(r)
  BY <1>1, <1>2, <1>3 DEF Effect, RecordInv, Reviewed
<1>8. ThreatInv' /\ \A s : SessionOk(s) /\ s \in {NoSession} \cup Reads \cup Assessments => SessionOk(s)'
  <2>1. contents' >= contents
    BY <1>1, <1>2, BoundsAssumption DEF Typed
  <2>2. QED
    BY <1>2, <1>5, <1>7, <2>1, EffectKeeps
<1>9. SessionsInv'
  BY <1>1, <1>2, <1>8 DEF HubInv, Typed, SessionsInv
<1>10. QED
  BY <1>5, <1>6, <1>8, <1>9 DEF HubInv

LEMMA ListStep ==
    ASSUME HubInv, List
    PROVE  HubInv'
<1>1. Typed /\ RecordInv /\ ThreatInv
  BY DEF HubInv
<1>2. /\ threat' = Reconciled
      /\ UNCHANGED <<now, record, approved, raced, contents, scan, import, session, crossed>>
  BY DEF List
<1>3. ASSUME NEW r \in Records
      PROVE  /\ threat'[r] \in Threats /\ threat'[r].modified = threat[r].modified
             /\ threat'[r].origin.content = threat[r].origin.content
             /\ threat'[r].matched => threat[r].matched
  <2>1. threat[r] \in Threats
    BY <1>1 DEF Typed
  <2>2. threat'[r] \in {threat[r], Retired(threat[r])}
    BY <1>2 DEF Reconciled
  <2>3. QED
    BY <2>1, <2>2, RetiredFacts
<1>4. threat' \in [Records -> Threats]
  BY <1>2, <1>3 DEF Reconciled
<1>5. Typed'
  BY <1>1, <1>2, <1>4 DEF Typed
<1>6. RecordInv'
  BY <1>1, <1>2 DEF RecordInv, Known
<1>7. \A r \in Records : Effect(r)
  BY <1>1, <1>2, <1>3 DEF Effect, ThreatInv
<1>8. ThreatInv' /\ \A s : SessionOk(s) /\ s \in {NoSession} \cup Reads \cup Assessments => SessionOk(s)'
  <2>1. contents' >= contents
    BY <1>1, <1>2, BoundsAssumption DEF Typed
  <2>2. QED
    BY <1>2, <1>5, <1>7, <2>1, EffectKeeps
<1>9. SessionsInv'
  BY <1>1, <1>2, <1>8 DEF HubInv, Typed, SessionsInv
<1>10. QED
  BY <1>5, <1>6, <1>8, <1>9 DEF HubInv

LEMMA TickStep ==
    ASSUME HubInv, Tick
    PROVE  HubInv'
<1>1. UNCHANGED <<record, approved, raced, contents, scan, threat, import, session, crossed>>
        /\ now' \in 0..MaxTime
  BY BoundsAssumption DEF Tick, HubInv, Typed
<1>2. Typed' /\ RecordInv'
  BY <1>1 DEF HubInv, Typed, RecordInv, Known
<1>3. QED
  BY <1>1, <1>2, QuietStep

-----------------------------------------------------------------------------
(* Correlation.                                                            *)

LEMMA CorrelateStep ==
    ASSUME HubInv, NEW c \in Correlators, NEW job \in BOOLEAN, Correlate(c, job)
    PROVE  HubInv'
<1> DEFINE new == [r \in Records |-> Assigned(r)]
           s == [step |-> "read", stale |-> FALSE, job |-> job, old |-> threat, new |-> new]
<1>1. Typed /\ RecordInv /\ ThreatInv /\ SessionsInv
  BY DEF HubInv
<1>2. /\ session' = [session EXCEPT ![c] = s]
      /\ UNCHANGED <<now, record, approved, raced, contents, scan, threat, import, crossed>>
  BY DEF Correlate
<1>3. new \in [Records -> Assignments] /\ threat \in [Records -> Threats]
  BY <1>1, AssignedFacts DEF Typed
<1>4. s \in Reads
  BY <1>3 DEF Reads
<1>5. ASSUME NEW r \in Records
      PROVE  Assigns(r, threat[r], new[r]) /\ Alone(r, threat[r], new[r])
  <2>1. /\ record[r].content \in Nat /\ record[r].content <= contents
        /\ threat[r].origin.content \in Nat
    <3>1. record[r] \in Record /\ threat[r] \in Threats
      BY <1>1 DEF Typed
    <3>2. record[r].content \in 0..MaxContents /\ threat[r].origin \in Origins
      BY <3>1 DEF Record, Threats
    <3>3. threat[r].origin.content \in 0..MaxContents
      BY <3>2 DEF Origins
    <3>4. QED
      BY <1>1, <3>2, <3>3, BoundsAssumption DEF RecordInv
  <2>2. /\ threat[r].origin.content <= contents
        /\ threat[r].matched => Materialised(threat[r])
        /\ Materialised(threat[r]) => Known(r)
    BY <1>1 DEF ThreatInv
  <2>3. record[r].status = "approved" => Known(r) /\ Reviewed(r)
    BY <1>1 DEF RecordInv, Reviewed
  <2>4. CASE /\ Keeps(threat[r], new[r])
             /\ Materialised(threat[r]) => threat[r].modified > record[r].modified
    BY <2>1, <2>2, <2>3, <2>4 DEF Keeps, Assigns, Alone, Materialised, Bad
  <2>5. CASE /\ new[r].origin.content = record[r].content
             /\ new[r].matched => record[r].status = "approved"
             /\ Materialised(threat[r]) \/ new[r].matched
    <3>1. Assigns(r, threat[r], new[r])
      BY <2>1, <2>2, <2>3, <2>5 DEF Assigns, Materialised, Known, Reviewed
    <3>2. Alone(r, threat[r], new[r])
      BY <2>2, <2>3, <2>5 DEF Alone, Bad
    <3>3. QED
      BY <3>1, <3>2
  <2>6. QED
    BY <1>1, <2>4, <2>5, AssignedFacts
<1> HIDE DEF new
<1>6. SessionOk(s)
  BY <1>5 DEF SessionOk
<1> HIDE DEF s
<1>7. session' \in [Correlators -> {NoSession} \cup Reads \cup Assessments]
        /\ session'[c] = s /\ \A d \in Correlators \ {c} : session'[d] = session[d]
  BY <1>1, <1>2, <1>4 DEF Typed
<1>8. Typed'
  BY <1>1, <1>2, <1>7 DEF Typed
<1>9. RecordInv' /\ ThreatInv'
  BY <1>1, <1>2 DEF RecordInv, ThreatInv, Known, Bad, Carried, Reviewed
<1>10. ASSUME NEW q PROVE SessionOk(q)' <=> SessionOk(q)
  BY <1>2 DEF SessionOk, Assigns, Alone, Known, Bad, Carried, Reviewed
<1>11. SessionsInv'
  BY <1>1, <1>6, <1>7, <1>10 DEF SessionsInv
<1>12. QED
  BY <1>8, <1>9, <1>11 DEF HubInv

(* Reading the risks leaves the other columns as they are.                 *)
LEMMA ReadRisksStep ==
    ASSUME HubInv, NEW c \in Correlators, ReadRisks(c)
    PROVE  HubInv'
<1> DEFINE s == session[c]
           risk == [r \in Records |-> IF Materialised(s.old[r]) THEN threat[r].risk ELSE "none"]
           assigned(r) == IF s.new[r].risk = "kept" \/ (s.new[r].risk = "closed" /\ risk[r] = "none")
                          THEN risk[r] ELSE s.new[r].risk
           old == [r \in Records |-> [s.old[r] EXCEPT !.risk = risk[r]]]
           new == [r \in Records |-> [s.new[r] EXCEPT !.risk = assigned(r)]]
           t == [s EXCEPT !.step = "assessed", !.old = old, !.new = new]
<1>1. Typed /\ RecordInv /\ ThreatInv /\ SessionsInv
  BY DEF HubInv
<1>2. /\ session' = [session EXCEPT ![c] = t] /\ s.step = "read"
      /\ UNCHANGED <<now, record, approved, raced, contents, scan, threat, import, crossed>>
  BY DEF ReadRisks
<1>3. s \in Reads
  BY <1>1, <1>2 DEF Typed, NoSession, Assessments
<1>4. s.old \in [Records -> Threats] /\ s.new \in [Records -> Assignments]
        /\ s.stale \in BOOLEAN /\ s.job \in BOOLEAN
  BY <1>3 DEF Reads
<1>5. ASSUME NEW r \in Records
      PROVE  /\ old[r] \in Threats /\ new[r] \in Threats
             /\ Keeps(s.old[r], old[r]) /\ Keeps(s.new[r], new[r])
  <2>1. threat[r] \in Threats /\ s.old[r] \in Threats /\ s.new[r] \in Assignments
    BY <1>1, <1>4 DEF Typed
  <2>2. risk[r] \in {"none", "open", "closed"}
    BY <2>1 DEF Threats
  <2>3. assigned(r) \in {"none", "open", "closed"}
    BY <2>1, <2>2 DEF Assignments
  <2>4. old[r] = [s.old[r] EXCEPT !.risk = risk[r]] /\ new[r] = [s.new[r] EXCEPT !.risk = assigned(r)]
    OBVIOUS
  <2> HIDE DEF risk, assigned, old, new
  <2>5. QED
    BY <2>1, <2>2, <2>3, <2>4 DEF Threats, Assignments, Keeps
<1>6. old \in [Records -> Threats] /\ new \in [Records -> Threats]
  BY <1>5
<1> HIDE DEF old, new, risk, assigned
<1>7. t = [s EXCEPT !.step = "assessed", !.old = old, !.new = new]
  OBVIOUS
<1>8. SessionOk(s)
  BY <1>1 DEF SessionsInv
<1> HIDE DEF s, t
<1>9. t \in Assessments /\ t.step = "assessed" /\ t.stale = s.stale /\ t.old = old /\ t.new = new
  BY <1>3, <1>6, <1>7 DEF Reads, Assessments
<1>10. SessionOk(t)
  <2> SUFFICES ASSUME NEW r \in Records
               PROVE  Assigns(r, old[r], new[r]) /\ (s.stale \/ Alone(r, old[r], new[r]))
    BY <1>9 DEF SessionOk
  <2>1. Assigns(r, s.old[r], s.new[r]) /\ (s.stale \/ Alone(r, s.old[r], s.new[r]))
    BY <1>2, <1>8 DEF SessionOk
  <2>2. /\ old[r].modified = s.old[r].modified /\ old[r].matched = s.old[r].matched
        /\ old[r].origin = s.old[r].origin
        /\ new[r].modified = s.new[r].modified /\ new[r].matched = s.new[r].matched
        /\ new[r].origin = s.new[r].origin
    BY <1>5 DEF Keeps
  <2>3. QED
    BY <2>1, <2>2 DEF Assigns, Alone, Keeps, Materialised
<1>11. session' \in [Correlators -> {NoSession} \cup Reads \cup Assessments]
         /\ session'[c] = t /\ \A d \in Correlators \ {c} : session'[d] = session[d]
  BY <1>1, <1>2, <1>9 DEF Typed
<1>12. Typed'
  BY <1>1, <1>2, <1>11 DEF Typed
<1>13. RecordInv' /\ ThreatInv'
  BY <1>1, <1>2 DEF RecordInv, ThreatInv, Known, Bad, Carried, Reviewed
<1>14. ASSUME NEW q PROVE SessionOk(q)' <=> SessionOk(q)
  BY <1>2 DEF SessionOk, Assigns, Alone, Known, Bad, Carried, Reviewed
<1>15. SessionsInv'
  BY <1>1, <1>10, <1>11, <1>14 DEF SessionsInv
<1>16. QED
  BY <1>12, <1>13, <1>15 DEF HubInv

(* A correlation that is committed alone leaves nothing matched that was   *)
(* not approved; one that another overtook says so in crossed.             *)
LEMMA CommitStep ==
    ASSUME HubInv, NEW c \in Correlators, Commit(c)
    PROVE  HubInv'
<1> DEFINE s == session[c]
<1>1. Typed /\ RecordInv /\ ThreatInv /\ SessionsInv
  BY DEF HubInv
<1>2. /\ s.step = "assessed"
      /\ \/ UNCHANGED <<threat, crossed>>
         \/ /\ threat' = [r \in Records |-> Written(s.old[r], s.new[r], threat[r])]
            /\ crossed' = s.stale
      /\ session' = [d \in Correlators |-> IF d = c THEN NoSession
                        ELSE [session[d] EXCEPT !.stale = session[d].step # "idle"]]
      /\ UNCHANGED <<now, record, approved, raced, contents, scan, import>>
  BY DEF Commit
<1>3. s \in Assessments
  BY <1>1, <1>2 DEF Typed, NoSession, Reads
<1>4. s.old \in [Records -> Threats] /\ s.new \in [Records -> Threats] /\ s.stale \in BOOLEAN
  BY <1>3 DEF Assessments
<1>5. SessionOk(s)
  BY <1>1 DEF SessionsInv
<1>6. ASSUME NEW r \in Records
      PROVE  /\ threat[r] \in Threats
             /\ threat[r].origin.content \in Nat /\ contents \in Nat /\ threat[r].origin.content <= contents
             /\ threat[r].matched => Materialised(threat[r])
             /\ Materialised(threat[r]) => Known(r)
             /\ Bad(r) => crossed \/ threat[r].modified > record[r].modified
  <2>1. threat[r] \in Threats /\ contents \in Nat
    BY <1>1, BoundsAssumption DEF Typed
  <2>2. threat[r].origin \in Origins
    BY <2>1 DEF Threats
  <2>3. threat[r].origin.content \in Nat
    BY <2>2, BoundsAssumption DEF Origins
  <2>4. QED
    BY <1>1, <2>1, <2>3 DEF ThreatInv
<1>7. ASSUME NEW r \in Records, crossed' = s.stale,
             threat' = [q \in Records |-> Written(s.old[q], s.new[q], threat[q])]
      PROVE  /\ threat'[r] \in Threats /\ threat'[r].origin.content <= contents
             /\ threat'[r].matched => Materialised(threat'[r])
             /\ Materialised(threat[r]) => Materialised(threat'[r])
             /\ Materialised(threat'[r]) => Known(r)
             /\ Bad(r)' => crossed' \/ threat'[r].modified > record[r].modified
  <2> DEFINE old == s.old[r]
             new == s.new[r]
             t == threat'[r]
  <2>1. Assigns(r, old, new) /\ (s.stale \/ Alone(r, old, new))
    BY <1>2, <1>5 DEF SessionOk
  <2>2. old \in Threats /\ new \in Threats /\ threat[r] \in Threats
    BY <1>4, <1>6
  <2>3. t = Written(old, new, threat[r])
    BY <1>7
  <2> HIDE DEF old, new, t
  <2>4. /\ t \in Threats
        /\ t.modified = IF old.modified = new.modified THEN threat[r].modified ELSE new.modified
        /\ t.matched = IF old.matched = new.matched THEN threat[r].matched ELSE new.matched
        /\ t.origin = IF old.origin = new.origin THEN threat[r].origin ELSE new.origin
    BY <2>2, <2>3, WrittenFacts
  <2>5. t.origin.content <= contents /\ (t.matched => Materialised(t))
          /\ (Materialised(threat[r]) => Materialised(t))
    <3>1. CASE old.origin = new.origin
      BY <1>6, <2>1, <2>4, <3>1 DEF Assigns, Materialised
    <3>2. CASE old.origin # new.origin
      <4>1. t.origin = new.origin
        BY <2>4, <3>2
      <4>2. Materialised(threat[r]) => Materialised(new)
        BY <2>1, <3>2 DEF Assigns, Keeps
      <4>3. QED
        BY <1>6, <2>1, <2>4, <4>1, <4>2 DEF Assigns, Materialised
    <3>3. QED
      BY <3>1, <3>2
  <2>6. Materialised(t) => Known(r)
    BY <1>6, <2>1, <2>4 DEF Assigns, Materialised
  <2>7. ASSUME Bad(r)', ~s.stale
        PROVE  t.modified > record[r].modified
    <3>1. t.matched /\ t.origin.content = record[r].content /\ ~Reviewed(r)
      BY <1>2, <2>7 DEF Bad, Carried, Reviewed, t
    <3>2. Alone(r, old, new)
      BY <2>1, <2>7
    <3>3. new.origin.content = record[r].content
      BY <2>4, <3>1, <3>2 DEF Alone
    <3>4. CASE Keeps(old, new)
      <4>1. t.matched = threat[r].matched /\ t.modified = threat[r].modified
              /\ t.origin = threat[r].origin
        BY <2>4, <3>4 DEF Keeps
      <4>2. Bad(r)
        BY <3>1, <4>1 DEF Bad, Carried
      <4>3. QED
        BY <3>2, <3>4, <4>1, <4>2 DEF Alone, Keeps
    <3>5. CASE new.matched => new.origin.content \in approved[r] \/ raced[r]
      <4>1. ~new.matched
        BY <3>1, <3>3, <3>5 DEF Reviewed
      <4>2. threat[r].matched /\ ~old.matched
        BY <2>2, <2>4, <3>1, <4>1 DEF Threats
      <4>3. QED
        BY <3>1, <3>2, <3>3, <4>2 DEF Alone
    <3>6. QED
      BY <2>1, <3>4, <3>5 DEF Assigns
  <2>8. QED
    BY <1>7, <2>4, <2>5, <2>6, <2>7 DEF t
<1>8. ASSUME NEW r \in Records
      PROVE  /\ threat'[r] \in Threats /\ threat'[r].origin.content <= contents
             /\ threat'[r].matched => Materialised(threat'[r])
             /\ Materialised(threat[r]) => Materialised(threat'[r])
             /\ Materialised(threat'[r]) => Known(r)
             /\ Bad(r)' => crossed' \/ threat'[r].modified > record[r].modified
  <2>1. CASE UNCHANGED <<threat, crossed>>
    BY <1>2, <1>6, <2>1 DEF Bad, Carried, Reviewed
  <2>2. QED
    BY <1>2, <1>7, <2>1
<1>9. threat' \in [Records -> Threats] /\ crossed' \in BOOLEAN
  <2>1. CASE UNCHANGED <<threat, crossed>>
    BY <1>1, <2>1 DEF Typed
  <2>2. CASE /\ threat' = [r \in Records |-> Written(s.old[r], s.new[r], threat[r])]
             /\ crossed' = s.stale
    BY <1>4, <1>8, <2>2
  <2>3. QED
    BY <1>2, <2>1, <2>2
<1>10. ASSUME NEW d \in Correlators, NEW w, w = session'[d]
       PROVE  w \in {NoSession} \cup Reads \cup Assessments /\ SessionOk(w)'
  <2>1. CASE w = NoSession
    BY <2>1 DEF NoSession, SessionOk
  <2>2. CASE w = [session[d] EXCEPT !.stale = session[d].step # "idle"]
    <3>1. session[d] \in {NoSession} \cup Reads \cup Assessments /\ SessionOk(session[d])
      BY <1>1 DEF Typed, SessionsInv
    <3>2. PICK q : q = session[d]
      OBVIOUS
    <3>3. CASE q = NoSession
      <4>1. w = NoSession
        <5>1. NoSession.step = "idle" /\ NoSession = [step |-> "idle", stale |-> FALSE]
          BY DEF NoSession
        <5>2. w = [NoSession EXCEPT !.stale = FALSE]
          BY <2>2, <3>2, <3>3, <5>1
        <5>3. QED
          BY <5>2 DEF NoSession
      <4>2. QED
        BY <2>1, <4>1
    <3>4. CASE q \in Reads \cup Assessments
      <4>1. w = [q EXCEPT !.stale = q.step # "idle"]
        BY <2>2, <3>2
      <4>2. w \in Reads \cup Assessments /\ w.stale /\ w.step = q.step /\ w.old = q.old /\ w.new = q.new
        BY <3>4, <4>1 DEF Reads, Assessments
      <4>3. q.step # "idle" /\ SessionOk(q)
        BY <3>1, <3>2, <3>4 DEF Reads, Assessments
      <4>4. ASSUME NEW r \in Records PROVE Assigns(r, w.old[r], w.new[r])'
        <5>1. Assigns(r, w.old[r], w.new[r])
          BY <4>2, <4>3 DEF SessionOk
        <5>2. QED
          BY <1>2, <1>8, <5>1 DEF Assigns, Known
      <4>5. QED
        BY <4>2, <4>4 DEF SessionOk
    <3>5. QED
      BY <3>1, <3>2, <3>3, <3>4
  <2>3. QED
    BY <1>2, <1>10, <2>1, <2>2
<1>11. Typed'
  <2>1. session' \in [Correlators -> {NoSession} \cup Reads \cup Assessments]
    BY <1>2, <1>10
  <2>2. QED
    BY <1>1, <1>2, <1>9, <2>1 DEF Typed
<1>12. RecordInv'
  BY <1>1, <1>2 DEF RecordInv, Known
<1>13. ThreatInv'
  BY <1>2, <1>8 DEF ThreatInv, Known
<1>14. SessionsInv'
  BY <1>10 DEF SessionsInv, SessionOk
<1>15. QED
  BY <1>11, <1>12, <1>13, <1>14 DEF HubInv

-----------------------------------------------------------------------------
(* The theorems.                                                           *)

LEMMA HubInit == Init => HubInv
<1> SUFFICES ASSUME Init PROVE HubInv
  OBVIOUS
<1>1. NoRecord \in Record /\ NoThreat \in Threats
  BY TimesAreNumbers, BoundsAssumption DEF NoRecord, Record, NoThreat, NoOrigin, Threats, Origins
<1>2. Typed
  <2>1. now \in 0..MaxTime /\ contents \in 0..MaxContents /\ scan \in Nat
    <3>1. now = 0 /\ contents = 0 /\ scan = 0
      BY DEF Init
    <3>2. QED
      BY <3>1, BoundsAssumption
  <2>2. record \in [Records -> Record] /\ threat \in [Records -> Threats]
    BY <1>1 DEF Init
  <2>3. approved \in [Records -> SUBSET Nat] /\ raced \in [Records -> BOOLEAN]
    BY DEF Init
  <2>4. /\ import \in {NoImport} \cup Imports
        /\ session \in [Correlators -> {NoSession} \cup Reads \cup Assessments]
    BY DEF Init
  <2>5. crossed \in BOOLEAN
    BY DEF Init
  <2>6. QED
    BY <2>1, <2>2, <2>3, <2>4, <2>5 DEF Typed
<1>3. RecordInv
  BY BoundsAssumption DEF Init, RecordInv, NoRecord, NoImport
<1>4. ThreatInv
  <2>1. NoThreat.origin = NoOrigin /\ NoOrigin.content = 0 /\ ~NoThreat.matched
    BY DEF NoThreat, NoOrigin
  <2>2. contents = 0 /\ \A r \in Records : threat[r] = NoThreat
    BY DEF Init
  <2>3. ASSUME NEW r \in Records
        PROVE  threat[r].origin.content = 0 /\ ~threat[r].matched
    BY <2>1, <2>2
  <2>4. ASSUME NEW r \in Records
        PROVE  threat[r].origin.content <= contents /\ ~Materialised(threat[r])
    BY <2>2, <2>3 DEF Materialised
  <2>5. ASSUME NEW r \in Records PROVE ~Bad(r)
    BY <2>3 DEF Bad
  <2>6. QED
    BY <2>3, <2>4, <2>5 DEF ThreatInv
<1>5. SessionsInv
  BY DEF Init, SessionsInv, SessionOk, NoSession
<1>6. QED
  BY <1>2, <1>3, <1>4, <1>5 DEF HubInv

(* What the hub keeps in step, for any number of records, correlators and  *)
(* deliveries: effects belong to known records, and what is matched was    *)
(* approved as it is, but for the exceptions of ReviewGatesContent.        *)
THEOREM HubInvHolds == Spec => []HubInv
<1>1. HubInv /\ [Next]_vars => HubInv'
  <2> SUFFICES ASSUME HubInv, [Next]_vars PROVE HubInv'
    OBVIOUS
  <2>1. CASE UNCHANGED vars
    <3>1. Typed' /\ RecordInv'
      BY <2>1 DEF vars, HubInv, Typed, RecordInv, Known
    <3>2. QED
      BY <2>1, <3>1, QuietStep DEF vars
  <2>2. CASE Next
    BY <2>2, ReadRecordStep, WriteRecordStep, ReviewStep, IngestInventoryStep, CorrelateStep,
       ReadRisksStep, CommitStep, ListStep, TickStep DEF Next, Kinds
  <2>3. QED
    BY <2>1, <2>2
<1>2. QED
  BY <1>1, HubInit, PTL DEF Spec

(* Every row keeps the type its columns give it; a boundary job is planned *)
(* for a time to come, and what is approved was delivered.                 *)
THEOREM TypeCorrect == Spec => []TypeOK
<1>1. Init => TypeOK
  BY BoundsAssumption
     DEF Init, TypeOK, Record, Times, Forever, NoRecord, NoThreat
<1>2. HubInv /\ HubInv' /\ TypeOK /\ [Next]_vars => TypeOK'
  <2> SUFFICES ASSUME HubInv, HubInv', TypeOK, [Next]_vars PROVE TypeOK'
    OBVIOUS
  <2>1. /\ now' \in 0..MaxTime /\ contents' \in 0..MaxContents
        /\ record' \in [Records -> Record]
        /\ raced' \in [Records -> BOOLEAN]
        /\ \A r \in Records : threat'[r].risk \in {"none", "open", "closed"}
    BY DEF HubInv, Typed, Threats
  <2>2. ASSUME UNCHANGED <<approved, planned, scan, matching>>, due' \subseteq due
        PROVE  TypeOK'
    BY <2>1, <2>2 DEF TypeOK
  <2>3. ASSUME NEW r \in Records, NEW verdict \in {"approved", "rejected"}, Review(r, verdict)
        PROVE  TypeOK'
    <3>1. record[r].content \in 1..MaxContents
      BY <2>3, BoundsAssumption DEF Review, Known, TypeOK, Record
    <3>2. approved' \in [Records -> SUBSET (1..MaxContents)]
      <4> DEFINE A == IF verdict = "approved" THEN approved[r] \cup {record[r].content}
                      ELSE approved[r]
      <4>1. A \in SUBSET (1..MaxContents)
        BY <3>1 DEF TypeOK
      <4>2. approved' = [approved EXCEPT ![r] = A]
        BY <2>3 DEF Review
      <4> HIDE DEF A
      <4>3. QED
        BY <4>1, <4>2 DEF TypeOK
    <3>3. planned' \in [Records -> BOOLEAN]
      BY <2>3 DEF Review, TypeOK
    <3>4. due' \subseteq 1..MaxTime
      BY <2>3, <2>1, BoundsAssumption DEF Review, TypeOK
    <3>5. QED
      BY <2>1, <2>3, <3>2, <3>3, <3>4 DEF Review, TypeOK
  <2>4. ASSUME NEW S \in SUBSET Records, IngestInventory(S)
        PROVE  TypeOK'
    <3>1. scan' \in 0..MaxScans /\ matching' \subseteq Records
      BY <2>4, BoundsAssumption DEF IngestInventory, TypeOK
    <3>2. QED
      BY <2>1, <2>4, <3>1 DEF IngestInventory, TypeOK
  <2>5. ASSUME NEW r, NEW modified, NEW until, NEW kind, ReadRecord(r, modified, until, kind)
        PROVE  TypeOK'
    BY <2>2, <2>5 DEF ReadRecord
  <2>6. ASSUME NEW c \in Correlators,
               \/ \E job \in BOOLEAN : Correlate(c, job)
               \/ ReadRisks(c) \/ Commit(c)
        PROVE  TypeOK'
    BY <2>2, <2>6 DEF Correlate, ReadRisks, Commit
  <2>7. CASE WriteRecord \/ List \/ Tick \/ UNCHANGED vars
    BY <2>2, <2>7 DEF WriteRecord, List, Tick, vars
  <2>8. QED
    BY <2>3, <2>4, <2>5, <2>6, <2>7 DEF Next
<1>3. QED
  BY <1>1, <1>2, HubInvHolds, PTL DEF Spec

(* A listing never shows the effect of a record that is rejected, pending, *)
(* revoked or expired when it is made (retire_nonprocessable_effects),     *)
(* whatever correlations are under way.                                    *)
THEOREM ListingsFailClosed == Spec => []ListingFailsClosed
<1>1. HubInv => ListingFailsClosed
  <2> SUFFICES ASSUME HubInv, NEW r \in Listed PROVE Processable(record[r])
    BY DEF ListingFailsClosed
  <2>1. r \in Records /\ Reconciled[r].matched
    BY DEF Listed
  <2>2. threat[r] \in Threats /\ (threat[r].matched => Materialised(threat[r]))
          /\ (Materialised(threat[r]) => Known(r))
    BY <2>1 DEF HubInv, Typed, ThreatInv
  <2>3. ~Retired(threat[r]).matched
    BY <2>2, RetiredFacts
  <2>4. QED
    BY <2>1, <2>2, <2>3 DEF Reconciled
<1>2. QED
  BY <1>1, HubInvHolds, PTL

(* The content a record has now is only matched when an analyst approved   *)
(* it (import_feed, review_intelligence_record, correlate), unless a       *)
(* review raced the import or correlations overlapped.                     *)
THEOREM ReviewAlwaysGates == Spec => []ReviewGatesContent
<1>1. HubInv => ReviewGatesContent
  BY DEF HubInv, ThreatInv, ReviewGatesContent, ApprovedAsItIs, Bad, Reviewed, Carried
<1>2. QED
  BY <1>1, HubInvHolds, PTL

-----------------------------------------------------------------------------
(* The drained queue: whatever changes what a record demands queues a job, *)
(* or falls before a correlation that is still to write.                   *)

(* The effect is what the record demands, or one of the exceptions holds.  *)
Fine(r) ==
    /\ Demanded(r) <=> threat[r].matched /\ threat[r].risk = "open" /\ threat[r].origin.scan = scan
    /\ Demanded(r) => Carried(r)
Excepted(r) ==
    \/ Expired(r) /\ (~planned[r] \/ raced[r])
    \/ threat[r].modified > record[r].modified

(* Written over the effect there is now, what session s assigns is what    *)
(* the record demands: a column it leaves out has that value already.      *)
Reflects(r, s) ==
    /\ threat[r].matched => s.old[r].matched
    /\ ~Demanded(r) => ~s.new[r].matched
    /\ Demanded(r) =>
          /\ s.new[r].matched /\ s.new[r].risk = "open"
          /\ s.new[r].origin.content = record[r].content /\ s.new[r].origin.scan = scan
          /\ s.old[r].matched => threat[r].matched
          /\ s.old[r].origin.scan = threat[r].origin.scan
          /\ s.step = "assessed" /\ s.old[r].risk = "open" => threat[r].risk = "open"

(* A correlation of the record is waiting, or will be: a job whose session *)
(* another one overtook is tried again or leaves crossed.                  *)
Retries(r, s) == s.step # "idle" /\ s.job /\ (s.stale \/ Reflects(r, s))
Awaited(r) == queued \/ Excepted(r) \/ \E c \in Correlators : Retries(r, session[c])

(* A session that will write what the record demands, or leave crossed.    *)
Lands(r, s) == s.step # "idle" /\ IF s.stale THEN ~Collides(s) ELSE Reflects(r, s)
Accounted(r) ==
    crossed \/ Fine(r) \/ Awaited(r) \/ \E c \in Correlators : Lands(r, session[c])
Current(r, s) == s.step # "idle" /\ ~s.stale => Reflects(r, s) \/ Awaited(r)
RowsInv == \A r \in Records : Accounted(r) /\ \A c \in Correlators : Current(r, session[c])

(* A job is due at the end of each validity that was planned, and a        *)
(* session never takes an effect back to an older revision.                *)
BoundaryJobs ==
    \A r \in Records :
        record[r].status = "approved" /\ planned[r] /\ ~raced[r] /\ record[r].until \in (now + 1)..MaxTime
            => record[r].until \in due
EffectTimes == \A r \in Records : ~Materialised(threat[r]) => threat[r].modified = 0
Forwards(s) ==
    s.step # "idle" =>
        /\ scan > 0
        /\ \A r \in Records : /\ s.new[r].modified >= s.old[r].modified
                              /\ s.stale \/ threat[r].modified = s.old[r].modified

DrainInv ==
    /\ planned \in [Records -> BOOLEAN] /\ queued \in BOOLEAN
    /\ BoundaryJobs /\ EffectTimes
    /\ \A c \in Correlators : Forwards(session[c])
    /\ scan > 0 => RowsInv

LEMMA FieldTypes ==
    ASSUME Typed, NEW r \in Records
    PROVE  /\ threat[r] \in Threats /\ record[r] \in Record
           /\ threat[r].modified \in Nat /\ record[r].modified \in Nat
           /\ record[r].until \in Nat /\ now \in Nat /\ scan \in Nat
<1>1. threat[r] \in Threats /\ record[r] \in Record
  BY DEF Typed
<1>2. threat[r].modified \in Times /\ record[r].modified \in Times /\ record[r].until \in Times \cup {Forever}
  BY <1>1 DEF Threats, Record
<1>3. now \in Nat /\ scan \in Nat
  BY BoundsAssumption DEF Typed
<1>4. threat[r].modified \in Nat /\ record[r].modified \in Nat /\ record[r].until \in Nat
  BY <1>2, TimesAreNumbers
<1>5. QED
  BY <1>1, <1>3, <1>4

LEMMA Requeued ==
    ASSUME queued'
    PROVE  RowsInv'
  BY DEF RowsInv, Accounted, Awaited, Current

(* Steps that leave the sessions, and of each effect its time and content. *)
LEMMA TimesKept ==
    ASSUME DrainInv, session' = session, scan' >= scan, scan \in Nat, scan' \in Nat,
           \A r \in Records : /\ threat'[r].modified = threat[r].modified
                              /\ threat'[r].origin.content = threat[r].origin.content
    PROVE  EffectTimes' /\ \A c \in Correlators : Forwards(session[c])'
<1>1. EffectTimes'
  BY DEF DrainInv, EffectTimes, Materialised
<1>2. ASSUME NEW c \in Correlators PROVE Forwards(session[c])'
  BY DEF DrainInv, Forwards
<1>3. QED
  BY <1>1, <1>2

(* A row that a step leaves as it was, or whose record demands nothing     *)
(* after it and whose effect is not matched.                               *)
Same(r) ==
    /\ threat'[r] = threat[r] /\ record'[r].content = record[r].content
    /\ Demanded(r)' <=> Demanded(r)
    /\ Excepted(r) => Excepted(r)'
Quieted(r) ==
    /\ ~Demanded(r)' /\ ~threat'[r].matched
    /\ \/ ~Demanded(r) /\ (Excepted(r) => Excepted(r)')
       \/ \A c \in Correlators : session[c].step # "idle" => ~session[c].new[r].matched

LEMMA RowsKept ==
    ASSUME RowsInv, UNCHANGED <<scan, session, crossed>>, queued => queued',
           \A r \in Records :
              /\ threat'[r].origin.content = threat[r].origin.content
              /\ queued' \/ Excepted(r)' \/ Same(r) \/ Quieted(r)
    PROVE  RowsInv'
<1>1. ASSUME NEW s PROVE Collides(s)' <=> Collides(s)
  BY DEF Collides, Materialised
<1>2. SUFFICES ASSUME NEW r \in Records
               PROVE  Accounted(r)' /\ \A c \in Correlators : Current(r, session[c])'
  BY DEF RowsInv
<1>3. Accounted(r) /\ \A c \in Correlators : Current(r, session[c])
  BY DEF RowsInv
<1>4. CASE queued' \/ Excepted(r)'
  BY <1>4 DEF Accounted, Awaited, Current
<1>5. CASE Same(r)
  <2>1. ASSUME NEW s PROVE Reflects(r, s)' <=> Reflects(r, s)
    BY <1>5 DEF Same, Reflects
  <2>2. Fine(r) => Fine(r)'
    BY <1>5 DEF Same, Fine, Carried
  <2>3. Awaited(r) => Awaited(r)'
    BY <1>5, <2>1 DEF Same, Awaited, Retries
  <2>4. QED
    BY <1>1, <1>3, <2>1, <2>2, <2>3 DEF Accounted, Current, Lands
<1>6. CASE Quieted(r)
  <2>1. Fine(r)'
    BY <1>6 DEF Quieted, Fine
  <2>2. ASSUME NEW s, ~s.new[r].matched PROVE Reflects(r, s)'
    BY <1>6, <2>2 DEF Quieted, Reflects
  <2>3. ASSUME NEW c \in Correlators PROVE Current(r, session[c])'
    <3>1. CASE ~Demanded(r) /\ (Excepted(r) => Excepted(r)')
      <4>1. ASSUME NEW s, Reflects(r, s) PROVE Reflects(r, s)'
        BY <2>2, <3>1, <4>1 DEF Reflects
      <4>2. Awaited(r) => Awaited(r)'
        BY <3>1, <4>1 DEF Awaited, Retries
      <4>3. QED
        BY <1>3, <4>1, <4>2 DEF Current
    <3>2. CASE session[c].step # "idle" => ~session[c].new[r].matched
      BY <2>2, <3>2 DEF Current
    <3>3. QED
      BY <1>6, <3>1, <3>2 DEF Quieted
  <2>4. QED
    BY <2>1, <2>3 DEF Accounted
<1>7. QED
  BY <1>4, <1>5, <1>6

-----------------------------------------------------------------------------
(* The drained queue: one lemma per action.                                *)

LEMMA DrainQuiet ==
    ASSUME HubInv, DrainInv,
           UNCHANGED <<now, record, planned, raced, scan, matching, threat, queued, due, session, crossed>>
    PROVE  DrainInv'
<1>1. BoundaryJobs'
  BY DEF DrainInv, BoundaryJobs
<1>2. EffectTimes' /\ \A c \in Correlators : Forwards(session[c])'
  BY TimesKept DEF HubInv, Typed, DrainInv
<1>3. \A r \in Records : Same(r)
  BY DEF Same, Demanded, Processable, Active, Excepted, Expired
<1>4. scan > 0 => RowsInv'
  BY <1>3, RowsKept DEF DrainInv
<1>5. QED
  BY <1>1, <1>2, <1>4 DEF DrainInv

LEMMA DrainWriteRecord ==
    ASSUME HubInv, DrainInv, WriteRecord
    PROVE  DrainInv'
<1>1. Typed /\ RecordInv /\ ThreatInv /\ SessionsInv /\ import.open
  BY DEF HubInv, WriteRecord
<1>0. PICK r : r = import.r
  OBVIOUS
<1> DEFINE n == Stored(import.read, Delivered(import), record[r])
<1>2. /\ r \in Records /\ n \in Record
      /\ n.status = "approved" => raced[r] /\ Known(r)
  <2>1. import \in Imports => r \in Records
    BY <1>0 DEF Imports
  <2>2. n = Stored(import.read, Delivered(import), record[import.r])
    BY <1>0
  <2> HIDE DEF n
  <2>3. QED
    BY <1>0, <1>1, <2>1, <2>2, StoredFacts
<1>3. /\ record' = [record EXCEPT ![r] = n]
      /\ UNCHANGED <<now, planned, raced, scan, matching, due, session, crossed>>
      /\ IF Known(r) THEN threat' = [threat EXCEPT ![r] = Retired(@)] /\ Enqueue
         ELSE threat' = threat /\ queued' = queued
  BY <1>0 DEF WriteRecord
<1> HIDE DEF n
<1>4. record'[r] = n /\ \A q \in Records \ {r} : record'[q] = record[q]
  BY <1>1, <1>2, <1>3 DEF Typed
<1>5. ASSUME NEW q \in Records
      PROVE  /\ threat'[q].modified = threat[q].modified
             /\ threat'[q].origin.content = threat[q].origin.content
  <2>1. threat[q] \in Threats
    BY <1>1 DEF Typed
  <2>2. threat'[q] \in {threat[q], Retired(threat[q])}
    BY <1>1, <1>3 DEF Typed
  <2>3. QED
    BY <2>1, <2>2, RetiredFacts
<1>6. BoundaryJobs'
  BY <1>2, <1>3, <1>4 DEF DrainInv, BoundaryJobs
<1>7. EffectTimes' /\ \A c \in Correlators : Forwards(session[c])'
  BY <1>1, <1>3, <1>5, TimesKept DEF Typed
<1>8. queued' \in BOOLEAN
  BY <1>3 DEF DrainInv, Enqueue
<1>9. ASSUME scan > 0 PROVE RowsInv'
  <2>1. CASE Known(r)
    BY <1>3, <1>9, <2>1, Requeued DEF Enqueue
  <2>2. CASE ~Known(r)
    <3>1. threat' = threat /\ queued' = queued
      BY <1>3, <2>2
    <3>2. ASSUME NEW q \in Records, q # r PROVE Same(q)
      BY <1>3, <1>4, <3>1, <3>2 DEF Same, Demanded, Processable, Active, Excepted, Expired
    <3>3. Quieted(r)
      <4>1. ~Demanded(r)'
        BY <1>2, <1>4, <2>2 DEF Demanded, Processable
      <4>2. ~threat'[r].matched
        BY <1>1, <1>2, <2>2, <3>1 DEF ThreatInv
      <4>3. ASSUME NEW c \in Correlators, session[c].step # "idle"
            PROVE  ~session[c].new[r].matched
        <5>1. SessionOk(session[c])
          BY <1>1 DEF SessionsInv
        <5>2. Assigns(r, session[c].old[r], session[c].new[r])
          BY <1>2, <4>3, <5>1 DEF SessionOk
        <5>3. QED
          BY <2>2, <5>2 DEF Assigns
      <4>4. QED
        BY <4>1, <4>2, <4>3 DEF Quieted
    <3>4. RowsInv
      BY <1>9 DEF DrainInv
    <3>5. QED
      BY <1>3, <1>5, <3>1, <3>2, <3>3, <3>4, RowsKept
  <2>3. QED
    BY <2>1, <2>2
<1>10. QED
  BY <1>3, <1>6, <1>7, <1>8, <1>9 DEF DrainInv

LEMMA DrainReview ==
    ASSUME HubInv, DrainInv, NEW r \in Records, NEW verdict \in {"approved", "rejected"},
           Review(r, verdict)
    PROVE  DrainInv'
<1>1. Typed /\ record[r] \in Record
  BY DEF HubInv, Typed
<1>2. /\ record' = [record EXCEPT ![r] = [@ EXCEPT !.status = verdict]]
      /\ planned' = [planned EXCEPT ![r] = scan > 0]
      /\ raced' = [raced EXCEPT ![r] = @ \/ (import.open /\ import.r = r)]
      /\ due' = IF verdict = "approved" /\ record[r].until \in (now + 1)..MaxTime /\ scan > 0
                THEN due \cup {record[r].until} ELSE due
      /\ threat' = IF Processable(record'[r]) THEN threat ELSE [threat EXCEPT ![r] = Retired(@)]
      /\ Enqueue
      /\ UNCHANGED <<now, scan, session, crossed>>
  BY DEF Review
<1>3. /\ record'[r].status = verdict /\ record'[r].until = record[r].until
      /\ \A q \in Records \ {r} : record'[q] = record[q]
  <2> DEFINE n == [record[r] EXCEPT !.status = verdict]
  <2>1. n.status = verdict /\ n.until = record[r].until
    BY <1>1 DEF Record
  <2>2. record'[r] = n /\ \A q \in Records \ {r} : record'[q] = record[q]
    BY <1>1, <1>2 DEF Typed
  <2>3. QED
    BY <2>1, <2>2
<1>4. /\ planned' \in [Records -> BOOLEAN] /\ (planned'[r] => scan > 0)
      /\ \A q \in Records \ {r} : planned'[q] = planned[q]
  <2>1. planned \in [Records -> BOOLEAN] /\ (scan > 0) \in BOOLEAN
    BY <1>1, FieldTypes DEF DrainInv
  <2>2. QED
    BY <1>2, <2>1
<1>5. \A q \in Records \ {r} : raced'[q] = raced[q]
  BY <1>1, <1>2 DEF Typed
<1>6. ASSUME NEW q \in Records
      PROVE  /\ threat'[q].modified = threat[q].modified
             /\ threat'[q].origin.content = threat[q].origin.content
  <2>1. threat[q] \in Threats
    BY <1>1 DEF Typed
  <2>2. threat'[q] \in {threat[q], Retired(threat[q])}
    BY <1>1, <1>2 DEF Typed
  <2>3. QED
    BY <2>1, <2>2, RetiredFacts
<1>7. BoundaryJobs'
  <2> SUFFICES ASSUME NEW q \in Records, record'[q].status = "approved", planned'[q], ~raced'[q],
                      record'[q].until \in (now + 1)..MaxTime
               PROVE  record'[q].until \in due'
    BY <1>2 DEF BoundaryJobs
  <2>1. CASE q = r
    BY <1>2, <1>3, <1>4, <2>1
  <2>2. CASE q # r
    <3>1. record[q].until \in due
      BY <1>3, <1>4, <1>5, <2>2 DEF DrainInv, BoundaryJobs
    <3>2. QED
      BY <1>2, <1>3, <2>2, <3>1
  <2>3. QED
    BY <2>1, <2>2
<1>8. EffectTimes' /\ \A c \in Correlators : Forwards(session[c])'
  BY <1>1, <1>2, <1>6, TimesKept DEF Typed
<1>9. queued' \in BOOLEAN /\ (scan > 0 => RowsInv')
  BY <1>2, Requeued DEF DrainInv, Enqueue
<1>10. QED
  BY <1>2, <1>4, <1>7, <1>8, <1>9 DEF DrainInv

LEMMA DrainIngestInventory ==
    ASSUME HubInv, DrainInv, NEW S \in SUBSET Records, IngestInventory(S)
    PROVE  DrainInv'
<1>1. Typed
  BY DEF HubInv
<1>2. /\ scan' = scan + 1 /\ queued' = TRUE
      /\ threat' = [r \in Records |-> Moved(threat[r], record[r], r \in S, scan + 1)]
      /\ UNCHANGED <<now, record, planned, raced, due, session, crossed>>
  BY DEF IngestInventory
<1>3. ASSUME NEW r \in Records
      PROVE  /\ threat'[r].modified = threat[r].modified
             /\ threat'[r].origin.content = threat[r].origin.content
  <2> DEFINE hit == r \in S
  <2>1. threat[r] \in Threats /\ record[r] \in Record /\ hit \in BOOLEAN /\ scan + 1 \in Nat
    BY <1>1 DEF Typed
  <2>2. threat'[r] = Moved(threat[r], record[r], hit, scan + 1)
    BY <1>2
  <2> HIDE DEF hit
  <2>3. QED
    BY <2>1, <2>2, MovedFacts
<1>4. BoundaryJobs'
  BY <1>2 DEF DrainInv, BoundaryJobs
<1>5. EffectTimes' /\ \A c \in Correlators : Forwards(session[c])'
  BY <1>1, <1>2, <1>3, TimesKept DEF Typed
<1>6. RowsInv'
  BY <1>2, Requeued
<1>7. QED
  BY <1>2, <1>4, <1>5, <1>6 DEF DrainInv

LEMMA DrainList ==
    ASSUME HubInv, DrainInv, List
    PROVE  DrainInv'
<1>1. Typed /\ ThreatInv
  BY DEF HubInv
<1>2. /\ threat' = Reconciled
      /\ UNCHANGED <<now, record, planned, raced, scan, matching, queued, due, session, crossed>>
  BY DEF List
<1>3. ASSUME NEW r \in Records
      PROVE  /\ threat'[r].modified = threat[r].modified
             /\ threat'[r].origin.content = threat[r].origin.content
             /\ threat'[r] = threat[r] \/ (~Processable(record[r]) /\ ~threat'[r].matched)
  <2>1. threat[r] \in Threats /\ (threat[r].matched => Materialised(threat[r]))
    BY <1>1 DEF Typed, ThreatInv
  <2>2. threat'[r] = IF Known(r) /\ ~Processable(record[r]) THEN Retired(threat[r]) ELSE threat[r]
    BY <1>2 DEF Reconciled
  <2>3. QED
    BY <2>1, <2>2, RetiredFacts
<1>4. BoundaryJobs'
  BY <1>2 DEF DrainInv, BoundaryJobs
<1>5. EffectTimes' /\ \A c \in Correlators : Forwards(session[c])'
  BY <1>1, <1>2, <1>3, TimesKept DEF Typed
<1>6. ASSUME NEW r \in Records PROVE Same(r) \/ Quieted(r)
  <2>1. Demanded(r)' <=> Demanded(r)
    BY <1>2 DEF Demanded, Processable, Active
  <2>2. Excepted(r) => Excepted(r)'
    BY <1>2, <1>3 DEF Excepted, Expired
  <2>3. QED
    BY <1>2, <1>3, <2>1, <2>2 DEF Same, Quieted, Demanded
<1>7. scan > 0 => RowsInv'
  BY <1>2, <1>3, <1>6, RowsKept DEF DrainInv
<1>8. QED
  BY <1>2, <1>4, <1>5, <1>7 DEF DrainInv

(* A record whose validity ends has its job due, or is an exception.       *)
LEMMA DrainTick ==
    ASSUME HubInv, DrainInv, Tick
    PROVE  DrainInv'
<1>1. Typed
  BY DEF HubInv
<1>2. /\ now < MaxTime /\ now' = now + 1
      /\ queued' = (queued \/ (now + 1 \in due /\ scan > 0))
      /\ due' = due \ {now + 1}
      /\ UNCHANGED <<record, planned, raced, scan, matching, threat, session, crossed>>
  BY DEF Tick
<1>3. now \in Nat /\ MaxTime \in Nat
  BY <1>1, BoundsAssumption DEF Typed
<1>4. BoundaryJobs'
  <2> SUFFICES ASSUME NEW r \in Records, record[r].status = "approved", planned[r], ~raced[r],
                      record[r].until \in (now + 2)..MaxTime
               PROVE  record[r].until \in due'
    BY <1>2, <1>3 DEF BoundaryJobs
  <2>1. record[r].until \in (now + 1)..MaxTime /\ record[r].until # now + 1
    BY <1>3
  <2>2. QED
    BY <1>2, <2>1 DEF DrainInv, BoundaryJobs
<1>5. EffectTimes' /\ \A c \in Correlators : Forwards(session[c])'
  BY <1>1, <1>2, TimesKept DEF Typed, DrainInv
<1>6. ASSUME NEW r \in Records, scan > 0 PROVE queued' \/ Excepted(r)' \/ Same(r)
  <2>1. record[r].until \in Nat
    BY <1>1, FieldTypes
  <2>2. Excepted(r) => Excepted(r)'
    <3>1. Expired(r) => Expired(r)'
      BY <1>2, <1>3, <2>1 DEF Expired
    <3>2. QED
      BY <1>2, <3>1 DEF Excepted
  <2>3. CASE Demanded(r)' <=> Demanded(r)
    BY <1>2, <2>2, <2>3 DEF Same
  <2>4. CASE record[r].status = "approved" /\ record[r].until = now + 1
    <3>1. Expired(r)' /\ record[r].until \in (now + 1)..MaxTime
      BY <1>2, <1>3, <2>4 DEF Expired
    <3>2. CASE planned[r] /\ ~raced[r]
      <4>1. now + 1 \in due
        BY <2>4, <3>1, <3>2 DEF DrainInv, BoundaryJobs
      <4>2. QED
        BY <1>2, <1>6, <4>1
    <3>3. CASE ~planned[r] \/ raced[r]
      BY <1>2, <3>1, <3>3 DEF Excepted
    <3>4. QED
      BY <3>2, <3>3
  <2>5. ASSUME record[r].status # "approved" \/ record[r].until # now + 1
        PROVE  Demanded(r)' <=> Demanded(r)
    <3>1. record[r].status = "approved" => (record[r].until > now' <=> record[r].until > now)
      BY <1>2, <1>3, <2>1, <2>5
    <3>2. QED
      BY <1>2, <3>1 DEF Demanded, Processable, Active
  <2>6. QED
    BY <2>3, <2>4, <2>5
<1>7. queued' \in BOOLEAN /\ (queued => queued')
  BY <1>2 DEF DrainInv
<1>8. scan > 0 => RowsInv'
  BY <1>2, <1>6, <1>7, RowsKept DEF DrainInv
<1>9. QED
  BY <1>2, <1>4, <1>5, <1>7, <1>8 DEF DrainInv

(* What a correlation assigns is what the record demands, unless the       *)
(* effect comes of a later revision; it never goes back in time.           *)
LEMMA AssignedReflects ==
    ASSUME HubInv, EffectTimes, NEW r \in Records, NEW s, s.old[r] = threat[r],
           s.new[r] = Assigned(r), s.step = "read"
    PROVE  /\ Reflects(r, s) \/ Excepted(r)
           /\ s.new[r].modified >= threat[r].modified
<1> DEFINE hit == Processable(record[r]) /\ r \in matching /\ record[r].indexed
           kept == \/ ~Considered(r)
                   \/ Materialised(threat[r]) /\ threat[r].modified > record[r].modified
                   \/ ~Materialised(threat[r]) /\ ~hit
<1>1. /\ threat[r] \in Threats /\ threat[r].modified \in Nat /\ record[r].modified \in Nat
      /\ ~Materialised(threat[r]) => threat[r].modified = 0 /\ ~threat[r].matched
  BY FieldTypes DEF HubInv, ThreatInv, EffectTimes
<1>2. Demanded(r) <=> hit
  BY DEF Demanded
<1>3. hit => Considered(r)
  BY DEF Considered
<1>4. CASE kept
  <2>1. s.new[r] = [threat[r] EXCEPT !.risk = "kept"]
    BY <1>4 DEF Assigned
  <2>2. s.new[r].modified = threat[r].modified /\ s.new[r].matched = threat[r].matched
    BY <1>1, <2>1 DEF Threats
  <2>3. CASE Materialised(threat[r]) /\ threat[r].modified > record[r].modified
    BY <1>1, <2>2, <2>3 DEF Excepted
  <2>4. CASE ~Materialised(threat[r]) /\ ~hit
    BY <1>1, <1>2, <2>2, <2>4 DEF Reflects
  <2>5. ~Considered(r) => ~Materialised(threat[r]) /\ ~hit
    BY <1>3 DEF Considered
  <2>6. QED
    BY <1>4, <2>3, <2>4, <2>5
<1>5. CASE ~kept
  <2>1. s.new[r] = [modified |-> record[r].modified, matched |-> hit,
                    origin |-> [content |-> record[r].content, scan |-> scan,
                                withdrawn |-> FALSE],
                    risk |-> IF hit THEN "open" ELSE "closed"]
    BY <1>5 DEF Assigned
  <2>2. s.new[r].modified >= threat[r].modified
    BY <1>1, <1>5, <2>1
  <2>3. /\ s.new[r].matched = hit /\ s.new[r].risk = IF hit THEN "open" ELSE "closed"
        /\ s.new[r].origin.content = record[r].content /\ s.new[r].origin.scan = scan
    BY <2>1
  <2> HIDE DEF hit
  <2>4. Reflects(r, s)
    BY <1>2, <2>3 DEF Reflects
  <2>5. QED
    BY <2>2, <2>4
<1>6. QED
  BY <1>4, <1>5

(* Reading changes no row.                                                 *)
LEMMA StillRow ==
    ASSUME NEW r, NEW s, UNCHANGED <<now, record, planned, raced, scan, matching, threat>>
    PROVE  /\ Reflects(r, s)' <=> Reflects(r, s)
           /\ Lands(r, s)' <=> Lands(r, s)
           /\ Retries(r, s)' <=> Retries(r, s)
           /\ Excepted(r)' <=> Excepted(r)
           /\ Fine(r)' <=> Fine(r)
<1>1. Demanded(r)' <=> Demanded(r)
  BY DEF Demanded, Processable, Active
<1>2. Reflects(r, s)' <=> Reflects(r, s)
  BY <1>1 DEF Reflects
<1>3. Collides(s)' <=> Collides(s)
  BY DEF Collides
<1>4. Excepted(r)' <=> Excepted(r)
  BY DEF Excepted, Expired
<1>5. Fine(r)' <=> Fine(r)
  BY <1>1 DEF Fine, Carried
<1>6. QED
  BY <1>2, <1>3, <1>4, <1>5 DEF Lands, Retries

LEMMA DrainCorrelate ==
    ASSUME HubInv, DrainInv, NEW c \in Correlators, NEW job \in BOOLEAN, Correlate(c, job)
    PROVE  DrainInv'
<1> DEFINE s == [step |-> "read", stale |-> FALSE, job |-> job, old |-> threat,
                 new |-> [r \in Records |-> Assigned(r)]]
<1>1. Typed
  BY DEF HubInv
<1>2. /\ session[c].step = "idle" /\ scan > 0
      /\ queued' = (queued /\ ~job) /\ session' = [session EXCEPT ![c] = s]
      /\ UNCHANGED <<now, record, planned, raced, scan, matching, threat, due, crossed>>
  BY DEF Correlate
<1>3. /\ s.step = "read" /\ ~s.stale /\ s.job = job
      /\ \A r \in Records : s.old[r] = threat[r] /\ s.new[r] = Assigned(r)
  OBVIOUS
<1>4. session'[c] = s /\ \A d \in Correlators \ {c} : session'[d] = session[d]
  BY <1>1, <1>2 DEF Typed
<1>5. PICK n : n = session'[c]
  OBVIOUS
<1>6. /\ n.step = "read" /\ ~n.stale /\ n.job = job
      /\ \A r \in Records : n.old[r] = threat[r] /\ n.new[r] = Assigned(r)
  BY <1>3, <1>4, <1>5
<1> HIDE DEF s
<1>7. ASSUME NEW r \in Records
      PROVE  (Reflects(r, n) \/ Excepted(r)) /\ n.new[r].modified >= threat[r].modified
  BY <1>6, AssignedReflects DEF DrainInv
<1>8. ASSUME NEW r, NEW q
      PROVE  /\ Reflects(r, q)' <=> Reflects(r, q)
             /\ Lands(r, q)' <=> Lands(r, q)
             /\ Retries(r, q)' <=> Retries(r, q)
             /\ Excepted(r)' <=> Excepted(r)
             /\ Fine(r)' <=> Fine(r)
  BY <1>2, StillRow
<1>9. ASSUME NEW d \in Correlators, session[d].step # "idle"
      PROVE  session'[d] = session[d]
  BY <1>2, <1>4, <1>9
<1>10. ASSUME NEW r \in Records, Awaited(r) PROVE Awaited(r)'
  <2>1. CASE queued /\ ~job
    BY <1>2, <2>1 DEF Awaited
  <2>2. CASE job
    <3>1. Retries(r, n)' \/ Excepted(r)'
      BY <1>6, <1>7, <1>8, <2>2 DEF Retries
    <3>2. QED
      BY <1>5, <3>1 DEF Awaited
  <2>3. CASE Excepted(r)
    BY <1>8, <2>3 DEF Awaited
  <2>4. ASSUME NEW d \in Correlators, Retries(r, session[d])
        PROVE  Awaited(r)'
    BY <1>8, <1>9, <2>4 DEF Awaited, Retries
  <2>5. QED
    BY <1>10, <2>1, <2>2, <2>3, <2>4 DEF Awaited
<1>11. ASSUME NEW r \in Records PROVE Accounted(r)'
  <2>1. Accounted(r)
    BY <1>2 DEF DrainInv, RowsInv
  <2>2. ASSUME NEW d \in Correlators, Lands(r, session[d]) PROVE Accounted(r)'
    BY <1>8, <1>9, <2>2 DEF Accounted, Lands
  <2>3. QED
    BY <1>2, <1>8, <1>10, <2>1, <2>2 DEF Accounted
<1>12. ASSUME NEW r \in Records, NEW d \in Correlators PROVE Current(r, session[d])'
  <2>1. CASE d = c
    <3>1. Reflects(r, n)' \/ Excepted(r)'
      BY <1>7, <1>8
    <3>2. QED
      BY <1>5, <2>1, <3>1 DEF Current, Awaited
  <2>2. CASE d # c
    <3>1. Current(r, session[d]) /\ session'[d] = session[d]
      BY <1>2, <1>4, <2>2 DEF DrainInv, RowsInv
    <3>2. QED
      BY <1>8, <1>10, <3>1 DEF Current
  <2>3. QED
    BY <2>1, <2>2
<1>13. ASSUME NEW d \in Correlators PROVE Forwards(session[d])'
  <2>1. CASE d = c
    BY <1>2, <1>5, <1>6, <1>7, <2>1 DEF Forwards
  <2>2. CASE d # c
    BY <1>2, <1>4, <2>2 DEF Forwards, DrainInv
  <2>3. QED
    BY <2>1, <2>2
<1>14. BoundaryJobs' /\ EffectTimes'
  BY <1>2 DEF DrainInv, BoundaryJobs, EffectTimes
<1>15. queued' \in BOOLEAN /\ planned' \in [Records -> BOOLEAN]
  BY <1>2 DEF DrainInv
<1>16. QED
  BY <1>11, <1>12, <1>13, <1>14, <1>15 DEF DrainInv, RowsInv

LEMMA DrainReadRisks ==
    ASSUME HubInv, DrainInv, NEW c \in Correlators, ReadRisks(c)
    PROVE  DrainInv'
<1> DEFINE s == session[c]
           risk == [r \in Records |-> IF Materialised(s.old[r]) THEN threat[r].risk ELSE "none"]
           assigned(r) == IF s.new[r].risk = "kept" \/ (s.new[r].risk = "closed" /\ risk[r] = "none")
                          THEN risk[r] ELSE s.new[r].risk
           old == [r \in Records |-> [s.old[r] EXCEPT !.risk = risk[r]]]
           new == [r \in Records |-> [s.new[r] EXCEPT !.risk = assigned(r)]]
           t == [s EXCEPT !.step = "assessed", !.old = old, !.new = new]
<1>1. Typed
  BY DEF HubInv
<1>2. /\ session' = [session EXCEPT ![c] = t] /\ s.step = "read"
      /\ UNCHANGED <<now, record, planned, raced, scan, matching, threat, queued, due, crossed>>
  BY DEF ReadRisks
<1>3. s \in Reads
  BY <1>1, <1>2 DEF Typed, NoSession, Assessments
<1>4. s.old \in [Records -> Threats] /\ s.new \in [Records -> Assignments]
  BY <1>3 DEF Reads
<1>5. ASSUME NEW r \in Records
      PROVE  /\ Keeps(s.old[r], old[r]) /\ Keeps(s.new[r], new[r])
             /\ s.new[r].risk = "open" => new[r].risk = "open"
             /\ old[r].risk = "open" => threat[r].risk = "open"
  <2>1. s.old[r] \in Threats /\ s.new[r] \in Assignments
    BY <1>4
  <2>2. /\ s.new[r].risk = "open" => assigned(r) = "open"
        /\ risk[r] = "open" => threat[r].risk = "open"
    OBVIOUS
  <2>3. old[r] = [s.old[r] EXCEPT !.risk = risk[r]] /\ new[r] = [s.new[r] EXCEPT !.risk = assigned(r)]
    OBVIOUS
  <2> HIDE DEF risk, assigned, old, new
  <2>4. old[r].risk = risk[r] /\ new[r].risk = assigned(r)
    BY <2>1, <2>3 DEF Threats, Assignments
  <2>5. Keeps(s.old[r], old[r]) /\ Keeps(s.new[r], new[r])
    BY <2>1, <2>3 DEF Threats, Assignments, Keeps
  <2>6. QED
    BY <2>2, <2>4, <2>5
<1> HIDE DEF old, new, risk, assigned
<1>6. /\ t.step = "assessed" /\ t.stale = s.stale /\ t.job = s.job /\ t.old = old /\ t.new = new
  BY <1>3 DEF Reads
<1>7. session'[c] = t /\ \A d \in Correlators \ {c} : session'[d] = session[d]
  BY <1>1, <1>2 DEF Typed
<1>8. PICK p, q : p = s /\ q = t
  OBVIOUS
<1>9. /\ session[c] = p /\ session'[c] = q
      /\ p.step = "read" /\ q.step = "assessed" /\ q.stale = p.stale /\ q.job = p.job
  BY <1>2, <1>6, <1>7, <1>8
<1>10. ASSUME NEW r \in Records
       PROVE  /\ Keeps(p.old[r], q.old[r]) /\ Keeps(p.new[r], q.new[r])
              /\ p.new[r].risk = "open" => q.new[r].risk = "open"
              /\ q.old[r].risk = "open" => threat[r].risk = "open"
  BY <1>5, <1>6, <1>8
<1> HIDE DEF s, t
<1>11. ASSUME NEW r, NEW w
       PROVE  /\ Reflects(r, w)' <=> Reflects(r, w)
              /\ Lands(r, w)' <=> Lands(r, w)
              /\ Retries(r, w)' <=> Retries(r, w)
              /\ Excepted(r)' <=> Excepted(r)
              /\ Fine(r)' <=> Fine(r)
  BY <1>2, StillRow
<1>12. ASSUME NEW r \in Records
       PROVE  /\ Reflects(r, p) => Reflects(r, q)
              /\ Lands(r, p) => Lands(r, q)
              /\ Retries(r, p) => Retries(r, q)
  <2>1. Reflects(r, p) => Reflects(r, q)
    BY <1>9, <1>10 DEF Reflects, Keeps
  <2>2. Collides(q) => Collides(p)
    BY <1>10 DEF Collides, Materialised, Keeps
  <2>3. QED
    BY <1>9, <2>1, <2>2 DEF Lands, Retries
<1>13. ASSUME NEW r \in Records, NEW d \in Correlators
       PROVE  /\ Lands(r, session[d]) => Lands(r, session[d])'
              /\ Retries(r, session[d]) => Retries(r, session[d])'
  <2>1. CASE d = c
    <3>1. session[d] = p /\ session'[d] = q
      BY <1>9, <2>1
    <3>2. QED
      BY <1>11, <1>12, <3>1
  <2>2. CASE d # c
    BY <1>7, <1>11, <2>2
  <2>3. QED
    BY <2>1, <2>2
<1>14. ASSUME NEW r \in Records, Awaited(r) PROVE Awaited(r)'
  BY <1>2, <1>11, <1>13, <1>14 DEF Awaited
<1>15. ASSUME NEW r \in Records, scan > 0 PROVE Accounted(r)'
  <2>1. Accounted(r)
    BY <1>15 DEF DrainInv, RowsInv
  <2>2. QED
    BY <1>2, <1>11, <1>13, <1>14, <2>1 DEF Accounted
<1>16. ASSUME NEW r \in Records, NEW d \in Correlators, scan > 0 PROVE Current(r, session[d])'
  <2>1. Current(r, session[d])
    BY <1>16 DEF DrainInv, RowsInv
  <2>2. CASE d = c
    BY <1>9, <1>11, <1>12, <1>14, <2>1, <2>2 DEF Current
  <2>3. CASE d # c
    BY <1>7, <1>11, <1>14, <2>1, <2>3 DEF Current
  <2>4. QED
    BY <2>2, <2>3
<1>17. ASSUME NEW d \in Correlators PROVE Forwards(session[d])'
  <2>1. Forwards(session[d])
    BY DEF DrainInv
  <2>2. CASE d = c
    BY <1>2, <1>9, <1>10, <2>1, <2>2 DEF Forwards, Keeps
  <2>3. CASE d # c
    BY <1>2, <1>7, <2>1, <2>3 DEF Forwards
  <2>4. QED
    BY <2>2, <2>3
<1>18. BoundaryJobs' /\ EffectTimes' /\ queued' \in BOOLEAN /\ planned' \in [Records -> BOOLEAN]
  BY <1>2 DEF DrainInv, BoundaryJobs, EffectTimes
<1>19. QED
  BY <1>2, <1>15, <1>16, <1>17, <1>18 DEF DrainInv, RowsInv

(* A commit writes what the record demands where it reflects it, and never *)
(* takes the effect back to an older revision.                             *)
LEMMA WrittenReflects ==
    ASSUME HubInv, NEW r \in Records, NEW s \in Assessments, Reflects(r, s),
           Alone(r, s.old[r], s.new[r]), UNCHANGED <<now, record, scan, matching>>,
           threat'[r] = Written(s.old[r], s.new[r], threat[r])
    PROVE  Fine(r)'
<1> DEFINE old == s.old[r]
           new == s.new[r]
<1>1. /\ old \in Threats /\ new \in Threats /\ threat[r] \in Threats /\ s.step = "assessed"
      /\ Alone(r, old, new) /\ threat'[r] = Written(old, new, threat[r])
  BY DEF Assessments, HubInv, Typed
<1>2. /\ threat[r].matched => old.matched
      /\ ~Demanded(r) => ~new.matched
      /\ Demanded(r) =>
            /\ new.matched /\ new.risk = "open"
            /\ new.origin.content = record[r].content /\ new.origin.scan = scan
            /\ old.matched => threat[r].matched
            /\ old.origin.scan = threat[r].origin.scan
            /\ old.risk = "open" => threat[r].risk = "open"
  BY <1>1 DEF Reflects
<1> HIDE DEF old, new
<1>3. /\ threat'[r].matched = IF old.matched = new.matched THEN threat[r].matched ELSE new.matched
      /\ threat'[r].origin = IF old.origin = new.origin THEN threat[r].origin ELSE new.origin
  BY <1>1, WrittenFacts
<1>4. threat'[r].risk = IF old.risk = new.risk THEN threat[r].risk ELSE new.risk
  BY <1>1 DEF Written, Threats
<1>5. Demanded(r)' <=> Demanded(r)
  BY DEF Demanded, Processable, Active
<1>6. old.matched \in BOOLEAN /\ new.matched \in BOOLEAN /\ threat[r].matched \in BOOLEAN
  BY <1>1 DEF Threats
<1>7. CASE ~Demanded(r)
  <2>1. ~threat'[r].matched
    BY <1>2, <1>3, <1>6, <1>7
  <2>2. QED
    BY <1>5, <1>7, <2>1 DEF Fine
<1>8. CASE Demanded(r)
  <2>1. threat'[r].matched
    BY <1>2, <1>3, <1>6, <1>8
  <2>2. threat'[r].risk = "open"
    BY <1>2, <1>4, <1>8
  <2>3. threat'[r].origin.scan = scan /\ threat'[r].origin.content = record[r].content
    BY <1>1, <1>2, <1>3, <1>8 DEF Alone
  <2>4. QED
    BY <1>5, <1>8, <2>1, <2>2, <2>3 DEF Fine, Carried
<1>9. QED
  BY <1>7, <1>8

LEMMA DrainCommit ==
    ASSUME HubInv, DrainInv, NEW c \in Correlators, Commit(c)
    PROVE  DrainInv'
<1>0. PICK s : s = session[c]
  OBVIOUS
<1>1. Typed /\ SessionsInv /\ SessionOk(s)
  BY <1>0 DEF HubInv, SessionsInv
<1>2. /\ s.step = "assessed"
      /\ IF Collides(s)
         THEN queued' = (queued \/ s.job) /\ UNCHANGED <<threat, crossed>>
         ELSE /\ threat' = [r \in Records |-> Written(s.old[r], s.new[r], threat[r])]
              /\ crossed' = s.stale /\ queued' = queued
      /\ session' = [d \in Correlators |-> IF d = c THEN NoSession
                        ELSE [session[d] EXCEPT !.stale = session[d].step # "idle"]]
      /\ UNCHANGED <<now, record, planned, raced, scan, matching, due>>
  BY <1>0 DEF Commit
<1>3. s \in Assessments
  BY <1>0, <1>1, <1>2 DEF Typed, NoSession, Reads
<1>4. /\ s.step # "idle" /\ scan > 0 /\ scan \in Nat /\ s.job \in BOOLEAN /\ s.stale \in BOOLEAN
      /\ \A r \in Records : /\ s.new[r].modified >= s.old[r].modified
                            /\ s.stale \/ threat[r].modified = s.old[r].modified
  BY <1>0, <1>1, <1>2, <1>3 DEF DrainInv, Forwards, Typed, Assessments
(* The other sessions are overtaken.                                       *)
<1>5. ASSUME NEW d \in Correlators, session'[d].step # "idle"
      PROVE  /\ d # c /\ session[d].step # "idle" /\ session'[d].stale
             /\ session'[d].job = session[d].job
             /\ session'[d].old = session[d].old /\ session'[d].new = session[d].new
  <2>1. d # c
    BY <1>2, <1>5 DEF NoSession
  <2>2. PICK q : q = session[d]
    OBVIOUS
  <2>3. session'[d] = [q EXCEPT !.stale = q.step # "idle"] /\ q \in {NoSession} \cup Reads \cup Assessments
    BY <1>1, <1>2, <2>1, <2>2 DEF Typed
  <2>4. CASE q \in Reads \cup Assessments
    BY <2>1, <2>2, <2>3, <2>4 DEF Reads, Assessments
  <2>5. CASE q = NoSession
    BY <1>5, <2>3, <2>5 DEF NoSession
  <2>6. QED
    BY <2>3, <2>4, <2>5
<1>6. ASSUME NEW d \in Correlators, d # c, session[d].step # "idle"
      PROVE  session'[d].step # "idle"
  <2>1. PICK q : q = session[d]
    OBVIOUS
  <2>2. session'[d] = [q EXCEPT !.stale = q.step # "idle"] /\ q \in Reads \cup Assessments
    BY <1>1, <1>2, <1>6, <2>1 DEF Typed, NoSession
  <2>3. QED
    BY <2>2 DEF Reads, Assessments
<1>7. ASSUME NEW r \in Records, NEW d \in Correlators PROVE Current(r, session[d])'
  BY <1>5 DEF Current
<1>8. ASSUME NEW r \in Records, NEW d \in Correlators, d # c, Retries(r, session[d])
      PROVE  Awaited(r)'
  <2>1. session'[d].step # "idle" /\ session'[d].stale /\ session'[d].job
    BY <1>5, <1>6, <1>8 DEF Retries
  <2>2. QED
    BY <2>1 DEF Awaited, Retries
<1>9. ASSUME NEW r \in Records
      PROVE  Accounted(r) /\ Current(r, s)
  BY <1>0, <1>4 DEF DrainInv, RowsInv
<1>10. ASSUME NEW d \in Correlators PROVE Forwards(session[d])'
  <2> SUFFICES ASSUME session'[d].step # "idle" PROVE Forwards(session[d])'
    BY DEF Forwards
  <2>1. Forwards(session[d])
    BY DEF DrainInv
  <2>2. QED
    BY <1>2, <1>5, <2>1 DEF Forwards
<1>11. BoundaryJobs' /\ planned' \in [Records -> BOOLEAN]
  BY <1>2 DEF DrainInv, BoundaryJobs
<1>12. queued' \in BOOLEAN /\ (queued => queued')
  BY <1>2, <1>4 DEF DrainInv
<1>13. CASE Collides(s)
  <2>1. queued' = (queued \/ s.job) /\ threat' = threat /\ crossed' = crossed
    BY <1>2, <1>13
  <2>2. ASSUME NEW w, SessionOk(w), w.step # "idle", ~w.stale PROVE ~Collides(w)
    BY <2>2 DEF SessionOk, Alone, Collides, Materialised
  <2>3. s.stale
    BY <1>1, <1>4, <1>13, <2>2
  <2>4. ASSUME NEW r \in Records
        PROVE  /\ Excepted(r)' <=> Excepted(r)
               /\ Fine(r)' <=> Fine(r)
    BY <1>2, <2>1, StillRow
  <2>5. ASSUME NEW r \in Records, Awaited(r) PROVE Awaited(r)'
    <3>1. CASE queued \/ Excepted(r)
      BY <1>12, <2>4, <3>1 DEF Awaited
    <3>2. CASE Retries(r, s)
      BY <2>1, <3>2 DEF Awaited, Retries
    <3>3. QED
      BY <1>0, <1>8, <2>5, <3>1, <3>2 DEF Awaited
  <2>6. ASSUME NEW r \in Records, NEW d \in Correlators, Lands(r, session[d])
        PROVE  Lands(r, session[d])'
    <3>1. d # c /\ session[d].step # "idle"
      BY <1>0, <1>13, <2>3, <2>6 DEF Lands
    <3>2. ~Collides(session[d])
      <4>1. SessionOk(session[d])
        BY <1>1 DEF SessionsInv
      <4>2. QED
        BY <2>2, <2>6, <3>1, <4>1 DEF Lands
    <3>3. session'[d].step # "idle" /\ session'[d].stale /\ session'[d].old = session[d].old
            /\ session'[d].new = session[d].new
      BY <1>5, <1>6, <3>1
    <3>4. ~Collides(session[d])'
      BY <2>1, <3>2, <3>3 DEF Collides
    <3>5. QED
      BY <3>3, <3>4 DEF Lands
  <2>7. ASSUME NEW r \in Records PROVE Accounted(r)'
    BY <1>9, <2>1, <2>4, <2>5, <2>6 DEF Accounted
  <2>8. EffectTimes'
    BY <2>1 DEF DrainInv, EffectTimes
  <2>9. QED
    BY <1>7, <1>10, <1>11, <1>12, <2>7, <2>8 DEF DrainInv, RowsInv
<1>14. CASE ~Collides(s)
  <2>1. /\ crossed' = s.stale /\ queued' = queued
        /\ \A r \in Records : threat'[r] = Written(s.old[r], s.new[r], threat[r])
    BY <1>2, <1>14
  <2>2. ASSUME NEW r \in Records
        PROVE  /\ threat[r] \in Threats /\ s.old[r] \in Threats /\ s.new[r] \in Threats
               /\ threat'[r].modified = IF s.old[r].modified = s.new[r].modified
                                        THEN threat[r].modified ELSE s.new[r].modified
               /\ threat'[r].origin = IF s.old[r].origin = s.new[r].origin
                                      THEN threat[r].origin ELSE s.new[r].origin
    <3>1. threat[r] \in Threats /\ s.old[r] \in Threats /\ s.new[r] \in Threats
      BY <1>1, <1>3 DEF Typed, Assessments
    <3>2. QED
      BY <2>1, <3>1, WrittenFacts
  <2>3. EffectTimes'
    <3> SUFFICES ASSUME NEW r \in Records, ~Materialised(threat'[r])
                 PROVE  threat'[r].modified = 0
      BY DEF EffectTimes
    <3>1. Assigns(r, s.old[r], s.new[r])
      BY <1>1, <1>4 DEF SessionOk
    <3>2. Keeps(s.old[r], s.new[r])
      BY <2>2, <3>1 DEF Assigns, Materialised
    <3>3. threat'[r].modified = threat[r].modified /\ threat'[r].origin = threat[r].origin
      BY <2>2, <3>2 DEF Keeps
    <3>4. QED
      BY <3>3 DEF DrainInv, EffectTimes, Materialised
  <2>4. ASSUME NEW r \in Records, ~s.stale PROVE Accounted(r)'
    <3>1. Alone(r, s.old[r], s.new[r])
      BY <1>1, <1>4, <2>4 DEF SessionOk
    <3>2. CASE Reflects(r, s)
      <4>1. Fine(r)'
        BY <1>2, <1>3, <2>1, <3>1, <3>2, WrittenReflects
      <4>2. QED
        BY <4>1 DEF Accounted
    <3>3. ASSUME Excepted(r) PROVE Excepted(r)'
      <4>1. /\ threat[r].modified \in Nat /\ record[r].modified \in Nat
            /\ threat'[r].modified >= threat[r].modified /\ threat'[r].modified \in Nat
        <5>1. threat[r].modified \in Nat /\ record[r].modified \in Nat
          BY <1>1, FieldTypes
        <5>2. s.new[r].modified \in Nat
          BY <2>2, TimesAreNumbers DEF Threats
        <5>3. QED
          BY <1>4, <2>2, <2>4, <5>1, <5>2
      <4>2. CASE threat[r].modified > record[r].modified
        <5>1. threat'[r].modified > record[r].modified
          BY <4>1, <4>2
        <5>2. QED
          BY <1>2, <5>1 DEF Excepted
      <4>3. CASE Expired(r) /\ (~planned[r] \/ raced[r])
        BY <1>2, <4>3 DEF Excepted, Expired
      <4>4. QED
        BY <3>3, <4>2, <4>3 DEF Excepted
    <3>4. CASE Awaited(r)
      <4>1. CASE queued \/ Excepted(r)
        BY <2>1, <3>3, <4>1 DEF Accounted, Awaited
      <4>2. ASSUME NEW d \in Correlators, Retries(r, session[d]) PROVE Accounted(r)'
        <5>1. CASE d = c
          BY <1>0, <2>4, <3>2, <4>2, <5>1 DEF Retries
        <5>2. CASE d # c
          BY <1>8, <4>2, <5>2 DEF Accounted
        <5>3. QED
          BY <5>1, <5>2
      <4>3. QED
        BY <3>4, <4>1, <4>2 DEF Awaited
    <3>5. QED
      BY <1>4, <1>9, <2>4, <3>2, <3>4 DEF Current
  <2>5. ASSUME NEW r \in Records PROVE Accounted(r)'
    BY <1>4, <2>1, <2>4 DEF Accounted
  <2>6. QED
    BY <1>7, <1>10, <1>11, <1>12, <2>3, <2>5 DEF DrainInv, RowsInv
<1>15. QED
  BY <1>13, <1>14

LEMMA DrainInit == Init => DrainInv
<1> SUFFICES ASSUME Init PROVE DrainInv
  OBVIOUS
<1>1. scan = 0 /\ planned \in [Records -> BOOLEAN] /\ queued \in BOOLEAN
  BY DEF Init
<1>2. BoundaryJobs
  BY DEF Init, BoundaryJobs, NoRecord
<1>3. EffectTimes
  BY DEF Init, EffectTimes, NoThreat
<1>4. \A c \in Correlators : Forwards(session[c])
  BY DEF Init, Forwards, NoSession
<1>5. QED
  BY <1>1, <1>2, <1>3, <1>4 DEF DrainInv

(* Whatever changes what a record demands of a system with an inventory    *)
(* (a delivery, a review, a scan, the end of a validity) leaves a          *)
(* correlation to come: enqueue_system_correlation, and the boundary jobs  *)
(* of review_intelligence_record.  So when no job waits and no transaction *)
(* is open, each effect is what its record demands, but for the exceptions *)
(* DrainedMatches names.                                                   *)
THEOREM DrainedAlwaysMatches == Spec => []DrainedMatches
<1>1. HubInv /\ DrainInv /\ [Next]_vars => DrainInv'
  <2> SUFFICES ASSUME HubInv, DrainInv, [Next]_vars PROVE DrainInv'
    OBVIOUS
  <2>1. CASE UNCHANGED vars
    BY <2>1, DrainQuiet DEF vars
  <2>2. ASSUME NEW r \in Records, NEW modified \in Times, NEW until \in {now + 1, Forever},
               NEW kind \in Kinds, ReadRecord(r, modified, until, kind)
        PROVE  DrainInv'
    BY <2>2, DrainQuiet DEF ReadRecord
  <2>3. CASE Next
    BY <2>2, <2>3, DrainWriteRecord, DrainReview, DrainIngestInventory, DrainCorrelate,
       DrainReadRisks, DrainCommit, DrainList, DrainTick DEF Next, Kinds
  <2>4. QED
    BY <2>1, <2>3
<1>2. HubInv /\ DrainInv => DrainedMatches
  <2> SUFFICES ASSUME HubInv, DrainInv, Drained, scan > 0, ~crossed, NEW r \in Records
               PROVE  Fine(r) \/ Excepted(r)
    BY DEF DrainedMatches, Fine, Excepted
  <2>1. Accounted(r)
    BY DEF DrainInv, RowsInv
  <2>2. QED
    BY <2>1 DEF Drained, Accounted, Awaited, Retries, Lands
<1>3. QED
  BY <1>1, <1>2, DrainInit, HubInvHolds, PTL DEF Spec

=============================================================================
