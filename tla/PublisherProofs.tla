--------------------------- MODULE PublisherProofs --------------------------
(***************************************************************************)
(* Proofs about the publisher: its revisions, log and projection, for every*)
(* set of items, operators and entitlements and any number of revisions    *)
(* and changes; what a customer holds of them; the keys of an installation;*)
(* the run row of an import.                                               *)
(***************************************************************************)
EXTENDS PublisherAdmin, NumberLemmas, SequenceTheorems

-----------------------------------------------------------------------------
(* The revisions of one record.                                            *)

Revision == [src : Items, status : Status]
Notes(r) == [record : {r}, rev : Nat, canonical : BOOLEAN, tlp : 0..RED,
             kind : Kinds, life : Lifecycle]
Drafts(r) == [revs : Seq(Revision), out : Seq(Notes(r))]

PublishedIn(rs) == {i \in DOMAIN rs : rs[i].status = "published"}

(* The leading revision is younger at its source than every other one, and *)
(* a restricted one leaves nothing published.                              *)
Leads(rs, c) ==
    /\ c \in DOMAIN rs
    /\ rs[c].status # "superseded"
    /\ \A j \in DOMAIN rs \ {c} : rs[j].src.time < rs[c].src.time
Sealed(rs) ==
    \A c \in DOMAIN rs : Leads(rs, c) /\ rs[c].status = "restricted" => PublishedIn(rs) = {}
Ordered(r, rs) ==
    /\ rs \in Seq(Revision)
    /\ \A i \in DOMAIN rs : rs[i].src.record = r
    /\ rs # <<>> => \E c \in DOMAIN rs : Leads(rs, c)
History(r, rs) == Ordered(r, rs) /\ Sealed(rs) /\ Len(rs) <= MaxRevisions

LEMMA ItemTypes ==
    ASSUME NEW item \in Items
    PROVE  /\ item.record \in Records /\ item.time \in Nat /\ item.time \in 1..MaxTime
           /\ item.tlp \in 0..RED /\ item.kind \in Kinds /\ item.life \in Lifecycle
  BY PublisherAssumption DEF ItemType, Records, Kinds

LEMMA RevisionTypes ==
    ASSUME NEW rs \in Seq(Revision), NEW i \in DOMAIN rs
    PROVE  /\ i \in Nat /\ i \in 1..Len(rs) /\ i # 0
           /\ rs[i] \in Revision /\ rs[i].src \in Items /\ rs[i].status \in Status
           /\ rs[i].src.time \in Nat /\ rs[i].src.tlp \in 0..RED
           /\ rs[i].src.kind \in Kinds /\ rs[i].src.life \in Lifecycle
<1>1. rs[i] \in Revision /\ i \in 1..Len(rs) /\ i \in Nat /\ i # 0
  OBVIOUS
<1>2. rs[i].src \in Items /\ rs[i].status \in Status
  BY <1>1 DEF Revision
<1>3. QED
  BY <1>1, <1>2, ItemTypes

LEMMA CurrentLeads ==
    ASSUME NEW rs \in Seq(Revision), NEW c, Leads(rs, c)
    PROVE  Current(rs) = c
<1> DEFINE S == {i \in DOMAIN rs : rs[i].status # "superseded"}
           Is(i) == \A j \in S : \/ rs[j].src.time < rs[i].src.time
                                 \/ rs[j].src.time = rs[i].src.time /\ j <= i
<1>1. c \in S /\ S # {}
  BY DEF Leads
<1>2. \A i \in S : i \in DOMAIN rs /\ i \in Nat /\ rs[i].src.time \in Nat
  BY RevisionTypes
<1>3. Is(c)
  BY <1>1, <1>2 DEF Leads
<1>4. ASSUME NEW i \in S, Is(i) PROVE i = c
  <2>1. i # c => rs[i].src.time < rs[c].src.time
    BY DEF Leads
  <2>2. QED
    BY <1>1, <1>2, <1>4, <2>1
<1>5. Current(rs) = CHOOSE i \in S : Is(i)
  BY <1>1 DEF Current, Newest
<1> HIDE DEF S, Is
<1>6. QED
  BY <1>1, <1>3, <1>4, <1>5

LEMMA CurrentOf ==
    ASSUME NEW r, NEW rs, Ordered(r, rs)
    PROVE  /\ Current(rs) = 0 <=> rs = <<>>
           /\ Current(rs) # 0 => Leads(rs, Current(rs))
<1>1. CASE rs = <<>>
  BY <1>1 DEF Current, Newest
<1>2. CASE rs # <<>>
  <2>1. PICK c \in DOMAIN rs : Leads(rs, c)
    BY <1>2 DEF Ordered
  <2>2. Current(rs) = c /\ c # 0
    BY <2>1, CurrentLeads, RevisionTypes DEF Ordered
  <2>3. QED
    BY <1>2, <2>1, <2>2
<1>3. QED
  BY <1>1, <1>2

(* The newest of a set of revisions is one of them.                        *)
LEMMA NewestOf ==
    ASSUME NEW rs \in Seq(Revision), NEW S \in SUBSET DOMAIN rs, S # {}
    PROVE  Newest(rs, S) \in S
<1>1. \A i \in S : i \in Nat /\ i <= Len(rs) /\ rs[i].src.time \in Nat /\ rs[i].src.time <= MaxTime
  <2>1. \A i \in S : rs[i].src.time <= MaxTime
    BY RevisionTypes, ItemTypes
  <2>2. QED
    BY <2>1, RevisionTypes
<1> DEFINE T == {rs[i].src.time : i \in S}
<1>2. PICK t \in T : \A u \in T : u <= t
  <2>1. T \in SUBSET Int /\ T # {} /\ MaxTime \in Int /\ \A x \in T : x <= MaxTime
    BY <1>1, PublisherAssumption
  <2> HIDE DEF T
  <2>2. QED
    BY <2>1, Greatest
<1> DEFINE U == {i \in S : rs[i].src.time = t}
<1>3. PICK i \in U : \A j \in U : j <= i
  <2>1. U \in SUBSET Int /\ U # {} /\ Len(rs) \in Int /\ \A x \in U : x <= Len(rs)
    BY <1>1
  <2> HIDE DEF U
  <2>2. QED
    BY <2>1, Greatest
<1>4. \A j \in S : \/ rs[j].src.time < rs[i].src.time
                   \/ rs[j].src.time = rs[i].src.time /\ j <= i
  <2>1. i \in S /\ rs[i].src.time = t
    BY <1>3
  <2>2. ASSUME NEW j \in S PROVE rs[j].src.time <= t
    BY <1>2
  <2>3. ASSUME NEW j \in S, rs[j].src.time = t PROVE j <= i
    BY <1>3, <2>3
  <2> HIDE DEF T, U
  <2>4. QED
    BY <1>1, <2>1, <2>2, <2>3
<1>5. QED
  BY <1>3, <1>4 DEF Newest

LEMMA PreviousOf ==
    ASSUME NEW rs \in Seq(Revision), NEW i
    PROVE  \/ PreviousPublished(rs, i) = 0 /\ PublishedIn(rs) \subseteq {i}
           \/ PreviousPublished(rs, i) \in DOMAIN rs /\ PreviousPublished(rs, i) # 0
<1> DEFINE S == {j \in DOMAIN rs \ {i} : rs[j].status = "published"}
<1>1. CASE S = {}
  BY <1>1 DEF PreviousPublished, Newest, PublishedIn
<1>2. CASE S # {}
  <2>1. PreviousPublished(rs, i) \in S
    BY <1>2, NewestOf DEF PreviousPublished
  <2>2. QED
    BY <2>1, RevisionTypes
<1>3. QED
  BY <1>1, <1>2

LEMMA Marked ==
    ASSUME NEW rs \in Seq(Revision), NEW i \in DOMAIN rs, NEW s \in Status
    PROVE  /\ Mark(rs, i, s) \in Seq(Revision)
           /\ Len(Mark(rs, i, s)) = Len(rs) /\ DOMAIN Mark(rs, i, s) = DOMAIN rs
           /\ \A j \in DOMAIN rs : /\ Mark(rs, i, s)[j].src = rs[j].src
                                   /\ Mark(rs, i, s)[j].status = IF j = i THEN s ELSE rs[j].status
<1> DEFINE x == [rs[i] EXCEPT !.status = s]
<1>1. rs[i] \in Revision
  BY RevisionTypes
<1>2. x \in Revision /\ x.status = s /\ x.src = rs[i].src
  BY <1>1 DEF Revision
<1>3. Mark(rs, i, s) = [rs EXCEPT ![i] = x]
  BY DEF Mark
<1> HIDE DEF x
<1>4. QED
  BY <1>2, <1>3

LEMMA SupersededOthers ==
    ASSUME NEW rs \in Seq(Revision), NEW i \in DOMAIN rs
    PROVE  /\ SupersedeOthers(rs, i) \in Seq(Revision)
           /\ Len(SupersedeOthers(rs, i)) = Len(rs) /\ DOMAIN SupersedeOthers(rs, i) = DOMAIN rs
           /\ \A j \in DOMAIN rs :
                /\ SupersedeOthers(rs, i)[j].src = rs[j].src
                /\ SupersedeOthers(rs, i)[j].status =
                      IF j # i /\ rs[j].status \in {"published", "staged"}
                      THEN "superseded" ELSE rs[j].status
<1> DEFINE f(j) == IF j # i /\ rs[j].status \in {"published", "staged"}
                   THEN [rs[j] EXCEPT !.status = "superseded"] ELSE rs[j]
<1>1. ASSUME NEW j \in DOMAIN rs
      PROVE  /\ f(j) \in Revision /\ f(j).src = rs[j].src
             /\ f(j).status = IF j # i /\ rs[j].status \in {"published", "staged"}
                              THEN "superseded" ELSE rs[j].status
  <2>1. rs[j] \in Revision
    BY RevisionTypes
  <2>2. QED
    BY <2>1 DEF Revision, Status
<1>2. SupersedeOthers(rs, i) = [j \in 1..Len(rs) |-> f(j)] /\ DOMAIN rs = 1..Len(rs)
  BY DEF SupersedeOthers
<1> HIDE DEF f
<1>3. QED
  BY <1>1, <1>2

-----------------------------------------------------------------------------
(* Drafts of one record: what a release, a restriction, an item and the    *)
(* emergency branch make of its revisions and of the changes to append.    *)

Sound(r, d) ==
    /\ d \in Drafts(r) /\ Ordered(r, d.revs)
    /\ \A k \in DOMAIN d.out : d.out[k].rev \in DOMAIN d.revs

(* What the last change of the draft says of the record; shown is what the *)
(* record's changes said before.                                           *)
Says(d, shown) ==
    PublishedIn(d.revs) = IF d.out = <<>> THEN shown
                          ELSE IF d.out[Len(d.out)].canonical THEN {d.out[Len(d.out)].rev}
                          ELSE {}

(* What a change, or the note of one, says is true of the revisions it was *)
(* made from, and revisions keep what their source sent.                   *)
Truthful(rs, c) ==
    /\ ~c.canonical => c.life = "revoked"
    /\ c.canonical => c.tlp = rs[c.rev].src.tlp
    /\ \E j \in DOMAIN rs : c.kind = rs[j].src.kind
SameSources(rs, ts) == \A j \in DOMAIN rs : j \in DOMAIN ts /\ ts[j].src = rs[j].src

(* The notes of a draft made of rs: all are of the leading revision, a     *)
(* release is the last of them, and whoever could read what was published  *)
(* can read the first.                                                     *)
Continues(rs, e) ==
    /\ SameSources(rs, e.revs)
    /\ \A k \in DOMAIN e.out : /\ Leads(e.revs, e.out[k].rev)
                               /\ Truthful(e.revs, e.out[k])
                               /\ e.out[k].canonical => k = Len(e.out)
    /\ e.out # <<>> => \A p : PublishedIn(rs) = {p} => e.out[1].tlp <= rs[p].src.tlp
Unnoted(d, e) ==
    /\ e.out = <<>> /\ PublishedIn(e.revs) = PublishedIn(d.revs)
    /\ SameSources(d.revs, e.revs)
Noted(d, e) ==
    /\ Continues(d.revs, e)
    /\ Unnoted(d, e) \/ e.revs[Current(e.revs)].status # "staged"

LEMMA UnnotedContinues ==
    ASSUME NEW d, NEW e, Unnoted(d, e)
    PROVE  Continues(d.revs, e) /\ Noted(d, e)
  BY DEF Unnoted, Noted, Continues

LEMMA ContinuesOn ==
    ASSUME NEW rs, NEW ts, NEW e, SameSources(rs, ts), PublishedIn(ts) = PublishedIn(rs),
           Continues(ts, e)
    PROVE  Continues(rs, e)
<1>1. SameSources(rs, e.revs)
  BY DEF Continues, SameSources
<1>2. \A p : PublishedIn(rs) = {p} => ts[p].src = rs[p].src
  BY DEF PublishedIn, SameSources
<1>3. QED
  BY <1>1, <1>2 DEF Continues

LEMMA SameOrder ==
    ASSUME NEW r, NEW rs, NEW ts \in Seq(Revision), NEW c,
           Ordered(r, rs), Leads(rs, c), Len(ts) = Len(rs), DOMAIN ts = DOMAIN rs,
           \A j \in DOMAIN rs : ts[j].src = rs[j].src,
           ts[c].status # "superseded"
    PROVE  Ordered(r, ts) /\ Leads(ts, c)
<1>1. Leads(ts, c)
  BY DEF Leads
<1>2. QED
  BY <1>1 DEF Ordered, Leads

LEMMA SealedBy ==
    ASSUME NEW rs \in Seq(Revision), NEW c, Leads(rs, c),
           rs[c].status = "restricted" => PublishedIn(rs) = {}
    PROVE  Sealed(rs)
<1>1. \A x : Leads(rs, x) => x = c
  BY CurrentLeads
<1>2. QED
  BY <1>1 DEF Sealed

LEMMA Appended ==
    ASSUME NEW T, NEW s \in Seq(T), NEW x \in T
    PROVE  /\ Append(s, x) \in Seq(T) /\ Append(s, x) # <<>>
           /\ Len(Append(s, x)) = Len(s) + 1 /\ Len(s) \in Nat
           /\ DOMAIN s = 1..Len(s) /\ DOMAIN Append(s, x) = 1..(Len(s) + 1)
           /\ \A k \in DOMAIN s : Append(s, x)[k] = s[k]
           /\ Append(s, x)[Len(s) + 1] = x
  OBVIOUS

LEMMA CanonicalNote ==
    ASSUME NEW r \in Records, NEW rs, Ordered(r, rs), NEW i \in DOMAIN rs
    PROVE  /\ CanonicalChange(rs, i) \in Notes(r) /\ CanonicalChange(rs, i).rev = i
           /\ CanonicalChange(rs, i).canonical
<1>1. /\ rs[i].src.record = r /\ i \in Nat
      /\ rs[i].src.tlp \in 0..RED /\ rs[i].src.kind \in Kinds /\ rs[i].src.life \in Lifecycle
  BY RevisionTypes DEF Ordered
<1>2. QED
  BY <1>1 DEF CanonicalChange, Notes

LEMMA WithdrawalNote ==
    ASSUME NEW r \in Records, NEW rs, Ordered(r, rs), NEW i \in DOMAIN rs, NEW p \in DOMAIN rs
    PROVE  /\ WithdrawalChange(rs, i, p) \in Notes(r) /\ WithdrawalChange(rs, i, p).rev = i
           /\ ~WithdrawalChange(rs, i, p).canonical
<1>1. /\ rs[i].src.record = r /\ i \in Nat
      /\ rs[p].src.tlp \in 0..RED /\ rs[p].src.kind \in Kinds
  BY RevisionTypes DEF Ordered
<1>2. QED
  BY <1>1 DEF WithdrawalChange, Notes, Lifecycle

LEMMA DraftParts ==
    ASSUME NEW r, NEW rs \in Seq(Revision), NEW out \in Seq(Notes(r))
    PROVE  [revs |-> rs, out |-> out] \in Drafts(r)
  BY DEF Drafts

LEMMA Released ==
    ASSUME NEW r \in Records, NEW d, Sound(r, d), NEW i, Leads(d.revs, i)
    PROVE  LET e == PublishRevision(d, i)
           IN  /\ Sound(r, e) /\ Sealed(e.revs) /\ Leads(e.revs, i)
               /\ Len(e.revs) = Len(d.revs) /\ DOMAIN e.revs = DOMAIN d.revs
               /\ \A j \in DOMAIN d.revs : e.revs[j].src = d.revs[j].src
               /\ PublishedIn(e.revs) = {i}
               /\ \A shown : Says(e, shown)
<1> DEFINE rs == d.revs
           previous == PreviousPublished(rs, i)
           raised == previous # 0 /\ rs[i].src.tlp > rs[previous].src.tlp
           withdrawal == IF raised THEN <<WithdrawalChange(rs, i, previous)>> ELSE <<>>
           mid == d.out \o withdrawal
           ms == Mark(rs, i, "published")
           ts == SupersedeOthers(ms, i)
           out == Append(mid, CanonicalChange(rs, i))
<1>1. rs \in Seq(Revision) /\ d.out \in Seq(Notes(r)) /\ i \in DOMAIN rs /\ Ordered(r, rs)
      /\ Leads(rs, i)
  BY DEF Sound, Drafts, Leads
<1> HIDE DEF rs
<1>2. /\ ms \in Seq(Revision) /\ DOMAIN ms = DOMAIN rs /\ Len(ms) = Len(rs)
      /\ \A j \in DOMAIN rs : /\ ms[j].src = rs[j].src
                              /\ ms[j].status = IF j = i THEN "published" ELSE rs[j].status
  <2>1. "published" \in Status
    BY DEF Status
  <2>2. QED
    BY <1>1, <2>1, Marked
<1>3. /\ ts \in Seq(Revision) /\ DOMAIN ts = DOMAIN rs /\ Len(ts) = Len(rs)
      /\ \A j \in DOMAIN rs :
            /\ ts[j].src = rs[j].src
            /\ ts[j].status = IF j # i /\ ms[j].status \in {"published", "staged"}
                              THEN "superseded" ELSE ms[j].status
  <2> HIDE DEF ms
  <2>1. i \in DOMAIN ms /\ ms \in Seq(Revision)
    BY <1>1, <1>2
  <2>2. /\ ts \in Seq(Revision) /\ DOMAIN ts = DOMAIN ms /\ Len(ts) = Len(ms)
        /\ \A j \in DOMAIN ms :
              /\ ts[j].src = ms[j].src
              /\ ts[j].status = IF j # i /\ ms[j].status \in {"published", "staged"}
                                THEN "superseded" ELSE ms[j].status
    BY <2>1, SupersededOthers
  <2> HIDE DEF ts
  <2>3. QED
    BY <1>2, <2>2
<1> HIDE DEF ms, ts
<1>4. PublishedIn(ts) = {i} /\ ts[i].status = "published"
  BY <1>1, <1>2, <1>3 DEF PublishedIn
<1>5. Ordered(r, ts) /\ Leads(ts, i) /\ Sealed(ts)
  <2>1. Ordered(r, ts) /\ Leads(ts, i)
    BY <1>1, <1>3, <1>4, SameOrder
  <2>2. QED
    BY <1>3, <1>4, <2>1, SealedBy
<1>6. withdrawal \in Seq(Notes(r)) /\ \A k \in DOMAIN withdrawal : withdrawal[k].rev = i
  <2>1. previous = 0 \/ previous \in DOMAIN rs
    BY <1>1, PreviousOf
  <2> HIDE DEF previous
  <2>2. CASE raised
    <3>1. /\ WithdrawalChange(rs, i, previous) \in Notes(r)
          /\ WithdrawalChange(rs, i, previous).rev = i
      BY <1>1, <2>1, <2>2, WithdrawalNote
    <3>2. QED
      BY <2>2, <3>1
  <2>3. CASE ~raised
    BY <2>3
  <2>4. QED
    BY <2>2, <2>3
<1>7. /\ mid \in Seq(Notes(r)) /\ Len(mid) = Len(d.out) + Len(withdrawal)
      /\ \A k \in DOMAIN mid : mid[k].rev \in DOMAIN rs
  <2>1. mid \in Seq(Notes(r)) /\ Len(mid) = Len(d.out) + Len(withdrawal)
    <3> HIDE DEF withdrawal
    <3>1. QED
      BY <1>1, <1>6
  <2>2. \A k \in DOMAIN d.out : d.out[k].rev \in DOMAIN rs
    BY DEF Sound, rs
  <2>3. \A k \in DOMAIN mid : \/ k \in DOMAIN d.out /\ mid[k] = d.out[k]
                              \/ k - Len(d.out) \in DOMAIN withdrawal
                                 /\ mid[k] = withdrawal[k - Len(d.out)]
    <3> HIDE DEF withdrawal
    <3>1. QED
      BY <1>1, <1>6, <2>1
  <2> HIDE DEF mid, withdrawal
  <2>4. QED
    BY <1>1, <1>6, <2>1, <2>2, <2>3
<1> HIDE DEF withdrawal, mid
<1>8. /\ CanonicalChange(rs, i) \in Notes(r) /\ CanonicalChange(rs, i).rev = i
      /\ CanonicalChange(rs, i).canonical
  BY <1>1, CanonicalNote
<1>9. /\ out \in Seq(Notes(r)) /\ out # <<>> /\ Len(out) = Len(mid) + 1
      /\ out[Len(out)] = CanonicalChange(rs, i)
      /\ \A k \in DOMAIN out : out[k].rev \in DOMAIN rs
  <2>1. /\ out \in Seq(Notes(r)) /\ out # <<>> /\ Len(out) = Len(mid) + 1 /\ Len(mid) \in Nat
        /\ DOMAIN mid = 1..Len(mid) /\ DOMAIN out = 1..(Len(mid) + 1)
        /\ \A k \in DOMAIN mid : out[k] = mid[k]
        /\ out[Len(mid) + 1] = CanonicalChange(rs, i)
    BY <1>7, <1>8, Appended
  <2>2. \A k \in DOMAIN out : k \in DOMAIN mid \/ k = Len(mid) + 1
    BY <2>1
  <2> HIDE DEF out
  <2>3. QED
    BY <1>1, <1>7, <1>8, <2>1, <2>2
<1>10. PublishRevision(d, i) = [revs |-> ts, out |-> out]
  <2>1. out = mid \o <<CanonicalChange(rs, i)>>
    BY <1>7, <1>8, AppendIsConcat
  <2>2. QED
    BY <2>1 DEF PublishRevision, rs, ms, ts, mid, withdrawal
<1> HIDE DEF out
<1>11. PublishRevision(d, i).revs = ts
  BY <1>10
<1>12. PublishRevision(d, i) \in Drafts(r)
  BY <1>3, <1>9, <1>10, DraftParts
<1>13. \A shown : Says(PublishRevision(d, i), shown)
  BY <1>4, <1>8, <1>9, <1>10, <1>11 DEF Says
<1>14. Sound(r, PublishRevision(d, i))
  BY <1>3, <1>5, <1>9, <1>10, <1>11, <1>12 DEF Sound
<1>15. QED
  BY <1>3, <1>4, <1>5, <1>11, <1>13, <1>14 DEF rs

LEMMA Concatenated ==
    ASSUME NEW x, NEW y
    PROVE  <<>> \o <<x>> \o <<y>> = <<x, y>> /\ <<>> \o <<>> \o <<y>> = <<y>>
<1>1. <<x>> \in Seq({x, y}) /\ <<y>> \in Seq({x, y}) /\ <<>> \in Seq({x, y})
  OBVIOUS
<1>2. <<>> \o <<x>> = <<x>> /\ <<>> \o <<>> = <<>> /\ <<>> \o <<y>> = <<y>>
  BY <1>1
<1>3. <<x>> \o <<y>> = Append(<<x>>, y)
  BY <1>1, AppendIsConcat
<1>4. Append(<<x>>, y) = <<x, y>>
  <2>1. Append(<<x>>, y) \in Seq({x, y}) /\ <<x, y>> \in Seq({x, y})
    BY <1>1
  <2>2. Len(Append(<<x>>, y)) = 2 /\ Len(<<x, y>>) = 2
    BY <1>1
  <2>3. Append(<<x>>, y)[1] = x /\ Append(<<x>>, y)[2] = y
    BY <1>1
  <2>4. \A i \in 1..2 : Append(<<x>>, y)[i] = <<x, y>>[i]
    BY <2>3
  <2>5. QED
    BY <2>1, <2>2, <2>4, SeqEqual
<1>5. QED
  BY <1>2, <1>3, <1>4

LEMMA ReleasedNotes ==
    ASSUME NEW r \in Records, NEW d, Sound(r, d), d.out = <<>>, NEW i, Leads(d.revs, i),
           d.revs[i].status = "staged"
    PROVE  LET e == PublishRevision(d, i)
           IN  Continues(d.revs, e) /\ e.revs[Current(e.revs)].status = "published"
<1> DEFINE rs == d.revs
           e == PublishRevision(d, i)
           previous == PreviousPublished(rs, i)
           raised == previous # 0 /\ rs[i].src.tlp > rs[previous].src.tlp
           w == WithdrawalChange(rs, i, previous)
           c == CanonicalChange(rs, i)
<1>1. /\ Leads(e.revs, i) /\ DOMAIN e.revs = DOMAIN rs
      /\ \A j \in DOMAIN rs : e.revs[j].src = rs[j].src
      /\ PublishedIn(e.revs) = {i} /\ e.revs \in Seq(Revision)
  <2>1. /\ Sound(r, e) /\ Leads(e.revs, i) /\ DOMAIN e.revs = DOMAIN rs
        /\ \A j \in DOMAIN rs : e.revs[j].src = rs[j].src
        /\ PublishedIn(e.revs) = {i}
    BY Released
  <2>2. QED
    BY <2>1 DEF Sound, Drafts
<1>2. i \in DOMAIN rs /\ rs \in Seq(Revision) /\ rs[i].status = "staged"
  BY DEF Sound, Drafts, Leads
<1>3. e.revs[Current(e.revs)].status = "published"
  <2>1. Current(e.revs) = i
    BY <1>1, CurrentLeads
  <2>2. QED
    BY <1>1, <2>1 DEF PublishedIn
<1>4. e.out = IF raised THEN <<w, c>> ELSE <<c>>
  <2>1. e.out = d.out \o (IF raised THEN <<w>> ELSE <<>>) \o <<c>>
    BY DEF PublishRevision
  <2> HIDE DEF e, w, c
  <2>2. QED
    BY <2>1, Concatenated
<1>5. /\ c.rev = i /\ c.canonical /\ Truthful(e.revs, c) /\ c.tlp = rs[i].src.tlp
  BY <1>1, <1>2 DEF CanonicalChange, Truthful
<1>6. \A p : PublishedIn(rs) = {p} => previous = p /\ p \in DOMAIN rs /\ previous # 0
  <2> SUFFICES ASSUME NEW p, PublishedIn(rs) = {p} PROVE previous = p /\ p \in DOMAIN rs /\ previous # 0
    OBVIOUS
  <2>1. p \in DOMAIN rs /\ p # i /\ {j \in DOMAIN rs \ {i} : rs[j].status = "published"} = {p}
    BY <1>2 DEF PublishedIn
  <2>2. Newest(rs, {p}) \in {p}
    BY <1>2, <2>1, NewestOf
  <2>3. QED
    BY <1>2, <2>1, <2>2, RevisionTypes DEF PreviousPublished
<1>7. previous # 0 => previous \in DOMAIN rs
  BY <1>2, PreviousOf
<1>8. raised => /\ w.rev = i /\ ~w.canonical /\ Truthful(e.revs, w)
                /\ w.tlp = rs[previous].src.tlp
  BY <1>1, <1>7 DEF WithdrawalChange, Truthful
<1>9. \A j \in DOMAIN rs : rs[j].src.tlp \in Nat
  <2>1. \A j \in DOMAIN rs : rs[j].src.tlp \in 0..RED
    BY <1>2, RevisionTypes
  <2>2. QED
    BY <2>1
<1>10. SameSources(rs, e.revs)
  BY <1>1 DEF SameSources
<1> HIDE DEF rs, w, c, previous, e
<1>11. CASE raised
  <2>1. e.out = <<w, c>>
    BY <1>4, <1>11
  <2>2. \A k \in DOMAIN e.out : /\ Leads(e.revs, e.out[k].rev) /\ Truthful(e.revs, e.out[k])
                                /\ e.out[k].canonical => k = Len(e.out)
    BY <1>1, <1>5, <1>8, <1>11, <2>1
  <2>3. \A p : PublishedIn(rs) = {p} => e.out[1].tlp <= rs[p].src.tlp
    BY <1>6, <1>8, <1>9, <1>11, <2>1
  <2>4. QED
    BY <1>3, <1>10, <2>2, <2>3 DEF Continues, rs, e
<1>12. CASE ~raised
  <2>1. e.out = <<c>>
    BY <1>4, <1>12
  <2>2. \A k \in DOMAIN e.out : /\ Leads(e.revs, e.out[k].rev) /\ Truthful(e.revs, e.out[k])
                                /\ e.out[k].canonical => k = Len(e.out)
    BY <1>1, <1>5, <2>1
  <2>3. \A p : PublishedIn(rs) = {p} => e.out[1].tlp <= rs[p].src.tlp
    BY <1>2, <1>5, <1>6, <1>9, <1>12, <2>1
  <2>4. QED
    BY <1>3, <1>10, <2>2, <2>3 DEF Continues, rs, e
<1>13. QED
  BY <1>11, <1>12

LEMMA Restricted ==
    ASSUME NEW r \in Records, NEW d, Sound(r, d), NEW i, Leads(d.revs, i),
           d.revs[i].status = "restricted", NEW shown, Says(d, shown)
    PROVE  LET e == WithdrawForRestricted(d, i)
           IN  /\ Sound(r, e) /\ Sealed(e.revs) /\ Says(e, shown)
               /\ Len(e.revs) = Len(d.revs) /\ DOMAIN e.revs = DOMAIN d.revs
               /\ \A j \in DOMAIN d.revs : e.revs[j].src = d.revs[j].src
               /\ PublishedIn(e.revs) = {}
<1> DEFINE rs == d.revs
           previous == PreviousPublished(rs, i)
           ts == SupersedeOthers(rs, i)
           out == Append(d.out, WithdrawalChange(rs, i, previous))
<1>1. /\ rs \in Seq(Revision) /\ d.out \in Seq(Notes(r)) /\ i \in DOMAIN rs /\ Ordered(r, rs)
      /\ Leads(rs, i) /\ rs[i].status = "restricted"
      /\ \A k \in DOMAIN d.out : d.out[k].rev \in DOMAIN rs
  BY DEF Sound, Drafts, Leads
<1>2. WithdrawForRestricted(d, i) = IF previous = 0 THEN d ELSE [revs |-> ts, out |-> out]
  BY DEF WithdrawForRestricted
<1> HIDE DEF rs
<1>3. \/ previous = 0 /\ PublishedIn(rs) \subseteq {i}
      \/ previous \in DOMAIN rs /\ previous # 0
  BY <1>1, PreviousOf
<1> HIDE DEF previous
<1>4. CASE previous = 0
  <2>1. PublishedIn(rs) = {}
    BY <1>1, <1>3, <1>4 DEF PublishedIn
  <2>2. Sealed(rs)
    BY <1>1, <2>1, SealedBy
  <2>3. QED
    BY <1>2, <1>4, <2>1, <2>2 DEF rs
<1>5. CASE previous # 0
  <2>1. /\ ts \in Seq(Revision) /\ DOMAIN ts = DOMAIN rs /\ Len(ts) = Len(rs)
        /\ \A j \in DOMAIN rs :
              /\ ts[j].src = rs[j].src
              /\ ts[j].status = IF j # i /\ rs[j].status \in {"published", "staged"}
                                THEN "superseded" ELSE rs[j].status
    BY <1>1, SupersededOthers
  <2> HIDE DEF ts
  <2>2. PublishedIn(ts) = {} /\ ts[i].status = "restricted"
    BY <1>1, <2>1 DEF PublishedIn
  <2>3. Ordered(r, ts) /\ Leads(ts, i) /\ Sealed(ts)
    <3>1. Ordered(r, ts) /\ Leads(ts, i)
      BY <1>1, <2>1, <2>2, SameOrder
    <3>2. QED
      BY <2>1, <2>2, <3>1, SealedBy
  <2>4. /\ WithdrawalChange(rs, i, previous) \in Notes(r)
        /\ WithdrawalChange(rs, i, previous).rev = i
        /\ ~WithdrawalChange(rs, i, previous).canonical
    BY <1>1, <1>3, <1>5, WithdrawalNote
  <2>5. /\ out \in Seq(Notes(r)) /\ out # <<>> /\ Len(out) = Len(d.out) + 1
        /\ out[Len(out)] = WithdrawalChange(rs, i, previous)
        /\ \A k \in DOMAIN out : out[k].rev \in DOMAIN rs
    <3>1. /\ out \in Seq(Notes(r)) /\ out # <<>> /\ Len(out) = Len(d.out) + 1 /\ Len(d.out) \in Nat
          /\ DOMAIN d.out = 1..Len(d.out) /\ DOMAIN out = 1..(Len(d.out) + 1)
          /\ \A k \in DOMAIN d.out : out[k] = d.out[k]
          /\ out[Len(d.out) + 1] = WithdrawalChange(rs, i, previous)
      BY <1>1, <2>4, Appended
    <3>2. \A k \in DOMAIN out : k \in DOMAIN d.out \/ k = Len(d.out) + 1
      BY <3>1
    <3> HIDE DEF out
    <3>3. QED
      BY <1>1, <2>4, <3>1, <3>2
  <2> HIDE DEF out
  <2> DEFINE e == [revs |-> ts, out |-> out]
  <2>6. e \in Drafts(r) /\ e.revs = ts /\ e.out = out
    BY <2>1, <2>5, DraftParts
  <2>7. Sound(r, e) /\ Says(e, shown)
    <3> HIDE DEF e
    <3>1. QED
      BY <2>1, <2>2, <2>3, <2>4, <2>5, <2>6 DEF Sound, Says
  <2>8. WithdrawForRestricted(d, i) = e
    BY <1>2, <1>5
  <2> HIDE DEF e
  <2>9. QED
    BY <2>1, <2>2, <2>3, <2>6, <2>7, <2>8 DEF rs
<1>6. QED
  BY <1>4, <1>5

LEMMA RestrictedNotes ==
    ASSUME NEW r \in Records, NEW d, Sound(r, d), d.out = <<>>, NEW i, Leads(d.revs, i),
           d.revs[i].status = "restricted"
    PROVE  LET e == WithdrawForRestricted(d, i)
           IN  Continues(d.revs, e) /\ e.revs[Current(e.revs)].status = "restricted"
<1> DEFINE rs == d.revs
           e == WithdrawForRestricted(d, i)
           previous == PreviousPublished(rs, i)
           ts == SupersedeOthers(rs, i)
           w == WithdrawalChange(rs, i, previous)
<1>1. i \in DOMAIN rs /\ rs \in Seq(Revision) /\ Ordered(r, rs) /\ rs[i].status = "restricted"
  BY DEF Sound, Drafts, Leads
<1>2. CASE previous = 0
  <2>1. e = d
    BY <1>2 DEF WithdrawForRestricted
  <2>2. Current(d.revs) = i
    BY <1>1, CurrentLeads
  <2>3. QED
    BY <2>1, <2>2 DEF Continues, SameSources
<1>3. CASE previous # 0
  <2>1. previous \in DOMAIN rs
    BY <1>1, <1>3, PreviousOf
  <2>2. e.revs = ts /\ e.out = <<w>>
    BY <1>3 DEF WithdrawForRestricted
  <2>3. /\ ts \in Seq(Revision) /\ DOMAIN ts = DOMAIN rs /\ Len(ts) = Len(rs)
        /\ \A j \in DOMAIN rs :
              /\ ts[j].src = rs[j].src
              /\ ts[j].status = IF j # i /\ rs[j].status \in {"published", "staged"}
                                THEN "superseded" ELSE rs[j].status
    BY <1>1, SupersededOthers
  <2>4. /\ w.rev = i /\ ~w.canonical /\ Truthful(ts, w)
        /\ w.tlp = rs[previous].src.tlp
    BY <2>1, <2>3 DEF WithdrawalChange, Truthful
  <2>5. \A p : PublishedIn(rs) = {p} => previous = p
    <3> SUFFICES ASSUME NEW p, PublishedIn(rs) = {p} PROVE previous = p
      OBVIOUS
    <3>1. p \in DOMAIN rs /\ {j \in DOMAIN rs \ {i} : rs[j].status = "published"} = {p}
      BY <1>1 DEF PublishedIn
    <3>2. Newest(rs, {p}) \in {p}
      BY <1>1, <3>1, NewestOf
    <3>3. QED
      BY <3>1, <3>2 DEF PreviousPublished
  <2>6. rs[previous].src.tlp \in Nat
    <3>1. rs[previous].src.tlp \in 0..RED
      BY <1>1, <2>1, RevisionTypes
    <3>2. QED
      BY <3>1
  <2>7. Leads(ts, i) /\ ts[i].status = "restricted"
    <3> HIDE DEF ts
    <3>1. ts[i].status = "restricted"
      BY <1>1, <2>3
    <3>2. QED
      BY <1>1, <2>3, <3>1, SameOrder
  <2> HIDE DEF w, ts, previous, e, rs
  <2>8. Current(ts) = i
    BY <2>3, <2>7, CurrentLeads
  <2>9. SameSources(rs, ts)
    BY <2>3 DEF SameSources
  <2>10. \A k \in DOMAIN e.out : k = 1 /\ e.out[k] = w
    BY <2>2
  <2>11. \A p : PublishedIn(rs) = {p} => e.out[1].tlp <= rs[p].src.tlp
    <3>1. e.out[1] = w
      BY <2>2
    <3>2. w.tlp <= rs[previous].src.tlp
      BY <2>4, <2>6
    <3>3. QED
      BY <2>5, <3>1, <3>2
  <2>12. Continues(rs, e)
    BY <2>2, <2>4, <2>7, <2>9, <2>10, <2>11 DEF Continues
  <2>13. QED
    BY <2>2, <2>7, <2>8, <2>12 DEF rs, e
<1>4. QED
  BY <1>2, <1>3

(* What storing an item adds to the draft.                                 *)
Grown(d, e, item) ==
    /\ Len(e.revs) = Len(d.revs) + 1
    /\ \A j \in DOMAIN d.revs : e.revs[j].src = d.revs[j].src
    /\ e.revs[Len(e.revs)].src = item
Repeated(d, item) ==
    Current(d.revs) # 0 /\ item.time = d.revs[Current(d.revs)].src.time
NewlyPublished(d, e) ==
    {i \in PublishedIn(e.revs) : ~(i \in DOMAIN d.revs /\ d.revs[i].status = "published")}

LEMMA AddedRevision ==
    ASSUME NEW r, NEW rs \in Seq(Revision), \A j \in DOMAIN rs : rs[j].src.record = r,
           NEW x \in Revision, x.src.record = r
    PROVE  /\ Append(rs, x) \in Seq(Revision)
           /\ Len(Append(rs, x)) = Len(rs) + 1 /\ Len(rs) \in Nat
           /\ DOMAIN rs = 1..Len(rs) /\ DOMAIN Append(rs, x) = 1..(Len(rs) + 1)
           /\ \A j \in DOMAIN rs : Append(rs, x)[j] = rs[j]
           /\ Append(rs, x)[Len(rs) + 1] = x
           /\ \A j \in DOMAIN Append(rs, x) : Append(rs, x)[j].src.record = r
<1> DEFINE ts == Append(rs, x)
<1>3. /\ ts \in Seq(Revision) /\ Len(ts) = Len(rs) + 1 /\ Len(rs) \in Nat
      /\ DOMAIN rs = 1..Len(rs) /\ DOMAIN ts = 1..(Len(rs) + 1)
      /\ \A j \in DOMAIN rs : ts[j] = rs[j]
      /\ ts[Len(rs) + 1] = x
  BY Appended
<1>4. \A j \in DOMAIN ts : j \in DOMAIN rs \/ j = Len(rs) + 1
  BY <1>3
<1> HIDE DEF ts
<1>5. \A j \in DOMAIN ts : ts[j].src.record = r
  BY <1>3, <1>4
<1>6. QED
  BY <1>3, <1>5 DEF ts

LEMMA Stored ==
    ASSUME NEW r \in Records, NEW d, Sound(r, d), Sealed(d.revs), NEW item \in Items,
           item.record = r, NEW publish \in BOOLEAN, NEW shown, Says(d, shown)
    PROVE  LET e == StoreItem(d, item, publish)
           IN  /\ Sound(r, e) /\ Sealed(e.revs) /\ Says(e, shown)
               /\ \/ e = d /\ Repeated(d, item)
                  \/ Grown(d, e, item) /\ ~Repeated(d, item)
               /\ NewlyPublished(d, e) \subseteq IF publish THEN {Len(d.revs) + 1} ELSE {}
               /\ d.out = <<>> => Noted(d, e)
<1> DEFINE rs == d.revs
           c == Current(rs)
           older == c # 0 /\ item.time < rs[c].src.time
           replaced == c # 0 /\ rs[c].status \in {"staged", "restricted"}
           base == IF ~older /\ replaced THEN Mark(rs, c, "superseded") ELSE rs
           status == IF older THEN "superseded"
                     ELSE IF item.tlp = RED THEN "restricted" ELSE "staged"
           i == Len(rs) + 1
           x == [src |-> item, status |-> status]
           ts == Append(base, x)
           stored == [d EXCEPT !.revs = ts]
<1> DEFINE e == StoreItem(d, item, publish)
<1>1. /\ rs \in Seq(Revision) /\ d.out \in Seq(Notes(r)) /\ d \in Drafts(r) /\ Ordered(r, rs)
      /\ Sealed(rs) /\ \A k \in DOMAIN d.out : d.out[k].rev \in DOMAIN rs
  BY DEF Sound, Drafts
<1>2. e = IF Repeated(d, item) THEN d
          ELSE IF status = "restricted" THEN WithdrawForRestricted(stored, i)
          ELSE IF status = "staged" /\ publish THEN PublishRevision(stored, i)
          ELSE stored
  BY DEF StoreItem, Repeated
<1>3. CASE Repeated(d, item)
  <2>1. e = d
    BY <1>2, <1>3
  <2> HIDE DEF e
  <2>2. NewlyPublished(d, e) = {}
    BY <2>1 DEF NewlyPublished, PublishedIn
  <2>3. d.out = <<>> => Noted(d, e)
    BY <2>1, UnnotedContinues DEF Unnoted, SameSources
  <2>4. QED
    BY <1>1, <1>3, <2>1, <2>2, <2>3 DEF e
<1>4. CASE ~Repeated(d, item)
  <2>1. /\ c = 0 <=> rs = <<>>
        /\ c # 0 => Leads(rs, c) /\ c \in DOMAIN rs /\ item.time # rs[c].src.time
    BY <1>1, <1>4, CurrentOf DEF Repeated, Leads
  <2>2. status \in Status
    BY DEF Status
  <2> HIDE DEF c, rs
  <2>3. /\ base \in Seq(Revision) /\ Len(base) = Len(rs) /\ DOMAIN base = DOMAIN rs
        /\ \A j \in DOMAIN rs :
              /\ base[j].src = rs[j].src
              /\ base[j].status = IF ~older /\ replaced /\ j = c THEN "superseded"
                                  ELSE rs[j].status
    <3>1. CASE ~older /\ replaced
      <4>1. c \in DOMAIN rs /\ "superseded" \in Status
        BY <2>1, <3>1 DEF Status
      <4>2. QED
        BY <1>1, <3>1, <4>1, Marked
    <3>2. CASE ~(~older /\ replaced)
      BY <1>1, <3>2
    <3>3. QED
      BY <3>1, <3>2
  <2> HIDE DEF base, status
  <2>4. \A j \in DOMAIN base : base[j].src.record = r
    BY <1>1, <2>3 DEF Ordered
  <2>5. /\ ts \in Seq(Revision) /\ Len(ts) = Len(rs) + 1 /\ Len(rs) \in Nat
        /\ DOMAIN rs = 1..Len(rs) /\ DOMAIN ts = 1..(Len(rs) + 1)
        /\ \A j \in DOMAIN rs : ts[j] = base[j]
        /\ ts[i].src = item /\ ts[i].status = status
        /\ \A j \in DOMAIN ts : ts[j].src.record = r
    <3>1. base \in Seq(Revision)
      BY <2>3
    <3>2. x \in Revision /\ x.src = item /\ x.status = status
      BY <2>2 DEF Revision
    <3> HIDE DEF x
    <3>4. /\ ts \in Seq(Revision) /\ Len(ts) = Len(base) + 1 /\ Len(base) \in Nat
          /\ DOMAIN base = 1..Len(base) /\ DOMAIN ts = 1..(Len(base) + 1)
          /\ \A j \in DOMAIN base : ts[j] = base[j]
          /\ ts[Len(base) + 1] = x
          /\ \A j \in DOMAIN ts : ts[j].src.record = r
      BY <2>4, <3>1, <3>2, AddedRevision
    <3> HIDE DEF ts
    <3>5. QED
      BY <2>3, <3>2, <3>4
  <2>6. i \in DOMAIN ts /\ i \notin DOMAIN rs /\ \A j \in DOMAIN ts : j = i \/ j \in DOMAIN rs
    BY <2>5
  <2> HIDE DEF ts, i
  <2>7. \A j \in DOMAIN rs : rs[j].src.time \in Nat
    BY <1>1, RevisionTypes
  <2>8. PublishedIn(ts) = PublishedIn(rs)
    BY <2>1, <2>3, <2>5, <2>6 DEF PublishedIn, status
  <2>9. stored \in Drafts(r) /\ stored.revs = ts /\ stored.out = d.out
    BY <1>1, <2>5 DEF Drafts
  <2> HIDE DEF stored
  <2>10. Says(stored, shown)
    BY <2>8, <2>9 DEF Says, rs
  <2>11. /\ \A k \in DOMAIN stored.out : stored.out[k].rev \in DOMAIN stored.revs
         /\ SameSources(rs, ts)
    BY <1>1, <2>3, <2>5, <2>9 DEF SameSources
  <2>12. CASE older
    <3>1. status = "superseded" /\ base = rs
      BY <2>12 DEF status, base
    <3>2. e = stored
      BY <1>2, <1>4, <3>1
    <3>3. Leads(ts, c)
      BY <2>1, <2>3, <2>5, <2>6, <2>7, <2>12, <3>1, ItemTypes DEF Leads
    <3>4. Ordered(r, ts) /\ c \in DOMAIN ts
      BY <2>5, <3>3 DEF Ordered, Leads
    <3>5. Sealed(ts)
      <4>1. ts[c].status = rs[c].status
        BY <2>1, <2>5, <2>12, <3>1
      <4>2. ts[c].status = "restricted" => PublishedIn(ts) = {}
        BY <1>1, <2>1, <2>8, <2>12, <4>1 DEF Sealed
      <4>3. QED
        BY <2>5, <3>3, <4>2, SealedBy
    <3>6. Sound(r, stored)
      BY <2>9, <2>11, <3>4 DEF Sound
    <3>7. NewlyPublished(d, stored) = {}
      BY <2>8, <2>9 DEF NewlyPublished, PublishedIn, rs
    <3>8. Grown(d, stored, item)
      BY <2>3, <2>5, <2>9 DEF Grown, i, rs
    <3>9. d.out = <<>> => Noted(d, stored)
      BY <2>8, <2>9, <2>11, UnnotedContinues DEF Unnoted, rs
    <3> HIDE DEF e
    <3>10. QED
      BY <1>4, <2>9, <2>10, <3>2, <3>5, <3>6, <3>7, <3>8, <3>9 DEF e
  <2>13. CASE ~older
    <3>1. /\ status = IF item.tlp = RED THEN "restricted" ELSE "staged"
          /\ status # "superseded"
      BY <2>13 DEF status
    <3>2. \A j \in DOMAIN rs : rs[j].src.time < item.time
      <4> SUFFICES ASSUME NEW j \in DOMAIN rs PROVE rs[j].src.time < item.time
        OBVIOUS
      <4>1. c # 0
        BY <2>1
      <4>2. item.time > rs[c].src.time
        BY <2>1, <2>7, <2>13, <4>1, ItemTypes
      <4>3. j # c => rs[j].src.time < rs[c].src.time
        BY <2>1, <4>1 DEF Leads
      <4>4. QED
        BY <2>1, <2>7, <4>1, <4>2, <4>3, ItemTypes
    <3>3. Leads(ts, i)
      BY <2>3, <2>5, <2>6, <3>1, <3>2 DEF Leads
    <3>4. Ordered(r, ts)
      BY <2>5, <2>6, <3>3 DEF Ordered
    <3>5. Sound(r, stored) /\ Leads(stored.revs, i)
      BY <2>9, <2>11, <3>3, <3>4 DEF Sound
    <3>6. \A j \in DOMAIN rs : ts[j].src = rs[j].src
      BY <2>3, <2>5
    <3>7. CASE item.tlp = RED
      <4>1. stored.revs[i].status = "restricted"
        BY <2>5, <2>9, <3>1, <3>7
      <4>2. e = WithdrawForRestricted(stored, i)
        BY <1>2, <1>4, <3>1, <3>7
      <4> HIDE DEF e
      <4>3. /\ Sound(r, e) /\ Sealed(e.revs) /\ Says(e, shown)
            /\ Len(e.revs) = Len(ts) /\ DOMAIN e.revs = DOMAIN ts
            /\ \A j \in DOMAIN ts : e.revs[j].src = ts[j].src
            /\ PublishedIn(e.revs) = {}
        BY <2>9, <2>10, <3>5, <4>1, <4>2, Restricted
      <4>4. NewlyPublished(d, e) = {}
        BY <4>3 DEF NewlyPublished
      <4>5. Grown(d, e, item)
        BY <2>5, <2>6, <3>6, <4>3 DEF Grown, i, rs
      <4>6. ASSUME d.out = <<>> PROVE Noted(d, e)
        <5>1. Continues(ts, e) /\ e.revs[Current(e.revs)].status = "restricted"
          BY <2>9, <3>5, <4>1, <4>2, <4>6, RestrictedNotes
        <5>2. QED
          BY <2>8, <2>11, <5>1, ContinuesOn DEF Noted, rs
      <4>7. QED
        BY <1>4, <4>3, <4>4, <4>5, <4>6 DEF e
    <3>8. CASE item.tlp # RED /\ publish
      <4>2. e = PublishRevision(stored, i)
        BY <1>2, <1>4, <3>1, <3>8
      <4> HIDE DEF e
      <4>3. /\ Sound(r, e) /\ Sealed(e.revs) /\ Says(e, shown)
            /\ Len(e.revs) = Len(ts) /\ DOMAIN e.revs = DOMAIN ts
            /\ \A j \in DOMAIN ts : e.revs[j].src = ts[j].src
            /\ PublishedIn(e.revs) = {i}
        <5>1. /\ Sound(r, e) /\ Sealed(e.revs)
              /\ Len(e.revs) = Len(stored.revs) /\ DOMAIN e.revs = DOMAIN stored.revs
              /\ \A j \in DOMAIN stored.revs : e.revs[j].src = stored.revs[j].src
              /\ PublishedIn(e.revs) = {i}
              /\ \A any : Says(e, any)
          BY <3>5, <4>2, Released
        <5>2. QED
          BY <2>9, <5>1
      <4>4. NewlyPublished(d, e) \subseteq {i}
        BY <4>3 DEF NewlyPublished
      <4>5. Grown(d, e, item)
        BY <2>5, <2>6, <3>6, <4>3 DEF Grown, i, rs
      <4>6. ASSUME d.out = <<>> PROVE Noted(d, e)
        <5>1. stored.revs[i].status = "staged"
          BY <2>5, <2>9, <3>1, <3>8
        <5>2. Continues(ts, e) /\ e.revs[Current(e.revs)].status = "published"
          BY <2>9, <3>5, <4>2, <4>6, <5>1, ReleasedNotes
        <5>3. QED
          BY <2>8, <2>11, <5>2, ContinuesOn DEF Noted, rs
      <4>7. QED
        BY <1>4, <3>8, <4>3, <4>4, <4>5, <4>6 DEF e, i, rs
    <3>9. CASE item.tlp # RED /\ ~publish
      <4>1. e = stored
        BY <1>2, <1>4, <3>1, <3>9
      <4>2. Sealed(ts)
        BY <2>5, <3>1, <3>3, <3>9, SealedBy
      <4>3. NewlyPublished(d, stored) = {}
        BY <2>8, <2>9 DEF NewlyPublished, PublishedIn, rs
      <4>4. Grown(d, stored, item)
        BY <2>5, <2>9, <3>6 DEF Grown, i, rs
      <4>5. d.out = <<>> => Noted(d, stored)
        BY <2>8, <2>9, <2>11, UnnotedContinues DEF Unnoted, rs
      <4> HIDE DEF e
      <4>6. QED
        BY <1>4, <2>9, <2>10, <3>5, <4>1, <4>2, <4>3, <4>4, <4>5 DEF e
    <3>10. QED
      BY <3>7, <3>8, <3>9
  <2>14. QED
    BY <2>12, <2>13
<1>5. QED
  BY <1>3, <1>4

(* A draft that starts without changes and becomes what an import makes of *)
(* it: what it newly publishes was decided, is no active revision, or came *)
(* with an item that is not.                                               *)
LEMMA Imported ==
    ASSUME NEW r \in Records, NEW d, Sound(r, d), Sealed(d.revs), NEW item \in Items,
           item.record = r, NEW publish \in BOOLEAN, NEW shown, Says(d, shown),
           ~Conflicts(d.revs, item)
    PROVE  LET e == ImportItem(d, item, publish)
           IN  /\ Sound(r, e) /\ Sealed(e.revs) /\ Says(e, shown)
               /\ Len(d.revs) <= Len(e.revs) /\ Len(e.revs) <= Len(d.revs) + 1
               /\ \A i \in NewlyPublished(d, e) :
                     \/ i \in IF publish THEN {Len(d.revs) + 1} ELSE {}
                     \/ e.revs[i].src.life # "active"
                     \/ /\ Len(e.revs) > Len(d.revs)
                        /\ e.revs[Len(e.revs)].src.life # "active"
               /\ d.out = <<>> => Continues(d.revs, e)
<1> DEFINE s == StoreItem(d, item, publish)
           e == EmergencyWithdraw(s, item)
           c == Current(s.revs)
<1>1. /\ Sound(r, s) /\ Sealed(s.revs) /\ Says(s, shown)
      /\ \/ s = d /\ Repeated(d, item)
         \/ Grown(d, s, item) /\ ~Repeated(d, item)
      /\ NewlyPublished(d, s) \subseteq IF publish THEN {Len(d.revs) + 1} ELSE {}
      /\ d.out = <<>> => Noted(d, s)
  BY Stored
<1>2. ImportItem(d, item, publish) = e
  BY DEF ImportItem
<1>3. e = IF EmergencyReleases(s, item) THEN PublishRevision(s, c) ELSE s
  BY DEF EmergencyWithdraw
<1> HIDE DEF s, e
<1>4. Len(d.revs) \in Nat /\ Len(s.revs) \in Nat /\ d.revs \in Seq(Revision) /\ s.revs \in Seq(Revision)
  BY <1>1 DEF Sound, Drafts
<1>5. Len(d.revs) <= Len(s.revs) /\ Len(s.revs) <= Len(d.revs) + 1
  BY <1>1, <1>4 DEF Grown
<1>6. CASE ~EmergencyReleases(s, item)
  <2>1. e = s
    BY <1>3, <1>6
  <2>2. d.out = <<>> => Continues(d.revs, e)
    BY <1>1, <2>1 DEF Noted
  <2>3. QED
    BY <1>1, <1>2, <1>5, <2>1, <2>2
<1>7. CASE EmergencyReleases(s, item)
  <2>1. e = PublishRevision(s, c) /\ c # 0 /\ item.life # "active"
    BY <1>3, <1>7 DEF EmergencyReleases
  <2>2. Leads(s.revs, c) /\ c \in DOMAIN s.revs
    BY <1>1, <2>1, CurrentOf DEF Sound, Leads
  <2>3. ASSUME d.out = <<>> PROVE Continues(d.revs, e)
    <3>1. s.revs[c].status = "staged"
      BY <1>7 DEF EmergencyReleases
    <3>2. s.out = <<>> /\ PublishedIn(s.revs) = PublishedIn(d.revs) /\ SameSources(d.revs, s.revs)
      BY <1>1, <2>3, <3>1 DEF Noted, Unnoted
    <3>3. Continues(s.revs, e)
      BY <1>1, <2>1, <2>2, <3>1, <3>2, ReleasedNotes
    <3>4. QED
      BY <3>2, <3>3, ContinuesOn
  <2> HIDE DEF c
  <2>4. /\ Sound(r, e) /\ Sealed(e.revs)
        /\ Len(e.revs) = Len(s.revs) /\ DOMAIN e.revs = DOMAIN s.revs
        /\ \A j \in DOMAIN s.revs : e.revs[j].src = s.revs[j].src
        /\ PublishedIn(e.revs) = {c}
        /\ \A any : Says(e, any)
    BY <1>1, <2>1, <2>2, Released
  <2>5. CASE Grown(d, s, item)
    <3>1. Len(s.revs) = Len(d.revs) + 1 /\ s.revs[Len(s.revs)].src = item
      BY <2>5 DEF Grown
    <3>2. Len(s.revs) \in DOMAIN s.revs
      BY <1>4, <3>1
    <3>3. Len(e.revs) > Len(d.revs) /\ e.revs[Len(e.revs)].src = item
      BY <1>4, <2>4, <3>1, <3>2
    <3>4. QED
      BY <1>2, <1>5, <2>1, <2>3, <2>4, <3>3
  <2>6. CASE s = d /\ Repeated(d, item)
    <3>1. item = s.revs[c].src
      BY <2>1, <2>6 DEF Conflicts, Repeated, c
    <3>2. e.revs[c].src = item
      BY <2>2, <2>4, <3>1
    <3>3. \A i \in NewlyPublished(d, e) : i = c
      BY <2>4 DEF NewlyPublished
    <3>4. QED
      BY <1>2, <1>5, <2>1, <2>3, <2>4, <3>2, <3>3
  <2>7. QED
    BY <1>1, <2>5, <2>6
<1>8. QED
  BY <1>6, <1>7

-----------------------------------------------------------------------------
(* Sets of changes.                                                        *)

Distinct(S) == \A c, d \in S : c.seq = d.seq => c = d
LastOf(S, c) == c \in S /\ \A d \in S : d.seq <= c.seq
Own(S, r) == {c \in S : c.record = r}
Matches(rs, S) ==
    /\ S = {} => PublishedIn(rs) = {}
    /\ \A c \in S : LastOf(S, c) => PublishedIn(rs) = IF c.canonical THEN {c.rev} ELSE {}

LEMMA ChangeTypes ==
    ASSUME NEW S \in SUBSET Change, NEW c \in S
    PROVE  /\ c \in Change /\ c.seq \in Nat /\ c.seq >= 1 /\ c.seq <= MaxSeq /\ c.seq \in 1..MaxSeq
           /\ c.record \in Records /\ c.rev \in 1..MaxRevisions /\ c.canonical \in BOOLEAN
<1>1. c \in Change /\ MaxSeq \in Nat
  BY PublisherAssumption
<1>2. QED
  BY <1>1 DEF Change

LEMMA LastExists ==
    ASSUME NEW S \in SUBSET Change, S # {}
    PROVE  \E c \in S : LastOf(S, c)
<1> DEFINE T == {c.seq : c \in S}
<1>1. T \in SUBSET Int /\ T # {} /\ MaxSeq \in Int /\ \A x \in T : x <= MaxSeq
  BY ChangeTypes, PublisherAssumption
<1>2. PICK t \in T : \A x \in T : x <= t
  <2> HIDE DEF T
  <2>1. QED
    BY <1>1, Greatest
<1>3. PICK c \in S : c.seq = t
  OBVIOUS
<1>4. \A d \in S : d.seq <= c.seq
  BY <1>2, <1>3
<1>5. QED
  BY <1>4 DEF LastOf

LEMMA LastUnique ==
    ASSUME NEW S \in SUBSET Change, Distinct(S), NEW c, LastOf(S, c), NEW d, LastOf(S, d)
    PROVE  c = d
<1>1. c \in S /\ d \in S /\ c.seq <= d.seq /\ d.seq <= c.seq
  BY DEF LastOf
<1>2. c.seq = d.seq
  BY <1>1, ChangeTypes
<1>3. QED
  BY <1>1, <1>2 DEF Distinct

(* The projection shows the last change of the record unless it withdraws. *)
LEMMA Projected ==
    ASSUME NEW S \in SUBSET Change, Distinct(S), NEW r
    PROVE  /\ Own(S, r) = {} => SyncedProjection(S, r) = 0
           /\ \A c : LastOf(Own(S, r), c) =>
                 SyncedProjection(S, r) = IF c.canonical THEN c.seq ELSE 0
<1> DEFINE O == Own(S, r)
<1>1. O \in SUBSET Change /\ Distinct(O)
  BY DEF Own, Distinct
<1>2. SyncedProjection(S, r) =
        LET latest == CHOOSE c \in O : \A d \in O : d.seq <= c.seq
        IN  IF O # {} /\ latest.canonical THEN latest.seq ELSE 0
  BY DEF SyncedProjection, Own
<1>3. ASSUME NEW c, LastOf(O, c)
      PROVE  (CHOOSE x \in O : \A d \in O : d.seq <= x.seq) = c /\ O # {}
  <2>1. c \in O /\ \A d \in O : d.seq <= c.seq
    BY <1>3 DEF LastOf
  <2>2. \A x \in O : (\A d \in O : d.seq <= x.seq) => x = c
    <3> HIDE DEF O
    <3>1. QED
      BY <1>1, <1>3, LastUnique DEF LastOf
  <2> HIDE DEF O
  <2>3. QED
    BY <2>1, <2>2
<1> HIDE DEF O
<1>4. QED
  BY <1>2, <1>3 DEF O

LEMMA SequencedNotes ==
    ASSUME NEW r \in Records, NEW out \in Seq(Notes(r)), nextSeq \in Nat \ {0},
           nextSeq + Len(out) <= MaxSeq + 1,
           \A k \in DOMAIN out : out[k].rev \in 1..MaxRevisions
    PROVE  /\ Sequenced(out) \in SUBSET Change /\ Distinct(Sequenced(out))
           /\ \A c \in Sequenced(out) :
                 /\ c.record = r /\ nextSeq <= c.seq /\ c.seq < nextSeq + Len(out)
                 /\ \E k \in DOMAIN out : c.rev = out[k].rev
           /\ out = <<>> <=> Sequenced(out) = {}
           /\ out # <<>> => \A c : LastOf(Sequenced(out), c) =>
                 /\ c.canonical = out[Len(out)].canonical /\ c.rev = out[Len(out)].rev
<1> DEFINE change(k) == [seq |-> SeqOf(k), record |-> out[k].record, rev |-> out[k].rev,
                         canonical |-> out[k].canonical, tlp |-> out[k].tlp, kind |-> out[k].kind,
                         life |-> out[k].life]
<1>1. Sequenced(out) = {change(k) : k \in DOMAIN out}
  BY DEF Sequenced
<1>2. MaxSeq \in Nat /\ Len(out) \in Nat /\ DOMAIN out = 1..Len(out)
  BY PublisherAssumption
<1>3. ASSUME NEW k \in DOMAIN out
      PROVE  /\ change(k) \in Change /\ change(k).seq = nextSeq + k - 1 /\ change(k).record = r
             /\ change(k).rev = out[k].rev /\ change(k).canonical = out[k].canonical
             /\ nextSeq <= change(k).seq /\ change(k).seq < nextSeq + Len(out)
  <2>1. out[k] \in Notes(r) /\ k \in 1..Len(out) /\ out[k].rev \in 1..MaxRevisions
    BY <1>2
  <2>2. SeqOf(k) \in 1..MaxSeq /\ SeqOf(k) = nextSeq + k - 1
    BY <1>2, <2>1 DEF SeqOf
  <2>3. /\ out[k].record = r /\ out[k].canonical \in BOOLEAN
        /\ out[k].tlp \in 0..RED /\ out[k].kind \in Kinds /\ out[k].life \in Lifecycle
    BY <2>1 DEF Notes
  <2>4. change(k) \in Change
    BY <2>1, <2>2, <2>3 DEF Change
  <2>5. /\ change(k).seq = SeqOf(k) /\ change(k).record = out[k].record
        /\ change(k).rev = out[k].rev /\ change(k).canonical = out[k].canonical
    OBVIOUS
  <2> HIDE DEF change
  <2>6. QED
    BY <1>2, <2>1, <2>2, <2>3, <2>4, <2>5
<1> HIDE DEF change
<1>4. Sequenced(out) \in SUBSET Change
  BY <1>1, <1>3
<1>5. Distinct(Sequenced(out))
  <2>1. ASSUME NEW j \in DOMAIN out, NEW k \in DOMAIN out, change(j).seq = change(k).seq
        PROVE  change(j) = change(k)
    <3>1. j = k
      BY <1>2, <1>3, <2>1
    <3>2. QED
      BY <3>1
  <2>2. QED
    BY <1>1, <2>1 DEF Distinct
<1>6. \A c \in Sequenced(out) :
         /\ c.record = r /\ nextSeq <= c.seq /\ c.seq < nextSeq + Len(out)
         /\ \E k \in DOMAIN out : c.rev = out[k].rev
  BY <1>1, <1>3
<1>7. out = <<>> <=> Sequenced(out) = {}
  <2>1. out = <<>> <=> DOMAIN out = {}
    OBVIOUS
  <2>2. QED
    BY <1>1, <2>1
<1>8. ASSUME out # <<>>, NEW c, LastOf(Sequenced(out), c)
      PROVE  c.canonical = out[Len(out)].canonical /\ c.rev = out[Len(out)].rev
  <2>1. PICK k \in DOMAIN out : c = change(k)
    BY <1>1, <1>8 DEF LastOf
  <2>2. Len(out) \in DOMAIN out
    BY <1>2, <1>8
  <2>3. change(Len(out)).seq <= change(k).seq
    BY <1>1, <1>8, <2>1, <2>2 DEF LastOf
  <2>4. k = Len(out)
    <3>1. change(Len(out)).seq = nextSeq + Len(out) - 1 /\ change(k).seq = nextSeq + k - 1
      BY <1>3, <2>2
    <3>2. QED
      BY <1>2, <2>2, <2>3, <3>1
  <2>5. QED
    BY <1>3, <2>1, <2>4
<1>9. QED
  BY <1>4, <1>5, <1>6, <1>7, <1>8

-----------------------------------------------------------------------------
(* The invariant of the publisher.  The log and the projection agree with  *)
(* the revisions of every record; a transaction that has written holds a   *)
(* draft of a record of its own, with changes younger than all the record  *)
(* has in the log, and that draft agrees with those changes.               *)

Writes == [op : {"import", "publish"}, record : Records, revs : Seq(Revision),
           out : SUBSET Change, decided : SUBSET Nat]
Rejects == [op : {"reject"}, record : Records, rev : Nat]
Transactions == {NoTx} \cup Writes \cup Rejects

PublisherTyped ==
    /\ revs \in [Records -> Seq(Revision)]
    /\ log \in SUBSET Change
    /\ projection \in [Records -> 0..MaxSeq]
    /\ tx \in [Operators -> Transactions]
    /\ nextSeq \in 1..(MaxSeq + 1)
    /\ raced \in SUBSET Records

LogInv ==
    /\ Distinct(log)
    /\ \A c \in log : c.seq < nextSeq /\ c.rev \in DOMAIN revs[c.record]

DraftInv(o) ==
    LET r == tx[o].record
    IN  /\ History(r, tx[o].revs)
        /\ Len(revs[r]) <= Len(tx[o].revs)
        /\ Distinct(tx[o].out)
        /\ \A c \in tx[o].out :
              /\ c.record = r /\ c.seq < nextSeq /\ c.rev \in DOMAIN tx[o].revs
              /\ \A d \in log : d.seq # c.seq /\ (d.record = r => d.seq < c.seq)
        /\ tx[o].out = {} => PublishedIn(tx[o].revs) = PublishedIn(revs[r])
        /\ tx[o].out # {} => Matches(tx[o].revs, tx[o].out)

Apart ==
    \A o, p \in Writing : o # p =>
        /\ tx[o].record # tx[p].record
        /\ \A c \in tx[o].out, d \in tx[p].out : c.seq # d.seq

RejectInv ==
    \A o \in Operators : tx[o].op = "reject" => tx[o].rev \in DOMAIN revs[tx[o].record]

ProjectionInv ==
    /\ \A r \in Records : projection[r] = SyncedProjection(log, r)
    /\ \A r \in Records \ raced : Matches(revs[r], Own(log, r))

PublisherInv ==
    /\ PublisherTyped
    /\ \A r \in Records : History(r, revs[r])
    /\ LogInv
    /\ \A o \in Writing : DraftInv(o)
    /\ Apart /\ RejectInv /\ ProjectionInv
    /\ ReleasedByDecision

LEMMA TxTypes ==
    ASSUME PublisherTyped, NEW o \in Operators
    PROVE  /\ tx[o] \in Transactions
           /\ o \in Writing <=> tx[o] \in Writes
           /\ tx[o].op = "reject" <=> tx[o] \in Rejects
           /\ Idle(o) => tx[o].op = "none"
           /\ tx[o].op \in {"none", "import", "publish", "reject"}
<1>1. tx[o] \in Transactions
  BY DEF PublisherTyped
<1>2. QED
  BY <1>1 DEF Transactions, Writes, Rejects, NoTx, Writing, Idle

LEMMA WriteTypes ==
    ASSUME PublisherTyped, NEW o \in Writing
    PROVE  /\ o \in Operators /\ tx[o].record \in Records
           /\ tx[o].revs \in Seq(Revision) /\ tx[o].out \in SUBSET Change
           /\ tx[o].decided \in SUBSET Nat
<1>1. o \in Operators
  BY DEF Writing
<1>2. tx[o] \in Writes
  BY <1>1, TxTypes
<1>3. QED
  BY <1>1, <1>2 DEF Writes

LEMMA SeqIsNat == PublisherTyped => nextSeq \in Nat \ {0} /\ MaxSeq \in Nat
  BY PublisherAssumption DEF PublisherTyped

LEMMA PublisherInit == Init => PublisherInv
<1> SUFFICES ASSUME Init PROVE PublisherInv
  OBVIOUS
<1>1. MaxSeq \in Nat /\ MaxRevisions \in Nat
  BY PublisherAssumption
<1>2. /\ \A r \in Records : revs[r] = <<>>
      /\ log = {} /\ nextSeq = 1 /\ raced = {}
      /\ \A r \in Records : projection[r] = 0
      /\ \A o \in Operators : tx[o].op = "none"
  BY DEF Init, NoTx
<1>3. PublisherTyped
  <2>1. revs \in [Records -> Seq(Revision)] /\ log \in SUBSET Change /\ raced \in SUBSET Records
    BY DEF Init
  <2>2. projection \in [Records -> 0..MaxSeq] /\ nextSeq \in 1..(MaxSeq + 1)
    BY <1>1 DEF Init
  <2>3. tx \in [Operators -> Transactions]
    BY DEF Init, Transactions
  <2>4. QED
    BY <2>1, <2>2, <2>3 DEF PublisherTyped
<1>4. Writing = {}
  BY <1>2 DEF Writing
<1>5. \A r \in Records : History(r, revs[r])
  <2>1. \A r : History(r, <<>>)
    BY <1>1 DEF History, Ordered, Sealed
  <2>2. QED
    BY <1>2, <2>1
<1>6. ProjectionInv
  <2>1. \A r : Own(log, r) = {}
    BY <1>2 DEF Own
  <2>2. PublishedIn(<<>>) = {}
    BY DEF PublishedIn
  <2>3. \A r : SyncedProjection(log, r) = 0
    BY <2>1 DEF SyncedProjection, Own
  <2>4. \A r \in Records : Matches(revs[r], Own(log, r))
    BY <1>2, <2>1, <2>2 DEF Matches
  <2>5. QED
    BY <1>2, <2>3, <2>4 DEF ProjectionInv
<1>7. LogInv /\ RejectInv
  BY <1>2 DEF LogInv, RejectInv, Distinct
<1>8. QED
  BY <1>3, <1>4, <1>5, <1>6, <1>7 DEF PublisherInv, Apart, ReleasedByDecision

(* A write begins: what its draft says of the record follows from what the *)
(* record says, and nothing of the others changes.                         *)
LEMMA BeginInv ==
    ASSUME PublisherInv, NEW o \in Operators, Idle(o), NEW op \in {"import", "publish"},
           NEW r \in Records, ~Locked(r), NEW e, Sound(r, e), Sealed(e.revs),
           Len(e.revs) <= MaxRevisions, Len(revs[r]) <= Len(e.revs),
           Says(e, PublishedIn(revs[r])), NEW decided \in SUBSET Nat,
           \A i \in NewlyPublished(Draft(r), e) :
              \/ i \in decided \/ e.revs[i].src.life # "active"
              \/ Len(e.revs) > Len(revs[r]) /\ e.revs[Len(e.revs)].src.life # "active",
           Begin(o, op, r, e, decided)
    PROVE  PublisherInv'
<1> DEFINE out == Sequenced(e.out)
           t == [op |-> op, record |-> r, revs |-> e.revs, out |-> out, decided |-> decided]
<1>1. PublisherTyped
  BY DEF PublisherInv
<1>2. /\ e.revs \in Seq(Revision) /\ e.out \in Seq(Notes(r)) /\ Ordered(r, e.revs)
      /\ \A k \in DOMAIN e.out : e.out[k].rev \in DOMAIN e.revs
      /\ Len(e.out) \in Nat /\ nextSeq \in Nat \ {0} /\ MaxSeq \in Nat /\ MaxRevisions \in Nat
  <2>1. e.revs \in Seq(Revision) /\ e.out \in Seq(Notes(r)) /\ Ordered(r, e.revs)
        /\ \A k \in DOMAIN e.out : e.out[k].rev \in DOMAIN e.revs
    BY DEF Sound, Drafts
  <2>2. QED
    BY <1>1, <2>1, SeqIsNat, PublisherAssumption
<1>3. /\ nextSeq + Len(e.out) <= MaxSeq + 1
      /\ tx' = [tx EXCEPT ![o] = t]
      /\ nextSeq' = nextSeq + Len(e.out)
      /\ UNCHANGED <<revs, log, projection, raced>>
  BY DEF Begin
<1>4. \A k \in DOMAIN e.out : e.out[k].rev \in 1..MaxRevisions
  <2>1. Len(e.revs) \in Nat /\ DOMAIN e.revs = 1..Len(e.revs)
    BY <1>2
  <2>2. QED
    BY <1>2, <2>1
<1>5. /\ out \in SUBSET Change /\ Distinct(out)
      /\ \A c \in out : /\ c.record = r /\ nextSeq <= c.seq /\ c.seq < nextSeq + Len(e.out)
                        /\ \E k \in DOMAIN e.out : c.rev = e.out[k].rev
      /\ e.out = <<>> <=> out = {}
      /\ e.out # <<>> => \A c : LastOf(out, c) =>
            /\ c.canonical = e.out[Len(e.out)].canonical /\ c.rev = e.out[Len(e.out)].rev
  BY <1>2, <1>3, <1>4, SequencedNotes
<1> HIDE DEF out
<1>6. t \in Writes /\ t.op = op /\ t.record = r /\ t.revs = e.revs /\ t.out = out /\ t.decided = decided
  BY <1>2, <1>5 DEF Writes
<1> HIDE DEF t
<1>7. tx'[o] = t /\ \A p \in Operators : p # o => tx'[p] = tx[p]
  BY <1>1, <1>3 DEF PublisherTyped
<1>8. PublisherTyped'
  <2>1. tx' \in [Operators -> Transactions]
    BY <1>1, <1>3, <1>6 DEF PublisherTyped, Transactions
  <2>2. nextSeq' \in 1..(MaxSeq + 1)
    BY <1>2, <1>3
  <2>3. Change' = Change /\ MaxSeq' = MaxSeq
    BY DEF Change
  <2>4. QED
    BY <1>1, <1>3, <2>1, <2>2 DEF PublisherTyped
<1>9. /\ \A p \in Writing' : p # o => p \in Writing /\ tx'[p] = tx[p]
      /\ o \notin Writing
  <2>1. o \notin Writing
    BY <1>1, TxTypes DEF Writing
  <2>2. QED
    BY <1>7, <2>1 DEF Writing
<1>10. LogInv'
  <2>1. \A c \in log : c.seq \in Nat
    BY <1>1, ChangeTypes DEF PublisherTyped
  <2>2. QED
    BY <1>2, <1>3, <2>1 DEF PublisherInv, LogInv
<1>11. \A c \in log : c.seq \in Nat /\ c.seq < nextSeq
  BY <1>1, ChangeTypes DEF PublisherTyped, PublisherInv, LogInv
<1>12. DraftInv(o)'
  <2>1. History(r, e.revs)
    BY <1>2 DEF History
  <2>2. \A c \in out : c.seq \in Nat
    BY <1>5, ChangeTypes
  <2>3. \A c \in out :
           /\ c.record = r /\ c.seq < nextSeq' /\ c.rev \in DOMAIN e.revs
           /\ \A d \in log : d.seq # c.seq /\ (d.record = r => d.seq < c.seq)
    BY <1>2, <1>3, <1>5, <1>11, <2>2
  <2>4. out = {} => PublishedIn(e.revs) = PublishedIn(revs[r])
    BY <1>5 DEF Says
  <2>5. out # {} => Matches(e.revs, out)
    BY <1>5 DEF Says, Matches
  <2>6. QED
    BY <1>3, <1>5, <1>6, <1>7, <2>1, <2>3, <2>4, <2>5 DEF DraftInv
<1>13. ASSUME NEW p \in Writing', p # o PROVE DraftInv(p)'
  <2>1. p \in Writing /\ tx'[p] = tx[p] /\ DraftInv(p)
    BY <1>9, <1>13 DEF PublisherInv
  <2>2. \A c \in tx[p].out : c.seq \in Nat
    BY <1>1, <2>1, WriteTypes, ChangeTypes
  <2>3. \A c \in tx[p].out : c.seq < nextSeq'
    BY <1>2, <1>3, <2>1, <2>2 DEF DraftInv
  <2>4. QED
    BY <1>3, <2>1, <2>3 DEF DraftInv
<1>14. Apart'
  <2>1. ASSUME NEW p \in Writing, p # o
        PROVE  tx[p].record # r /\ \A c \in tx[p].out, d \in out : c.seq # d.seq
    <3>1. \A c \in tx[p].out : c.seq \in Nat /\ c.seq < nextSeq
      BY <1>1, WriteTypes, ChangeTypes DEF PublisherInv, DraftInv
    <3>2. \A d \in out : d.seq \in Nat /\ nextSeq <= d.seq
      BY <1>5, ChangeTypes
    <3>3. tx[p].record # r
      BY DEF Locked
    <3>4. QED
      BY <1>2, <3>1, <3>2, <3>3
  <2>2. Apart
    BY DEF PublisherInv
  <2>3. QED
    BY <1>6, <1>7, <1>9, <2>1, <2>2 DEF Apart
<1>15. RejectInv'
  <2>1. tx'[o].op # "reject"
    BY <1>6, <1>7
  <2>2. QED
    BY <1>3, <1>7, <2>1 DEF PublisherInv, RejectInv
<1>16. ProjectionInv'
  BY <1>3 DEF PublisherInv, ProjectionInv
<1>17. ReleasedByDecision'
  <2>1. \A i \in DOMAIN e.revs :
            /\ e.revs[i].status = "published" /\ e.revs[i].src.life = "active"
            /\ ~(i \in DOMAIN revs[r] /\ revs[r][i].status = "published")
            => \/ i \in decided
               \/ Len(e.revs) > Len(revs[r]) /\ e.revs[Len(e.revs)].src.life # "active"
    BY DEF NewlyPublished, PublishedIn, Draft
  <2>2. \A p \in Writing' : p # o =>
            tx'[p] = tx[p] /\ p \in Writing
    BY <1>9
  <2>3. ReleasedByDecision
    BY DEF PublisherInv
  <2>4. QED
    BY <1>3, <1>6, <1>7, <2>1, <2>2, <2>3 DEF ReleasedByDecision
<1>18. \A q \in Records : History(q, revs'[q])
  BY <1>3 DEF PublisherInv
<1>19. \A p \in Writing' : DraftInv(p)'
  BY <1>12, <1>13
<1>20. QED
  BY <1>8, <1>10, <1>14, <1>15, <1>16, <1>17, <1>18, <1>19 DEF PublisherInv

(* A transaction that ends leaves the others as they were.                 *)
LEMMA Closed ==
    ASSUME PublisherTyped, NEW o \in Operators, NEW t \in Rejects \cup {NoTx},
           tx' = [tx EXCEPT ![o] = t]
    PROVE  /\ tx' \in [Operators -> Transactions]
           /\ tx'[o] = t /\ \A p \in Operators : p # o => tx'[p] = tx[p]
           /\ Writing' = Writing \ {o}
<1>1. tx \in [Operators -> Transactions]
  BY DEF PublisherTyped
<1>2. t \in Transactions /\ t.op \notin {"import", "publish"}
  BY DEF Transactions, Rejects, NoTx
<1>3. tx' \in [Operators -> Transactions] /\ tx'[o] = t /\ \A p \in Operators : p # o => tx'[p] = tx[p]
  BY <1>1, <1>2
<1>4. \A p \in Operators : p \in Writing' <=> p \in Writing /\ p # o
  BY <1>2, <1>3 DEF Writing
<1>5. QED
  BY <1>3, <1>4 DEF Writing

LEMMA EndInv ==
    ASSUME PublisherInv, NEW o \in Operators, NEW t \in Rejects \cup {NoTx},
           t.op = "reject" => t.rev \in DOMAIN revs[t.record],
           tx' = [tx EXCEPT ![o] = t], UNCHANGED <<revs, log, projection, nextSeq, raced>>
    PROVE  PublisherInv'
<1>1. PublisherTyped
  BY DEF PublisherInv
<1>2. /\ tx' \in [Operators -> Transactions]
      /\ tx'[o] = t /\ \A p \in Operators : p # o => tx'[p] = tx[p]
      /\ Writing' = Writing \ {o}
  BY <1>1, Closed
<1>3. \A p \in Writing' : p \in Writing /\ tx'[p] = tx[p]
  BY <1>2 DEF Writing
<1>4. PublisherTyped'
  BY <1>1, <1>2 DEF PublisherTyped
<1>5. \A p \in Writing' : DraftInv(p)'
  <2>1. ASSUME NEW p \in Writing' PROVE DraftInv(p)'
    <3>1. DraftInv(p) /\ tx'[p] = tx[p]
      BY <1>3 DEF PublisherInv
    <3>2. QED
      BY <3>1 DEF DraftInv
  <2>2. QED
    BY <2>1
<1>6. Apart'
  BY <1>3 DEF Apart, PublisherInv
<1>7. RejectInv'
  BY <1>2 DEF RejectInv, PublisherInv
<1>8. LogInv' /\ ProjectionInv' /\ \A r \in Records : History(r, revs'[r])
  BY DEF PublisherInv, LogInv, ProjectionInv
<1>9. ReleasedByDecision'
  BY <1>3 DEF ReleasedByDecision, PublisherInv
<1>10. QED
  BY <1>4, <1>5, <1>6, <1>7, <1>8, <1>9 DEF PublisherInv

LEMMA RejectWriteInv ==
    ASSUME PublisherInv, NEW o \in Operators, RejectWrite(o)
    PROVE  PublisherInv'
<1> DEFINE r == tx[o].record
           i == tx[o].rev
           rs == revs[r]
           ts == Mark(rs, i, "rejected")
<1>1. PublisherTyped
  BY DEF PublisherInv
<1>2. tx[o] \in Rejects /\ r \in Records /\ i \in DOMAIN rs
  <2>1. tx[o] \in Rejects
    BY <1>1, TxTypes DEF RejectWrite
  <2>2. QED
    BY <2>1 DEF Rejects, RejectWrite, PublisherInv, RejectInv
<1>3. /\ revs' = [revs EXCEPT ![r] = ts]
      /\ raced' = IF rs[i].status = "published" THEN raced \cup {r} ELSE raced
      /\ tx' = [tx EXCEPT ![o] = NoTx] /\ ~Locked(r)
      /\ UNCHANGED <<log, projection, nextSeq>>
  BY DEF RejectWrite
<1> HIDE DEF r, i
<1>4. rs \in Seq(Revision) /\ History(r, rs) /\ Ordered(r, rs) /\ Sealed(rs)
  BY <1>1, <1>2 DEF PublisherTyped, PublisherInv, History
<1> HIDE DEF rs
<1>5. /\ ts \in Seq(Revision) /\ Len(ts) = Len(rs) /\ DOMAIN ts = DOMAIN rs
      /\ \A j \in DOMAIN rs : /\ ts[j].src = rs[j].src
                              /\ ts[j].status = IF j = i THEN "rejected" ELSE rs[j].status
  <2>1. "rejected" \in Status
    BY DEF Status
  <2>2. QED
    BY <1>2, <1>4, <2>1, Marked
<1> HIDE DEF ts
<1>6. revs' \in [Records -> Seq(Revision)] /\ revs'[r] = ts /\ \A q \in Records : q # r => revs'[q] = revs[q]
  BY <1>1, <1>2, <1>3, <1>5 DEF PublisherTyped
<1>7. PublishedIn(ts) = PublishedIn(rs) \ {i}
  BY <1>5 DEF PublishedIn
<1>8. History(r, ts)
  <2>1. CASE rs = <<>>
    <3>1. QED
      BY <1>2, <1>4, <2>1
  <2>2. CASE rs # <<>>
    <3>1. PICK c \in DOMAIN rs : Leads(rs, c)
      BY <1>4, <2>2 DEF Ordered
    <3>2. ts[c].status # "superseded"
      BY <1>5, <3>1 DEF Leads
    <3>3. Ordered(r, ts) /\ Leads(ts, c)
      BY <1>4, <1>5, <3>1, <3>2, SameOrder
    <3>4. ts[c].status = "restricted" => PublishedIn(ts) = {}
      BY <1>4, <1>5, <1>7, <3>1 DEF Sealed
    <3>5. Sealed(ts)
      BY <1>5, <3>3, <3>4, SealedBy
    <3>6. QED
      BY <1>4, <1>5, <3>3, <3>5 DEF History
  <2>3. QED
    BY <2>1, <2>2
<1>9. /\ tx' \in [Operators -> Transactions]
      /\ tx'[o] = NoTx /\ \A p \in Operators : p # o => tx'[p] = tx[p]
      /\ Writing' = Writing \ {o}
  BY <1>1, <1>3, Closed
<1>10. \A p \in Writing' : p \in Writing /\ tx'[p] = tx[p] /\ tx[p].record \in Records /\ tx[p].record # r
  <2>1. \A p \in Writing' : p \in Writing /\ p \in Operators /\ p # o
    BY <1>9 DEF Writing
  <2>2. QED
    BY <1>1, <1>3, <1>9, <2>1, WriteTypes DEF Locked
<1>11. PublisherTyped'
  <2>1. raced' \in SUBSET Records
    BY <1>1, <1>2, <1>3 DEF PublisherTyped
  <2>2. QED
    BY <1>1, <1>3, <1>6, <1>9, <2>1 DEF PublisherTyped
<1>12. LogInv'
  <2>1. \A c \in log : DOMAIN revs'[c.record] = DOMAIN revs[c.record]
    <3>1. \A c \in log : c.record \in Records
      BY <1>1, ChangeTypes DEF PublisherTyped
    <3>2. QED
      BY <1>5, <1>6, <3>1 DEF rs
  <2>2. QED
    BY <1>3, <2>1 DEF LogInv, PublisherInv
<1>13. \A p \in Writing' : DraftInv(p)'
  <2>1. ASSUME NEW p \in Writing' PROVE DraftInv(p)'
    <3>1. DraftInv(p) /\ tx'[p] = tx[p] /\ revs'[tx[p].record] = revs[tx[p].record]
      BY <1>6, <1>10 DEF PublisherInv
    <3>2. QED
      BY <1>3, <3>1 DEF DraftInv
  <2>2. QED
    BY <2>1
<1>14. Apart'
  BY <1>10 DEF Apart, PublisherInv
<1>15. RejectInv'
  <2>1. ASSUME NEW p \in Operators, tx'[p].op = "reject"
        PROVE  tx'[p].rev \in DOMAIN revs'[tx'[p].record]
    <3>1. p # o
      BY <1>9, <2>1 DEF NoTx
    <3>2. tx'[p] = tx[p] /\ tx[p].rev \in DOMAIN revs[tx[p].record]
      BY <1>9, <2>1, <3>1 DEF RejectInv, PublisherInv
    <3>3. tx[p].record \in Records
      <4>1. tx[p] \in Rejects
        BY <1>1, <2>1, <3>2, TxTypes
      <4>2. QED
        BY <4>1 DEF Rejects
    <3>4. QED
      BY <1>5, <1>6, <3>2, <3>3 DEF rs
  <2>2. QED
    BY <2>1 DEF RejectInv
<1>16. ProjectionInv'
  <2>1. ASSUME NEW q \in Records \ raced' PROVE Matches(revs'[q], Own(log, q))
    <3>1. q \notin raced /\ Matches(revs[q], Own(log, q))
      BY <1>3, <2>1 DEF PublisherInv, ProjectionInv
    <3>2. CASE q = r
      <4>1. rs[i].status # "published"
        BY <1>3, <2>1, <3>2
      <4>2. PublishedIn(ts) = PublishedIn(rs)
        BY <1>7, <4>1 DEF PublishedIn
      <4>3. QED
        BY <1>6, <3>1, <3>2, <4>2 DEF Matches, rs
    <3>3. CASE q # r
      BY <1>6, <3>1, <3>3
    <3>4. QED
      BY <3>2, <3>3
  <2>2. QED
    BY <1>3, <2>1 DEF ProjectionInv, PublisherInv
<1>17. ReleasedByDecision'
  <2>1. \A p \in Writing' : revs'[tx[p].record] = revs[tx[p].record]
    BY <1>6, <1>10
  <2>2. QED
    BY <1>10, <2>1 DEF ReleasedByDecision, PublisherInv
<1>18. \A q \in Records : History(q, revs'[q])
  BY <1>6, <1>8 DEF PublisherInv
<1>19. QED
  BY <1>11, <1>12, <1>13, <1>14, <1>15, <1>16, <1>17, <1>18 DEF PublisherInv

LEMMA CommitInv ==
    ASSUME PublisherInv, NEW o \in Operators, Commit(o)
    PROVE  PublisherInv'
<1> DEFINE r == tx[o].record
           out == tx[o].out
           ts == tx[o].revs
<1>1. PublisherTyped /\ o \in Writing
  BY DEF PublisherInv, Commit
<1>2. r \in Records /\ ts \in Seq(Revision) /\ out \in SUBSET Change
  BY <1>1, WriteTypes
<1>3. /\ revs' = [revs EXCEPT ![r] = ts] /\ log' = log \cup out
      /\ projection' = [projection EXCEPT ![r] = SyncedProjection(log', r)]
      /\ raced \subseteq raced' /\ raced' \subseteq raced \cup {r}
      /\ tx' = [tx EXCEPT ![o] = NoTx] /\ nextSeq' = nextSeq
  BY DEF Commit
<1>4. /\ History(r, ts) /\ Len(revs[r]) <= Len(ts) /\ Distinct(out)
      /\ \A c \in out :
            /\ c.record = r /\ c.seq < nextSeq /\ c.rev \in DOMAIN ts
            /\ \A d \in log : d.seq # c.seq /\ (d.record = r => d.seq < c.seq)
      /\ out = {} => PublishedIn(ts) = PublishedIn(revs[r])
      /\ out # {} => Matches(ts, out)
  BY <1>1 DEF PublisherInv, DraftInv
<1>5. \A p \in Writing : p # o =>
         /\ tx[p].record # r
         /\ \A c \in tx[p].out, d \in out : c.seq # d.seq
  BY <1>1 DEF PublisherInv, Apart
<1> HIDE DEF r, out, ts
<1>6. /\ tx' \in [Operators -> Transactions]
      /\ tx'[o] = NoTx /\ \A p \in Operators : p # o => tx'[p] = tx[p]
      /\ Writing' = Writing \ {o}
  BY <1>1, <1>3, Closed
<1>7. \A p \in Writing' : /\ p \in Writing /\ p # o /\ tx'[p] = tx[p]
                          /\ tx[p].record \in Records /\ tx[p].record # r
  <2>1. \A p \in Writing' : p \in Writing /\ p \in Operators /\ p # o
    BY <1>6 DEF Writing
  <2>2. QED
    BY <1>1, <1>5, <1>6, <2>1, WriteTypes
<1>8. revs' \in [Records -> Seq(Revision)] /\ revs'[r] = ts /\ \A q \in Records : q # r => revs'[q] = revs[q]
  BY <1>1, <1>2, <1>3 DEF PublisherTyped
<1>9. \A q \in Records : DOMAIN revs[q] \subseteq DOMAIN revs'[q]
  <2>1. revs[r] \in Seq(Revision)
    BY <1>1, <1>2 DEF PublisherTyped
  <2>2. DOMAIN revs[r] \subseteq DOMAIN ts
    BY <1>2, <1>4, <2>1
  <2>3. QED
    BY <1>8, <2>2
<1>10. log \in SUBSET Change /\ log' \in SUBSET Change /\ Distinct(log) /\ Distinct(log')
  <2>1. log \in SUBSET Change /\ log' \in SUBSET Change /\ Distinct(log)
    BY <1>1, <1>2, <1>3 DEF PublisherTyped, PublisherInv, LogInv
  <2>2. Distinct(log')
    BY <1>3, <1>4, <2>1 DEF Distinct
  <2>3. QED
    BY <2>1, <2>2
<1>11. /\ Own(log', r) = Own(log, r) \cup out
       /\ \A q : q # r => Own(log', q) = Own(log, q)
  BY <1>3, <1>4 DEF Own
<1>12. SyncedProjection(log', r) \in 0..MaxSeq
  <2>1. CASE Own(log', r) = {}
    BY <1>10, <2>1, Projected, PublisherAssumption
  <2>2. CASE Own(log', r) # {}
    <3>1. Own(log', r) \in SUBSET Change
      BY <1>10 DEF Own
    <3>2. PICK c \in Own(log', r) : LastOf(Own(log', r), c)
      BY <2>2, <3>1, LastExists
    <3>3. c.seq \in 1..MaxSeq
      BY <3>1, <3>2, ChangeTypes
    <3>4. SyncedProjection(log', r) = IF c.canonical THEN c.seq ELSE 0
      BY <1>10, <3>2, Projected
    <3>5. QED
      BY <3>3, <3>4, PublisherAssumption
  <2>3. QED
    BY <2>1, <2>2
<1>13. PublisherTyped'
  <2>1. projection' \in [Records -> 0..MaxSeq] /\ raced' \in SUBSET Records
    BY <1>1, <1>2, <1>3, <1>12 DEF PublisherTyped
  <2>2. nextSeq' \in 1..(MaxSeq + 1)
    BY <1>1, <1>3 DEF PublisherTyped
  <2>3. QED
    BY <1>6, <1>8, <1>10, <2>1, <2>2 DEF PublisherTyped
<1>14. LogInv'
  <2>1. ASSUME NEW c \in log' PROVE c.seq < nextSeq' /\ c.rev \in DOMAIN revs'[c.record]
    <3>1. CASE c \in out
      BY <1>3, <1>4, <1>8, <3>1
    <3>2. CASE c \in log
      <4>1. c.seq < nextSeq /\ c.rev \in DOMAIN revs[c.record]
        BY <3>2 DEF PublisherInv, LogInv
      <4>2. c.record \in Records
        BY <1>10, <3>2, ChangeTypes
      <4>3. QED
        BY <1>3, <1>9, <4>1, <4>2
    <3>3. QED
      BY <1>3, <2>1, <3>1, <3>2
  <2>2. QED
    BY <1>10, <2>1 DEF LogInv
<1>15. ASSUME NEW p \in Writing' PROVE DraftInv(p)'
  <2>1. DraftInv(p) /\ tx'[p] = tx[p] /\ revs'[tx[p].record] = revs[tx[p].record]
    BY <1>7, <1>8 DEF PublisherInv
  <2>2. \A c \in tx[p].out, d \in out : d.seq # c.seq /\ d.record # tx[p].record
    BY <1>4, <1>5, <1>7
  <2>3. \A c \in tx[p].out : \A d \in log' : d.seq # c.seq /\ (d.record = tx[p].record => d.seq < c.seq)
    BY <1>3, <2>1, <2>2 DEF DraftInv
  <2>4. QED
    BY <1>3, <2>1, <2>3 DEF DraftInv
<1>16. Apart'
  BY <1>7 DEF Apart, PublisherInv
<1>17. RejectInv'
  <2>1. ASSUME NEW p \in Operators, tx'[p].op = "reject"
        PROVE  tx'[p].rev \in DOMAIN revs'[tx'[p].record]
    <3>1. p # o
      BY <1>6, <2>1 DEF NoTx
    <3>2. tx'[p] = tx[p] /\ tx[p].rev \in DOMAIN revs[tx[p].record]
      BY <1>6, <2>1, <3>1 DEF RejectInv, PublisherInv
    <3>3. tx[p].record \in Records
      <4>1. tx[p] \in Rejects
        BY <1>1, <2>1, <3>2, TxTypes
      <4>2. QED
        BY <4>1 DEF Rejects
    <3>4. QED
      BY <1>9, <3>2, <3>3
  <2>2. QED
    BY <2>1 DEF RejectInv
<1>18. ASSUME NEW q \in Records PROVE projection'[q] = SyncedProjection(log', q)
  <2>1. CASE q = r
    BY <1>1, <1>2, <1>3, <2>1 DEF PublisherTyped
  <2>2. CASE q # r
    <3>1. projection'[q] = projection[q] /\ projection[q] = SyncedProjection(log, q)
      BY <1>1, <1>3, <2>2 DEF PublisherTyped, PublisherInv, ProjectionInv
    <3>2. SyncedProjection(log', q) = SyncedProjection(log, q)
      <4>1. Own(log', q) = Own(log, q) /\ Own(log, q) \in SUBSET Change
        BY <1>10, <1>11, <2>2 DEF Own
      <4>2. CASE Own(log, q) = {}
        BY <1>10, <4>1, <4>2, Projected
      <4>3. CASE Own(log, q) # {}
        <5>1. PICK c : LastOf(Own(log, q), c)
          BY <4>1, <4>3, LastExists
        <5>2. SyncedProjection(log, q) = IF c.canonical THEN c.seq ELSE 0
          BY <1>10, <5>1, Projected
        <5>3. SyncedProjection(log', q) = IF c.canonical THEN c.seq ELSE 0
          BY <1>10, <4>1, <5>1, Projected
        <5>4. QED
          BY <5>2, <5>3
      <4>4. QED
        BY <4>2, <4>3
    <3>3. QED
      BY <3>1, <3>2
  <2>3. QED
    BY <2>1, <2>2
<1>19. ASSUME NEW q \in Records \ raced' PROVE Matches(revs'[q], Own(log', q))
  <2>1. Matches(revs[q], Own(log, q))
    BY <1>3, <1>19 DEF PublisherInv, ProjectionInv
  <2>2. CASE q # r
    BY <1>8, <1>11, <2>1, <2>2
  <2>3. CASE q = r /\ out = {}
    <3>1. Own(log', r) = Own(log, r) /\ PublishedIn(ts) = PublishedIn(revs[r])
      BY <1>4, <1>11, <2>3
    <3>2. QED
      BY <1>8, <2>1, <2>3, <3>1 DEF Matches
  <2>4. CASE q = r /\ out # {}
    <3>1. \A c : LastOf(Own(log', r), c) => LastOf(out, c)
      <4> SUFFICES ASSUME NEW c, LastOf(Own(log', r), c) PROVE LastOf(out, c)
        OBVIOUS
      <4>1. c \in Own(log, r) \cup out /\ \A d \in out : d.seq <= c.seq
        BY <1>11 DEF LastOf
      <4>2. c \notin Own(log, r)
        <5> SUFFICES ASSUME c \in Own(log, r) PROVE FALSE
          OBVIOUS
        <5>1. PICK d \in out : TRUE
          BY <2>4
        <5>2. c \in log /\ c.seq < d.seq /\ d.seq <= c.seq
          BY <1>4, <4>1, <5>1 DEF Own
        <5>3. c.seq \in Nat /\ d.seq \in Nat
          BY <1>2, <1>10, <5>1, <5>2, ChangeTypes
        <5>4. QED
          BY <5>2, <5>3
      <4>3. QED
        BY <4>1, <4>2 DEF LastOf
    <3>2. Matches(ts, out) /\ Own(log', r) # {}
      BY <1>4, <1>11, <2>4
    <3>3. \A c : LastOf(Own(log', r), c) =>
             c \in out /\ PublishedIn(ts) = IF c.canonical THEN {c.rev} ELSE {}
      BY <3>1, <3>2 DEF Matches, LastOf
    <3>4. Matches(ts, Own(log', r))
      BY <3>2, <3>3 DEF Matches
    <3>5. QED
      BY <1>8, <2>4, <3>4
  <2>5. QED
    BY <2>2, <2>3, <2>4
<1>20. ProjectionInv'
  BY <1>18, <1>19 DEF ProjectionInv
<1>21. ReleasedByDecision'
  <2>1. \A p \in Writing' : revs'[tx[p].record] = revs[tx[p].record]
    BY <1>7, <1>8
  <2>2. QED
    BY <1>7, <2>1 DEF ReleasedByDecision, PublisherInv
<1>22. \A q \in Records : History(q, revs'[q])
  BY <1>4, <1>8 DEF PublisherInv
<1>23. \A p \in Writing' : DraftInv(p)'
  BY <1>15
<1>24. QED
  BY <1>13, <1>14, <1>16, <1>17, <1>20, <1>21, <1>22, <1>23 DEF PublisherInv

(* The draft a transaction starts from.                                    *)
LEMMA FreshDraft ==
    ASSUME PublisherInv, NEW r \in Records
    PROVE  /\ Sound(r, Draft(r)) /\ Sealed(revs[r]) /\ Draft(r).revs = revs[r]
           /\ Len(revs[r]) \in Nat /\ Len(revs[r]) <= MaxRevisions
           /\ Ordered(r, revs[r]) /\ revs[r] \in Seq(Revision)
           /\ Says(Draft(r), PublishedIn(revs[r]))
<1>1. revs[r] \in Seq(Revision) /\ History(r, revs[r])
  BY DEF PublisherInv, PublisherTyped
<1>2. <<>> \in Seq(Notes(r))
  OBVIOUS
<1>3. Draft(r) \in Drafts(r) /\ Draft(r).revs = revs[r] /\ Draft(r).out = <<>>
  BY <1>1, <1>2, DraftParts DEF Draft
<1>4. QED
  BY <1>1, <1>3 DEF Sound, Says, History

LEMMA ImportInv ==
    ASSUME PublisherInv, NEW o \in Operators, NEW item \in Items, NEW publish \in BOOLEAN,
           Import(o, item, publish)
    PROVE  PublisherInv'
<1> DEFINE r == item.record
           d == ImportItem(Draft(r), item, publish)
           decided == IF publish THEN {Len(revs[r]) + 1} ELSE {}
<1>1. r \in Records
  BY ItemTypes
<1>2. /\ Idle(o) /\ ~Locked(r) /\ Len(revs[r]) < MaxRevisions /\ ~Conflicts(revs[r], item)
      /\ Begin(o, "import", r, d, decided)
  BY DEF Import
<1>3. /\ Sound(r, Draft(r)) /\ Sealed(Draft(r).revs) /\ Draft(r).revs = revs[r]
      /\ Len(revs[r]) \in Nat /\ Says(Draft(r), PublishedIn(revs[r]))
  BY <1>1, FreshDraft
<1>4. /\ Sound(r, d) /\ Sealed(d.revs) /\ Says(d, PublishedIn(revs[r]))
      /\ Len(revs[r]) <= Len(d.revs) /\ Len(d.revs) <= Len(revs[r]) + 1
      /\ \A i \in NewlyPublished(Draft(r), d) :
            \/ i \in decided
            \/ d.revs[i].src.life # "active"
            \/ /\ Len(d.revs) > Len(revs[r])
               /\ d.revs[Len(d.revs)].src.life # "active"
  <2> HIDE DEF r
  <2>1. item.record = r
    BY DEF r
  <2>2. QED
    BY <1>1, <1>2, <1>3, <2>1, Imported
<1>5. Len(d.revs) <= MaxRevisions
  <2>1. Len(d.revs) \in Nat
    BY <1>4 DEF Sound, Drafts
  <2>2. QED
    BY <1>2, <1>3, <1>4, <2>1, PublisherAssumption
<1>6. decided \in SUBSET Nat
  BY <1>3
<1> HIDE DEF r, d, decided
<1>7. QED
  BY <1>1, <1>2, <1>4, <1>5, <1>6, BeginInv

LEMMA PublishInv ==
    ASSUME PublisherInv, NEW o \in Operators, NEW r \in Records, PublishRecord(o, r)
    PROVE  PublisherInv'
<1> DEFINE c == Current(revs[r])
           d == PublishRevision(Draft(r), c)
<1>1. Idle(o) /\ ~Locked(r) /\ c # 0 /\ Begin(o, "publish", r, d, {c})
  BY DEF PublishRecord
<1>2. /\ Sound(r, Draft(r)) /\ Draft(r).revs = revs[r] /\ revs[r] \in Seq(Revision)
      /\ Len(revs[r]) \in Nat /\ Len(revs[r]) <= MaxRevisions /\ Ordered(r, revs[r])
  BY FreshDraft
<1>3. Leads(revs[r], c)
  BY <1>1, <1>2, CurrentOf
<1>4. c \in Nat
  BY <1>2, <1>3, RevisionTypes DEF Leads
<1> HIDE DEF c
<1>5. /\ Sound(r, d) /\ Sealed(d.revs) /\ Says(d, PublishedIn(revs[r]))
      /\ Len(d.revs) = Len(revs[r]) /\ PublishedIn(d.revs) = {c}
  <2>1. /\ Sound(r, d) /\ Sealed(d.revs)
        /\ Len(d.revs) = Len(Draft(r).revs) /\ PublishedIn(d.revs) = {c}
        /\ \A shown : Says(d, shown)
    BY <1>2, <1>3, Released
  <2>2. QED
    BY <1>2, <2>1
<1> HIDE DEF d
<1>6. \A i \in NewlyPublished(Draft(r), d) : i \in {c}
  BY <1>5 DEF NewlyPublished
<1>7. QED
  BY <1>1, <1>2, <1>4, <1>5, <1>6, BeginInv

LEMMA OtherInv ==
    ASSUME PublisherInv, UNCHANGED publisher
    PROVE  PublisherInv'
<1>1. UNCHANGED <<revs, log, projection, tx, nextSeq, raced>>
  BY DEF publisher
<1>2. Writing' = Writing
  BY <1>1 DEF Writing
<1>3. PublisherTyped' /\ LogInv' /\ RejectInv' /\ ProjectionInv'
  BY <1>1 DEF PublisherInv, PublisherTyped, LogInv, RejectInv, ProjectionInv
<1>4. Apart' /\ ReleasedByDecision'
  BY <1>1, <1>2 DEF PublisherInv, Apart, ReleasedByDecision
<1>5. \A o \in Writing' : DraftInv(o)'
  BY <1>1, <1>2 DEF PublisherInv, DraftInv
<1>6. QED
  BY <1>1, <1>3, <1>4, <1>5 DEF PublisherInv

LEMMA PublisherStep ==
    ASSUME PublisherInv, [Next]_vars
    PROVE  PublisherInv'
<1>1. PublisherTyped
  BY DEF PublisherInv
<1>2. ASSUME NEW o \in Operators, NEW item \in Items, NEW publish \in BOOLEAN,
             Import(o, item, publish)
      PROVE  PublisherInv'
  BY <1>2, ImportInv
<1>3. ASSUME NEW o \in Operators, NEW r \in Records, PublishRecord(o, r) PROVE PublisherInv'
  BY <1>3, PublishInv
<1>4. ASSUME NEW o \in Operators, NEW r \in Records, RejectRead(o, r) PROVE PublisherInv'
  <2> DEFINE c == Current(revs[r])
             t == [op |-> "reject", record |-> r, rev |-> c]
  <2>1. c # 0 /\ tx' = [tx EXCEPT ![o] = t] /\ UNCHANGED <<revs, log, projection, nextSeq, raced>>
    BY <1>4 DEF RejectRead
  <2>2. revs[r] \in Seq(Revision) /\ Ordered(r, revs[r])
    BY FreshDraft
  <2>3. c \in DOMAIN revs[r] /\ c \in Nat
    <3>1. Leads(revs[r], c)
      BY <2>1, <2>2, CurrentOf
    <3>2. QED
      BY <2>2, <3>1, RevisionTypes DEF Leads
  <2> HIDE DEF c
  <2>4. t \in Rejects /\ t.rev = c /\ t.record = r
    BY <2>3 DEF Rejects
  <2> HIDE DEF t
  <2>5. QED
    BY <2>1, <2>3, <2>4, EndInv
<1>5. ASSUME NEW o \in Operators, Commit(o) PROVE PublisherInv'
  BY <1>5, CommitInv
<1>6. ASSUME NEW o \in Operators, Abort(o) PROVE PublisherInv'
  <2>1. NoTx.op # "reject" /\ NoTx \in Rejects \cup {NoTx}
    BY DEF NoTx
  <2>2. tx' = [tx EXCEPT ![o] = NoTx] /\ UNCHANGED <<revs, log, projection, nextSeq, raced>>
    BY <1>6 DEF Abort
  <2>3. QED
    BY <2>1, <2>2, EndInv
<1>7. ASSUME NEW o \in Operators, RejectWrite(o) PROVE PublisherInv'
  BY <1>7, RejectWriteInv
<1>8. ASSUME \/ \E e \in Entitlements : UpdateClient(e)
             \/ Tick \/ BeginDelivery \/ NextPage \/ CompleteDelivery \/ FailDelivery
             \/ UNCHANGED vars
      PROVE  PublisherInv'
  <2>1. UNCHANGED publisher
    BY <1>8 DEF UpdateClient, Tick, BeginDelivery, NextPage, CompleteDelivery, FailDelivery, vars
  <2>2. QED
    BY <2>1, OtherInv
<1>9. QED
  BY <1>2, <1>3, <1>4, <1>5, <1>6, <1>7, <1>8 DEF Next

LEMMA PublisherInvHolds == Spec => []PublisherInv
<1>1. Init => PublisherInv
  BY PublisherInit
<1>2. PublisherInv /\ [Next]_vars => PublisherInv'
  BY PublisherStep
<1>3. QED
  BY <1>1, <1>2, PTL DEF Spec

LEMMA ChangeAtIs ==
    ASSUME PublisherInv, NEW c \in log
    PROVE  ChangeAt(c.seq) = c
<1>1. \A d \in log : d.seq = c.seq => d = c
  BY DEF PublisherInv, LogInv, Distinct
<1>2. QED
  BY <1>1 DEF ChangeAt

LEMMA ProjectedRevisions ==
    ASSUME PublisherInv, NEW r \in Records \ raced
    PROVE  PublishedIn(revs[r]) = IF projection[r] = 0 THEN {} ELSE {ChangeAt(projection[r]).rev}
<1>1. /\ log \in SUBSET Change /\ Distinct(log)
      /\ projection[r] = SyncedProjection(log, r) /\ Matches(revs[r], Own(log, r))
  BY DEF PublisherInv, PublisherTyped, LogInv, ProjectionInv
<1>2. CASE Own(log, r) = {}
  BY <1>1, <1>2, Projected DEF Matches
<1>3. CASE Own(log, r) # {}
  <2>1. Own(log, r) \in SUBSET Change /\ Own(log, r) \subseteq log
    BY <1>1 DEF Own
  <2>2. PICK c \in Own(log, r) : LastOf(Own(log, r), c)
    BY <1>3, <2>1, LastExists
  <2>3. projection[r] = IF c.canonical THEN c.seq ELSE 0
    BY <1>1, <2>2, Projected
  <2>4. PublishedIn(revs[r]) = IF c.canonical THEN {c.rev} ELSE {}
    BY <1>1, <2>2 DEF Matches
  <2>5. c.seq # 0 /\ ChangeAt(c.seq) = c
    BY <2>1, <2>2, ChangeTypes, ChangeAtIs
  <2>6. QED
    BY <2>3, <2>4, <2>5
<1>4. QED
  BY <1>2, <1>3

(* The projection a full snapshot is read from names the published         *)
(* revision of every record, and the record has no other: imports, releases*)
(* and withdrawals keep the two tables together (_publish_revision,        *)
(* _withdraw_for_restricted, _sync_current_projection), but for a record   *)
(* one of the two races hit.                                               *)
THEOREM PublishedAlwaysIsProjected == Spec => []PublishedIsProjected
<1>1. PublisherInv => PublishedIsProjected
  <2> SUFFICES ASSUME PublisherInv PROVE PublishedIsProjected
    OBVIOUS
  <2>1. \A r : PublishedRevisions(r) = PublishedIn(revs[r])
    BY DEF PublishedRevisions, PublishedIn
  <2>2. QED
    BY <2>1, ProjectedRevisions DEF PublishedIsProjected
<1>2. QED
  BY <1>1, PublisherInvHolds, PTL

(* A record whose newest revision is TLP:RED is not in the projection      *)
(* (_withdraw_for_restricted), whatever was staged, released, rejected or  *)
(* arrived late before it.                                                 *)
THEOREM RestrictionAlwaysWithdraws == Spec => []RestrictionWithdraws
<1>1. PublisherInv => RestrictionWithdraws
  <2> SUFFICES ASSUME PublisherInv, NEW r \in Records \ raced,
                      Current(revs[r]) # 0, revs[r][Current(revs[r])].status = "restricted"
               PROVE  projection[r] = 0
    BY DEF RestrictionWithdraws
  <2>1. Leads(revs[r], Current(revs[r])) /\ Sealed(revs[r])
    BY FreshDraft, CurrentOf
  <2>2. PublishedIn(revs[r]) = {}
    BY <2>1 DEF Sealed, Leads
  <2>3. QED
    BY <2>2, ProjectedRevisions
<1>2. QED
  BY <1>1, PublisherInvHolds, PTL

(* No active revision is released but by a reviewer, by the release policy *)
(* or with the arrival of a revocation of its record (publish_record,      *)
(* import_revisions and its emergency branch).                             *)
THEOREM AlwaysReleasedByDecision == Spec => []ReleasedByDecision
<1>1. PublisherInv => ReleasedByDecision
  BY DEF PublisherInv
<1>2. QED
  BY <1>1, PublisherInvHolds, PTL

(* A behaviour of the three parts is one of the feed, so what is proved of *)
(* Spec holds of PartsSpec too.                                            *)
LEMMA PartsRunTheFeed == PartsSpec => Spec
<1>1. PartsInit => Init
  BY DEF PartsInit
<1>2. [PartsNext]_allVars => [Next]_vars
  BY DEF PartsNext, allVars
<1>3. QED
  BY <1>1, <1>2, PTL DEF PartsSpec, Spec

-----------------------------------------------------------------------------
(* What the log says of a record over time.  An open write adds changes of *)
(* the leading revision; of the changes of a record the later is of the    *)
(* younger revision; and one that follows a release reaches whoever could  *)
(* read the release, unless the record was raced.                          *)
Written(rs, ts, S) ==
    /\ SameSources(rs, ts)
    /\ \A c \in S : /\ Leads(ts, c.rev) /\ Truthful(ts, c)
                    /\ c.canonical => \A d \in S : d.seq <= c.seq
    /\ \A p : PublishedIn(rs) = {p} =>
          \A d \in S : \E w \in S : w.seq <= d.seq /\ w.tlp <= rs[p].src.tlp
Ageing(rs, S) ==
    \A c \in S : /\ Truthful(rs, c)
                 /\ \A d \in S : c.seq <= d.seq => rs[c.rev].src.time <= rs[d.rev].src.time
Relieved(S) ==
    \A c, d \in S : c.canonical /\ c.seq < d.seq =>
        \E w \in S : c.seq < w.seq /\ w.seq <= d.seq /\ w.tlp <= c.tlp

FeedInv ==
    /\ \A o \in Writing : Written(revs[tx[o].record], tx[o].revs, tx[o].out)
    /\ \A r \in Records : /\ Ageing(revs[r], Own(log, r))
                          /\ r \notin raced => Relieved(Own(log, r))

Numbers(c, out, k) ==
    /\ c.seq = nextSeq + k - 1 /\ c.rev = out[k].rev
    /\ c.canonical = out[k].canonical /\ c.tlp = out[k].tlp
    /\ c.kind = out[k].kind /\ c.life = out[k].life

LEMMA SequencedFields ==
    ASSUME NEW out, nextSeq \in Nat
    PROVE  /\ \A c \in Sequenced(out) : \E k \in DOMAIN out : Numbers(c, out, k)
           /\ \A k \in DOMAIN out : \E c \in Sequenced(out) : Numbers(c, out, k)
<1> DEFINE change(k) == [seq |-> SeqOf(k), record |-> out[k].record, rev |-> out[k].rev,
                         canonical |-> out[k].canonical, tlp |-> out[k].tlp, kind |-> out[k].kind,
                         life |-> out[k].life]
<1>1. Sequenced(out) = {change(k) : k \in DOMAIN out}
  BY DEF Sequenced
<1>2. \A k \in DOMAIN out : Numbers(change(k), out, k)
  BY DEF SeqOf, Numbers
<1> HIDE DEF change
<1>3. QED
  BY <1>1, <1>2

LEMMA WrittenBy ==
    ASSUME NEW r, NEW rs, NEW e \in Drafts(r), Continues(rs, e), nextSeq \in Nat
    PROVE  Written(rs, e.revs, Sequenced(e.out))
<1> DEFINE out == e.out
           S == Sequenced(out)
<1>1. out \in Seq(Notes(r)) /\ DOMAIN out = 1..Len(out) /\ Len(out) \in Nat
  BY DEF Drafts
<1>2. /\ SameSources(rs, e.revs)
      /\ \A k \in DOMAIN out : /\ Leads(e.revs, out[k].rev)
                               /\ Truthful(e.revs, out[k])
                               /\ out[k].canonical => k = Len(out)
      /\ out # <<>> => \A p : PublishedIn(rs) = {p} => out[1].tlp <= rs[p].src.tlp
  BY DEF Continues
<1>3. /\ \A c \in S : \E k \in DOMAIN out : Numbers(c, out, k)
      /\ \A k \in DOMAIN out : \E c \in S : Numbers(c, out, k)
  BY SequencedFields
<1> HIDE DEF out, S
<1>4. ASSUME NEW c \in S
      PROVE  /\ Leads(e.revs, c.rev) /\ Truthful(e.revs, c)
             /\ c.canonical => \A d \in S : d.seq <= c.seq
             /\ nextSeq <= c.seq
  <2>1. PICK k \in DOMAIN out : Numbers(c, out, k)
    BY <1>3
  <2>2. /\ Leads(e.revs, out[k].rev) /\ Truthful(e.revs, out[k])
        /\ out[k].canonical => k = Len(out)
    BY <1>2
  <2>3. Truthful(e.revs, c) /\ c.rev = out[k].rev
    BY <2>1, <2>2 DEF Truthful, Numbers
  <2>4. ASSUME c.canonical, NEW d \in S PROVE d.seq <= c.seq
    <3>1. PICK j \in DOMAIN out : Numbers(d, out, j)
      BY <1>3
    <3>2. k = Len(out) /\ c.seq = nextSeq + k - 1 /\ d.seq = nextSeq + j - 1
      BY <2>1, <2>2, <2>4, <3>1 DEF Numbers
    <3>3. QED
      BY <1>1, <3>2
  <2>5. nextSeq <= c.seq
    BY <1>1, <2>1 DEF Numbers
  <2>6. QED
    BY <2>2, <2>3, <2>4, <2>5
<1>5. ASSUME NEW p, PublishedIn(rs) = {p}, NEW d \in S
      PROVE  \E w \in S : w.seq <= d.seq /\ w.tlp <= rs[p].src.tlp
  <2>1. out # <<>> /\ 1 \in DOMAIN out
    <3>1. PICK k \in DOMAIN out : TRUE
      BY <1>3
    <3>2. QED
      BY <1>1, <3>1
  <2>2. out[1].tlp <= rs[p].src.tlp
    BY <1>2, <1>5, <2>1
  <2>3. PICK w \in S : Numbers(w, out, 1)
    BY <1>3, <2>1
  <2>4. w.seq = nextSeq /\ w.tlp = out[1].tlp
    BY <2>3 DEF Numbers
  <2>5. QED
    BY <1>4, <2>2, <2>4
<1>6. QED
  BY <1>2, <1>4, <1>5 DEF Written, out, S

LEMMA AgeingOn ==
    ASSUME NEW rs, NEW ts, SameSources(rs, ts), NEW S, Ageing(rs, S),
           \A c \in S : c.rev \in DOMAIN rs
    PROVE  Ageing(ts, S)
<1>1. \A c \in S : ts[c.rev].src = rs[c.rev].src
  BY DEF SameSources
<1>2. \A c \in S : Truthful(ts, c)
  BY <1>1 DEF Ageing, Truthful, SameSources
<1>3. QED
  BY <1>1, <1>2 DEF Ageing

LEMMA LogGrows ==
    ASSUME NEW rs \in Seq(Revision), NEW ts \in Seq(Revision), SameSources(rs, ts),
           NEW S \in SUBSET Change, NEW T \in SUBSET Change, Written(rs, ts, T),
           Ageing(rs, S), \A c \in S : c.rev \in DOMAIN rs, \A c \in T, d \in S : d.seq < c.seq
    PROVE  /\ Ageing(ts, S \cup T)
           /\ Matches(rs, S) /\ Relieved(S) => Relieved(S \cup T)
<1>1. \A c \in S \cup T : c.seq \in Nat /\ c.tlp \in Nat
  <2>1. \A c \in S \cup T : c.seq \in Nat
    BY ChangeTypes
  <2>2. \A c \in S \cup T : c.tlp \in 0..RED
    BY DEF Change
  <2>3. QED
    BY <2>1, <2>2
<1>2. Ageing(ts, S)
  BY AgeingOn
<1>3. \A c \in T : c.rev = Current(ts) /\ Leads(ts, Current(ts)) /\ Truthful(ts, c)
  BY CurrentLeads DEF Written
<1>4. \A i \in DOMAIN ts : ts[i].src.time \in Nat
  BY RevisionTypes
<1>5. ASSUME NEW c \in S \cup T, NEW d \in S \cup T, c.seq <= d.seq
      PROVE  ts[c.rev].src.time <= ts[d.rev].src.time
  <2>1. CASE d \in S
    <3>1. c \in S
      BY <1>1, <1>5, <2>1
    <3>2. QED
      BY <1>2, <1>5, <2>1, <3>1 DEF Ageing
  <2>2. CASE d \in T
    <3>1. c.rev \in DOMAIN ts
      BY <1>3 DEF SameSources, Leads
    <3>2. d.rev = Current(ts) /\ Leads(ts, d.rev) /\ d.rev \in DOMAIN ts
      BY <1>3, <2>2 DEF Leads
    <3>3. c.rev # d.rev => ts[c.rev].src.time < ts[d.rev].src.time
      BY <3>1, <3>2 DEF Leads
    <3>4. QED
      BY <1>4, <3>1, <3>2, <3>3
  <2>3. QED
    BY <2>1, <2>2
<1>6. Ageing(ts, S \cup T)
  BY <1>2, <1>3, <1>5 DEF Ageing
<1>7. ASSUME Matches(rs, S), Relieved(S), NEW c \in S \cup T, NEW d \in S \cup T,
             c.canonical, c.seq < d.seq
      PROVE  \E w \in S \cup T : c.seq < w.seq /\ w.seq <= d.seq /\ w.tlp <= c.tlp
  <2>1. c \in S
    <3> SUFFICES ASSUME c \in T PROVE FALSE
      OBVIOUS
    <3>1. CASE d \in S
      BY <1>1, <1>7, <3>1
    <3>2. CASE d \in T
      <4>1. d.seq <= c.seq
        BY <1>7, <3>2 DEF Written
      <4>2. QED
        BY <1>1, <1>7, <4>1
    <3>3. QED
      BY <3>1, <3>2
  <2>2. CASE d \in S
    BY <1>7, <2>1, <2>2 DEF Relieved
  <2>3. CASE d \in T /\ LastOf(S, c)
    <3>1. PublishedIn(rs) = {c.rev}
      BY <1>7, <2>1, <2>3 DEF Matches
    <3>2. PICK w \in T : w.seq <= d.seq /\ w.tlp <= rs[c.rev].src.tlp
      BY <2>3, <3>1 DEF Written
    <3>3. c.tlp = rs[c.rev].src.tlp
      BY <1>7, <2>1 DEF Ageing, Truthful
    <3>4. QED
      BY <2>1, <3>2, <3>3
  <2>4. CASE d \in T /\ ~LastOf(S, c)
    <3>1. PICK x \in S : ~(x.seq <= c.seq)
      BY <2>1, <2>4 DEF LastOf
    <3>2. c.seq < x.seq
      BY <1>1, <2>1, <3>1
    <3>3. PICK w \in S : c.seq < w.seq /\ w.tlp <= c.tlp
      BY <1>7, <2>1, <3>2 DEF Relieved
    <3>4. w.seq < d.seq
      BY <2>4
    <3>5. QED
      BY <1>1, <3>3, <3>4
  <2>5. QED
    BY <2>2, <2>3, <2>4
<1>8. Matches(rs, S) /\ Relieved(S) => Relieved(S \cup T)
  BY <1>7 DEF Relieved
<1>9. QED
  BY <1>6, <1>8

(* No step takes a revision back or changes what its source sent.          *)
LEMMA SourcesKept ==
    ASSUME PublisherInv, FeedInv, [Next]_vars, NEW r \in Records
    PROVE  SameSources(revs[r], revs'[r])
<1>1. revs \in [Records -> Seq(Revision)] /\ PublisherTyped
  BY DEF PublisherInv, PublisherTyped
<1>2. CASE UNCHANGED revs
  BY <1>2 DEF SameSources
<1>3. ASSUME NEW o \in Operators, Commit(o) PROVE SameSources(revs[r], revs'[r])
  <2>1. o \in Writing /\ revs' = [revs EXCEPT ![tx[o].record] = tx[o].revs]
    BY <1>3 DEF Commit
  <2>2. tx[o].record \in Records /\ SameSources(revs[tx[o].record], tx[o].revs)
    BY <1>1, <2>1, WriteTypes DEF FeedInv, Written
  <2>3. QED
    BY <1>1, <2>1, <2>2 DEF SameSources
<1>4. ASSUME NEW o \in Operators, RejectWrite(o) PROVE SameSources(revs[r], revs'[r])
  <2> DEFINE q == tx[o].record
             i == tx[o].rev
  <2>1. tx[o] \in Rejects /\ q \in Records /\ i \in DOMAIN revs[q] /\ "rejected" \in Status
    <3>1. tx[o] \in Rejects
      BY <1>1, <1>4, TxTypes DEF RejectWrite
    <3>2. QED
      BY <1>4, <3>1 DEF Rejects, RejectWrite, PublisherInv, RejectInv, Status
  <2>2. revs' = [revs EXCEPT ![q] = Mark(revs[q], i, "rejected")]
    BY <1>4 DEF RejectWrite
  <2> HIDE DEF q, i
  <2>3. /\ DOMAIN Mark(revs[q], i, "rejected") = DOMAIN revs[q]
        /\ \A j \in DOMAIN revs[q] : Mark(revs[q], i, "rejected")[j].src = revs[q][j].src
    BY <1>1, <2>1, Marked
  <2>4. QED
    BY <1>1, <2>1, <2>2, <2>3 DEF SameSources
<1>5. QED
  BY <1>2, <1>3, <1>4 DEF Next, vars, publisher, Import, PublishRecord, Begin, RejectRead, Abort,
     UpdateClient, Tick, BeginDelivery, NextPage, CompleteDelivery, FailDelivery

LEMMA OwnRevs ==
    ASSUME PublisherInv, NEW r \in Records
    PROVE  /\ Own(log, r) \in SUBSET Change /\ revs[r] \in Seq(Revision)
           /\ \A c \in Own(log, r) : c.rev \in DOMAIN revs[r]
  BY DEF PublisherInv, PublisherTyped, LogInv, Own

LEMMA BeginFeed ==
    ASSUME PublisherInv, FeedInv, NEW o \in Operators, NEW op, NEW r \in Records,
           NEW e \in Drafts(r), Continues(revs[r], e), NEW decided, Begin(o, op, r, e, decided)
    PROVE  FeedInv'
<1> DEFINE t == [op |-> op, record |-> r, revs |-> e.revs, out |-> Sequenced(e.out),
                 decided |-> decided]
<1>1. PublisherTyped /\ tx \in [Operators -> Transactions] /\ nextSeq \in Nat
  BY SeqIsNat DEF PublisherInv, PublisherTyped
<1>2. tx' = [tx EXCEPT ![o] = t] /\ UNCHANGED <<revs, log, raced>>
  BY DEF Begin
<1>3. Written(revs[r], e.revs, Sequenced(e.out))
  BY <1>1, WrittenBy
<1>4. t.record = r /\ t.revs = e.revs /\ t.out = Sequenced(e.out)
  OBVIOUS
<1> HIDE DEF t
<1>5. tx'[o] = t /\ \A p \in Operators : p # o => tx'[p] = tx[p]
  BY <1>1, <1>2
<1>6. \A p \in Writing' : p = o \/ (p \in Writing /\ tx'[p] = tx[p])
  BY <1>5 DEF Writing
<1>7. ASSUME NEW p \in Writing' PROVE Written(revs[tx'[p].record], tx'[p].revs, tx'[p].out)
  BY <1>3, <1>4, <1>5, <1>6 DEF FeedInv
<1>8. QED
  BY <1>2, <1>7 DEF FeedInv

LEMMA CommitFeed ==
    ASSUME PublisherInv, FeedInv, NEW o \in Operators, Commit(o)
    PROVE  FeedInv'
<1> DEFINE r == tx[o].record
           out == tx[o].out
           ts == tx[o].revs
<1>1. PublisherTyped /\ o \in Writing /\ revs \in [Records -> Seq(Revision)]
  BY DEF PublisherInv, Commit, PublisherTyped
<1>2. r \in Records /\ ts \in Seq(Revision) /\ out \in SUBSET Change
  BY <1>1, WriteTypes
<1>3. /\ revs' = [revs EXCEPT ![r] = ts] /\ log' = log \cup out
      /\ raced \subseteq raced' /\ tx' = [tx EXCEPT ![o] = NoTx]
  BY DEF Commit
<1>4. /\ \A c \in out : /\ c.record = r
                        /\ \A d \in log : d.record = r => d.seq < c.seq
      /\ Written(revs[r], ts, out)
  BY <1>1 DEF PublisherInv, DraftInv, FeedInv
<1>5. \A p \in Writing : p # o => tx[p].record # r
  BY <1>1 DEF PublisherInv, Apart
<1> HIDE DEF r, out, ts
<1>6. /\ tx'[o] = NoTx /\ \A p \in Operators : p # o => tx'[p] = tx[p]
      /\ Writing' = Writing \ {o}
  BY <1>1, <1>3, Closed
<1>7. revs'[r] = ts /\ \A q \in Records : q # r => revs'[q] = revs[q]
  BY <1>1, <1>2, <1>3
<1>8. /\ Own(log', r) = Own(log, r) \cup out
      /\ \A q : q # r => Own(log', q) = Own(log, q)
  BY <1>3, <1>4 DEF Own
<1>9. ASSUME NEW p \in Writing' PROVE Written(revs'[tx'[p].record], tx'[p].revs, tx'[p].out)
  <2>1. p \in Writing /\ p \in Operators /\ p # o
    BY <1>6 DEF Writing
  <2>2. tx[p].record \in Records /\ tx[p].record # r /\ tx'[p] = tx[p]
    BY <1>1, <1>5, <1>6, <2>1, WriteTypes
  <2>3. QED
    BY <1>7, <2>1, <2>2 DEF FeedInv
<1>10. /\ Ageing(ts, Own(log', r))
       /\ r \notin raced' => Relieved(Own(log', r))
  <2>1. /\ Own(log, r) \in SUBSET Change /\ revs[r] \in Seq(Revision)
        /\ \A c \in Own(log, r) : c.rev \in DOMAIN revs[r]
    BY <1>2, OwnRevs
  <2>2. SameSources(revs[r], ts)
    BY <1>4 DEF Written
  <2>3. /\ Ageing(revs[r], Own(log, r))
        /\ r \notin raced => Relieved(Own(log, r))
        /\ r \notin raced => Matches(revs[r], Own(log, r))
    BY <1>2 DEF FeedInv, PublisherInv, ProjectionInv
  <2>4. \A c \in out, d \in Own(log, r) : d.seq < c.seq
    BY <1>4 DEF Own
  <2>5. /\ Ageing(ts, Own(log, r) \cup out)
        /\ Matches(revs[r], Own(log, r)) /\ Relieved(Own(log, r)) => Relieved(Own(log, r) \cup out)
    <3> HIDE DEF Own
    <3>1. Ageing(revs[r], Own(log, r))
      BY <2>3
    <3>2. QED
      BY <1>2, <1>4, <2>1, <2>2, <2>4, <3>1, LogGrows
  <2>6. QED
    BY <1>3, <1>8, <2>3, <2>5
<1>11. ASSUME NEW q \in Records
       PROVE  Ageing(revs'[q], Own(log', q)) /\ (q \notin raced' => Relieved(Own(log', q)))
  <2>1. CASE q = r
    BY <1>7, <1>10, <2>1
  <2>2. CASE q # r
    BY <1>3, <1>7, <1>8, <2>2 DEF FeedInv
  <2>3. QED
    BY <2>1, <2>2
<1>12. QED
  BY <1>9, <1>11 DEF FeedInv

(* A step that begins no write and commits none.                           *)
LEMMA EndFeed ==
    ASSUME PublisherInv, FeedInv, log' = log, raced \subseteq raced',
           \A r \in Records : SameSources(revs[r], revs'[r]),
           \A o \in Writing' : /\ o \in Writing /\ tx'[o] = tx[o]
                               /\ revs'[tx[o].record] = revs[tx[o].record]
    PROVE  FeedInv'
<1>1. ASSUME NEW r \in Records
      PROVE  Ageing(revs'[r], Own(log', r)) /\ (r \notin raced' => Relieved(Own(log', r)))
  <2>1. /\ Ageing(revs[r], Own(log, r))
        /\ r \notin raced => Relieved(Own(log, r))
    BY DEF FeedInv
  <2>2. Ageing(revs'[r], Own(log, r))
    BY <2>1, OwnRevs, AgeingOn
  <2>3. QED
    BY <2>1, <2>2
<1>2. \A o \in Writing' : Written(revs'[tx'[o].record], tx'[o].revs, tx'[o].out)
  BY DEF FeedInv
<1>3. QED
  BY <1>1, <1>2 DEF FeedInv

LEMMA FeedStep ==
    ASSUME PublisherInv, FeedInv, [Next]_vars
    PROVE  FeedInv'
<1>1. PublisherTyped /\ \A r \in Records : SameSources(revs[r], revs'[r])
  BY SourcesKept DEF PublisherInv
<1>2. ASSUME NEW o \in Operators, NEW item \in Items, NEW publish \in BOOLEAN,
             Import(o, item, publish)
      PROVE  FeedInv'
  <2> DEFINE r == item.record
             d == ImportItem(Draft(r), item, publish)
             decided == IF publish THEN {Len(revs[r]) + 1} ELSE {}
  <2>1. r \in Records
    BY ItemTypes
  <2>2. ~Conflicts(revs[r], item) /\ Begin(o, "import", r, d, decided)
    BY <1>2 DEF Import
  <2>3. /\ Sound(r, Draft(r)) /\ Sealed(Draft(r).revs) /\ Draft(r).revs = revs[r]
        /\ Says(Draft(r), PublishedIn(revs[r])) /\ Draft(r).out = <<>>
    BY <2>1, FreshDraft DEF Draft
  <2>4. Sound(r, d) /\ Continues(revs[r], d)
    <3> HIDE DEF r
    <3>1. item.record = r
      BY DEF r
    <3>2. QED
      BY <2>1, <2>2, <2>3, <3>1, Imported
  <2> HIDE DEF r, d, decided
  <2>5. QED
    BY <2>1, <2>2, <2>4, BeginFeed DEF Sound
<1>3. ASSUME NEW o \in Operators, NEW r \in Records, PublishRecord(o, r) PROVE FeedInv'
  <2> DEFINE c == Current(revs[r])
             d == PublishRevision(Draft(r), c)
  <2>1. c # 0 /\ revs[r][c].status = "staged" /\ Begin(o, "publish", r, d, {c})
    BY <1>3 DEF PublishRecord
  <2>2. /\ Sound(r, Draft(r)) /\ Draft(r).revs = revs[r] /\ Ordered(r, revs[r])
        /\ Draft(r).out = <<>>
    BY FreshDraft DEF Draft
  <2>3. Leads(revs[r], c)
    BY <2>1, <2>2, CurrentOf
  <2> HIDE DEF c
  <2>4. Sound(r, d) /\ Continues(revs[r], d)
    <3>1. Sound(r, d)
      BY <2>2, <2>3, Released
    <3>2. Continues(revs[r], d)
      BY <2>1, <2>2, <2>3, ReleasedNotes
    <3>3. QED
      BY <3>1, <3>2
  <2> HIDE DEF d
  <2>5. QED
    BY <2>1, <2>4, BeginFeed DEF Sound
<1>4. ASSUME NEW o \in Operators, NEW r \in Records, RejectRead(o, r) PROVE FeedInv'
  <2> DEFINE t == [op |-> "reject", record |-> r, rev |-> Current(revs[r])]
  <2>1. tx' = [tx EXCEPT ![o] = t] /\ UNCHANGED <<revs, log, raced>>
    BY <1>4 DEF RejectRead
  <2>2. t.op = "reject"
    OBVIOUS
  <2> HIDE DEF t
  <2>3. \A p \in Writing' : p \in Writing /\ tx'[p] = tx[p]
    BY <1>1, <2>1, <2>2 DEF PublisherTyped, Writing
  <2>4. QED
    BY <1>1, <2>1, <2>3, EndFeed
<1>5. ASSUME NEW o \in Operators, Commit(o) PROVE FeedInv'
  BY <1>5, CommitFeed
<1>6. ASSUME NEW o \in Operators, Abort(o) PROVE FeedInv'
  <2>1. tx' = [tx EXCEPT ![o] = NoTx] /\ UNCHANGED <<revs, log, raced>>
    BY <1>6 DEF Abort
  <2>2. NoTx \in Rejects \cup {NoTx}
    OBVIOUS
  <2>3. \A p \in Writing' : p \in Writing /\ tx'[p] = tx[p]
    BY <1>1, <2>1, <2>2, Closed DEF Writing
  <2>4. QED
    BY <1>1, <2>1, <2>3, EndFeed
<1>7. ASSUME NEW o \in Operators, RejectWrite(o) PROVE FeedInv'
  <2> DEFINE q == tx[o].record
             ts == Mark(revs[q], tx[o].rev, "rejected")
  <2>1. /\ tx' = [tx EXCEPT ![o] = NoTx] /\ log' = log /\ raced \subseteq raced'
        /\ ~Locked(q) /\ revs' = [revs EXCEPT ![q] = ts]
    BY <1>7 DEF RejectWrite
  <2> HIDE DEF q, ts
  <2>2. NoTx \in Rejects \cup {NoTx}
    OBVIOUS
  <2>3. \A p \in Writing' : p \in Writing /\ tx'[p] = tx[p]
    BY <1>1, <2>1, <2>2, Closed DEF Writing
  <2>4. \A p \in Writing : tx[p].record \in Records /\ tx[p].record # q
    BY <1>1, <2>1, WriteTypes DEF Locked
  <2>5. \A p \in Writing : revs'[tx[p].record] = revs[tx[p].record]
    BY <1>1, <2>1, <2>4 DEF PublisherTyped
  <2>6. QED
    BY <1>1, <2>1, <2>3, <2>5, EndFeed
<1>8. ASSUME UNCHANGED <<revs, log, raced, tx>> PROVE FeedInv'
  <2>1. \A p \in Writing' : p \in Writing /\ tx'[p] = tx[p]
    BY <1>8 DEF Writing
  <2>2. QED
    BY <1>1, <1>8, <2>1, EndFeed
<1>9. ASSUME \/ \E e \in Entitlements : UpdateClient(e)
             \/ Tick \/ BeginDelivery \/ NextPage \/ CompleteDelivery \/ FailDelivery
             \/ UNCHANGED vars
      PROVE  FeedInv'
  <2>1. UNCHANGED publisher
    BY <1>9 DEF UpdateClient, Tick, BeginDelivery, NextPage, CompleteDelivery, FailDelivery, vars
  <2>2. QED
    BY <1>8, <2>1 DEF publisher
<1>10. QED
  BY <1>2, <1>3, <1>4, <1>5, <1>6, <1>7, <1>9 DEF Next

LEMMA FeedInit == Init => FeedInv
<1> SUFFICES ASSUME Init PROVE FeedInv
  OBVIOUS
<1>1. Writing = {}
  BY DEF Init, Writing, NoTx
<1>2. \A r : Own(log, r) = {}
  BY DEF Init, Own
<1>3. \A rs : Ageing(rs, {}) /\ Relieved({})
  BY DEF Ageing, Relieved
<1>4. QED
  BY <1>1, <1>2, <1>3 DEF FeedInv

-----------------------------------------------------------------------------
(* What a customer with a boundary holds of a record: S are the changes of *)
(* the record, rs its revisions, s the boundary.  The upheld change is the *)
(* last one below the boundary, if the customer may read it and it does    *)
(* not withdraw.                                                           *)
Holdings == [seq : Nat, at : Nat]
Upheld(S, s, may, l) ==
    /\ l \in S /\ l.seq <= s /\ l.canonical /\ Entitled(may, l)
    /\ \A d \in S : d.seq <= s => d.seq <= l.seq
Beyond(S, s) == \E c \in S : c.seq > s
Readable(S, p, c) == c \in S /\ c.seq > p.from /\ c.seq <= p.snap /\ Entitled(p.scope.may, c)
Latest(S, p, c) ==
    /\ Readable(S, p, c)
    /\ \A d \in S : Readable(S, p, d) => d.seq <= c.seq

(* What is held was delivered below the boundary, with the time it had at  *)
(* its source.                                                             *)
Backed(S, rs, m, s) ==
    /\ m.at = 0 => m.seq = 0
    /\ m.seq # 0 => \E c \in S : c.seq = m.seq /\ c.seq <= s /\ m.at = rs[c.rev].src.time
Reflected(S, rs, m, s, may) ==
    /\ \A l : Upheld(S, s, may, l) =>
          \/ m.seq = l.seq
          \/ m.seq = 0 /\ (m.at > rs[l.rev].src.time \/ Beyond(S, s))
    /\ \/ \E l : Upheld(S, s, may, l)
       \/ \A c \in S : c.seq = m.seq => c.life # "active"
Taken(rs, m, c) ==
    IF rs[c.rev].src.time < m.at THEN m ELSE [seq |-> c.seq, at |-> rs[c.rev].src.time]

Recorded(rs, S) ==
    /\ rs \in Seq(Revision) /\ S \in SUBSET Change /\ Distinct(S)
    /\ Ageing(rs, S) /\ \A c \in S : c.rev \in DOMAIN rs

LEMMA RecordedTypes ==
    ASSUME NEW rs, NEW S, Recorded(rs, S), NEW c \in S
    PROVE  /\ c.seq \in Nat /\ c.seq >= 1 /\ c.seq # 0 /\ c.tlp \in Nat /\ c.tlp <= RED /\ RED \in Nat
           /\ rs[c.rev].src.time \in Nat /\ rs[c.rev].src.time >= 1
<1>1. c \in Change /\ rs \in Seq(Revision) /\ c.rev \in DOMAIN rs /\ S \in SUBSET Change
  BY DEF Recorded
<1>2. c.tlp \in 0..RED /\ RED \in Nat
  BY <1>1, PublisherAssumption DEF Change
<1>3. rs[c.rev].src \in Items
  BY <1>1, RevisionTypes
<1>4. rs[c.rev].src.time \in 1..MaxTime /\ MaxTime \in Nat
  BY <1>3, ItemTypes, PublisherAssumption
<1>5. c.seq \in Nat /\ c.seq >= 1
  BY <1>1, ChangeTypes
<1>6. QED
  BY <1>2, <1>4, <1>5

LEMMA UpheldOnce ==
    ASSUME NEW rs, NEW S, Recorded(rs, S), NEW s, NEW may, NEW l, NEW k,
           Upheld(S, s, may, l), Upheld(S, s, may, k)
    PROVE  l = k
<1>1. l \in S /\ k \in S /\ l.seq <= k.seq /\ k.seq <= l.seq
  BY DEF Upheld
<1>2. l.seq = k.seq
  BY <1>1, RecordedTypes
<1>3. QED
  BY <1>1, <1>2 DEF Recorded, Distinct

(* Taking a change that is later than all that could be held keeps a newer *)
(* burial and nothing else.                                                *)
LEMMA TakenLater ==
    ASSUME NEW rs, NEW S, Recorded(rs, S), NEW m \in Holdings, NEW t \in Nat, Backed(S, rs, m, t),
           NEW s \in Nat, t <= s, NEW c \in S, c.seq <= s,
           NEW n, n = Taken(rs, m, c)
    PROVE  /\ n \in Holdings /\ Backed(S, rs, n, s)
           /\ (\A d \in S : d.seq <= t => d.seq <= c.seq) =>
                 \/ n.seq = c.seq
                 \/ n.seq = 0 /\ n.at > rs[c.rev].src.time
<1>1. c.seq \in Nat /\ rs[c.rev].src.time \in Nat /\ rs[c.rev].src.time >= 1
  BY RecordedTypes
<1>2. m.seq \in Nat /\ m.at \in Nat
  BY DEF Holdings
<1>3. CASE rs[c.rev].src.time < m.at
  <2>1. n = m
    BY <1>3 DEF Taken
  <2>2. Backed(S, rs, n, s)
    <3>1. \A d \in S : d.seq <= t => d.seq <= s
      BY RecordedTypes
    <3>2. QED
      BY <2>1, <3>1 DEF Backed
  <2>3. ASSUME \A d \in S : d.seq <= t => d.seq <= c.seq, m.seq # 0 PROVE FALSE
    <3>1. PICK d \in S : d.seq = m.seq /\ d.seq <= t /\ m.at = rs[d.rev].src.time
      BY <2>3 DEF Backed
    <3>2. d.seq <= c.seq
      BY <2>3, <3>1
    <3>3. rs[d.rev].src.time <= rs[c.rev].src.time
      BY <3>2 DEF Recorded, Ageing
    <3>4. QED
      BY <1>1, <1>2, <1>3, <3>1, <3>3
  <2>4. QED
    BY <1>3, <2>1, <2>2, <2>3
<1>4. CASE ~(rs[c.rev].src.time < m.at)
  <2>1. n = [seq |-> c.seq, at |-> rs[c.rev].src.time]
    BY <1>4 DEF Taken
  <2>2. n \in Holdings /\ n.seq = c.seq /\ n.at = rs[c.rev].src.time
    BY <1>1, <2>1 DEF Holdings
  <2>3. Backed(S, rs, n, s)
    BY <1>1, <2>2 DEF Backed
  <2>4. QED
    BY <2>2, <2>3
<1>5. QED
  BY <1>3, <1>4

(* A full snapshot: C is what it brought of the record.                    *)
LEMMA FullDelivered ==
    ASSUME NEW rs, NEW S, Recorded(rs, S), NEW m \in Holdings, NEW t \in Nat, Backed(S, rs, m, t),
           NEW s \in Nat, t <= s, NEW may, NEW C \in SUBSET S,
           \A c \in C : Upheld(S, s, may, c),
           \A l : Upheld(S, s, may, l) => l \in C \/ Beyond(S, s),
           NEW n, C = {} => n.seq = 0, C # {} => n = Taken(rs, m, CHOOSE c \in C : TRUE)
    PROVE  Reflected(S, rs, n, s, may)
<1>1. CASE C = {}
  <2>1. \A c \in S : c.seq # n.seq
    BY <1>1, RecordedTypes
  <2>2. QED
    BY <1>1, <2>1 DEF Reflected
<1>2. CASE C # {}
  <2> DEFINE c == CHOOSE c \in C : TRUE
  <2>1. c \in C /\ n = Taken(rs, m, c)
    BY <1>2
  <2> HIDE DEF c
  <2>2. Upheld(S, s, may, c) /\ c \in S
    BY <2>1
  <2>3. \A d \in S : d.seq <= t => d.seq <= c.seq
    <3>1. \A d \in S : d.seq <= t => d.seq <= s
      BY RecordedTypes
    <3>2. QED
      BY <2>2, <3>1 DEF Upheld
  <2>4. n.seq = c.seq \/ (n.seq = 0 /\ n.at > rs[c.rev].src.time)
    BY <2>1, <2>2, <2>3, TakenLater DEF Upheld
  <2>5. \A l : Upheld(S, s, may, l) => l = c
    BY <2>2, UpheldOnce
  <2>6. QED
    BY <2>2, <2>4, <2>5 DEF Reflected
<1>3. QED
  BY <1>1, <1>2

(* After a release that the customer could read, whatever follows in the   *)
(* log begins with a change that it can read.                              *)
LEMMA ReliefIsReadable ==
    ASSUME NEW rs, NEW S, Recorded(rs, S), Relieved(S),
           \A i, j \in DOMAIN rs : rs[i].src.kind = rs[j].src.kind,
           NEW may, may.maxTlp \in Nat, NEW l \in S, l.canonical, Entitled(may, l),
           NEW d \in S, l.seq < d.seq
    PROVE  \E w \in S : l.seq < w.seq /\ w.seq <= d.seq /\ Entitled(may, w)
<1>1. PICK w \in S : l.seq < w.seq /\ w.seq <= d.seq /\ w.tlp <= l.tlp
  BY DEF Relieved
<1>2. w.kind = l.kind
  BY DEF Recorded, Ageing, Truthful
<1>3. l.tlp <= may.maxTlp /\ l.tlp # RED /\ l.kind \in may.kinds
  BY DEF Entitled
<1>4. w.tlp <= may.maxTlp /\ w.tlp # RED
  BY <1>1, <1>3, RecordedTypes
<1>5. QED
  BY <1>1, <1>2, <1>3, <1>4 DEF Entitled

LEMMA LatestExists ==
    ASSUME NEW rs, NEW S, Recorded(rs, S), NEW p, NEW c, Readable(S, p, c)
    PROVE  \E d \in S : Latest(S, p, d)
<1> DEFINE R == {x \in S : Readable(S, p, x)}
<1>1. R \in SUBSET Change /\ R # {}
  BY DEF Recorded, Readable
<1>2. PICK d \in R : LastOf(R, d)
  <2> HIDE DEF R
  <2>1. QED
    BY <1>1, LastExists
<1>3. QED
  BY <1>2 DEF LastOf, Latest

(* A delta: C is what it brought of the record.                            *)
LEMMA DeltaDelivered ==
    ASSUME NEW rs, NEW S, Recorded(rs, S), Relieved(S),
           \A i, j \in DOMAIN rs : rs[i].src.kind = rs[j].src.kind,
           NEW p, p.from \in Nat, p.snap \in Nat, p.from <= p.snap, p.scope.may.maxTlp \in Nat,
           NEW m \in Holdings, Backed(S, rs, m, p.from), Reflected(S, rs, m, p.from, p.scope.may),
           NEW C \in SUBSET S, \A c \in S : c \in C <=> Latest(S, p, c),
           NEW n, C = {} => n = m, C # {} => n = Taken(rs, m, CHOOSE c \in C : TRUE)
    PROVE  Reflected(S, rs, n, p.snap, p.scope.may)
<1> DEFINE may == p.scope.may
           s == p.snap
           t == p.from
<1>1. /\ t \in Nat /\ s \in Nat /\ t <= s /\ may.maxTlp \in Nat
      /\ Backed(S, rs, m, t) /\ Reflected(S, rs, m, t, may)
  OBVIOUS
<1>2. \A c : Readable(S, p, c) <=> c \in S /\ c.seq > t /\ c.seq <= s /\ Entitled(may, c)
  BY DEF Readable
<1>3. \A c \in S : Latest(S, p, c) => /\ Readable(S, p, c)
                                      /\ \A d \in S : Readable(S, p, d) => d.seq <= c.seq
  BY DEF Latest
<1> HIDE DEF may, s, t
<1>4. CASE C = {}
  <2>1. \A c : ~Readable(S, p, c)
    BY <1>4, LatestExists
  <2>2. n = m
    BY <1>4
  <2>3. ASSUME NEW l, Upheld(S, s, may, l)
        PROVE  \/ n.seq = l.seq
               \/ n.seq = 0 /\ (n.at > rs[l.rev].src.time \/ Beyond(S, s))
    <3>1. /\ l \in S /\ l.seq <= s /\ l.canonical /\ Entitled(may, l)
          /\ \A d \in S : d.seq <= s => d.seq <= l.seq
      BY <2>3 DEF Upheld
    <3>2. l.seq <= t
      BY <1>1, <1>2, <2>1, <3>1, RecordedTypes
    <3>3. Upheld(S, t, may, l)
      <4>1. \A d \in S : d.seq <= t => d.seq <= s
        BY <1>1, RecordedTypes
      <4>2. QED
        BY <3>1, <3>2, <4>1 DEF Upheld
    <3>4. Beyond(S, t) => Beyond(S, s)
      <4> SUFFICES ASSUME NEW c \in S, c.seq > t PROVE c.seq > s
        BY DEF Beyond
      <4>1. QED
        BY <1>1, <3>1, <3>2, RecordedTypes
    <3>5. QED
      BY <1>1, <2>2, <3>3, <3>4 DEF Reflected
  <2>4. ASSUME ~\E l : Upheld(S, s, may, l), NEW c \in S, c.seq = n.seq, c.life = "active"
        PROVE  FALSE
    <3>1. PICK l : Upheld(S, t, may, l)
      BY <1>1, <2>2, <2>4 DEF Reflected
    <3>2. /\ l \in S /\ l.seq <= t /\ l.canonical /\ Entitled(may, l)
          /\ \A d \in S : d.seq <= t => d.seq <= l.seq
      BY <3>1 DEF Upheld
    <3>3. PICK d \in S : d.seq <= s /\ ~(d.seq <= l.seq)
      <4>1. l.seq <= s
        BY <1>1, <3>2, RecordedTypes
      <4>2. QED
        BY <2>4, <3>2, <4>1 DEF Upheld
    <3>4. PICK w \in S : l.seq < w.seq /\ w.seq <= d.seq /\ Entitled(may, w)
      <4>1. l.seq < d.seq
        BY <3>2, <3>3, RecordedTypes
      <4>2. QED
        BY <1>1, <3>2, <4>1, ReliefIsReadable
    <3>5. w.seq > t /\ w.seq <= s
      BY <1>1, <3>2, <3>3, <3>4, RecordedTypes
    <3>6. QED
      BY <1>2, <2>1, <3>4, <3>5
  <2>5. QED
    BY <2>3, <2>4 DEF Reflected, s, may
<1>5. CASE C # {}
  <2> DEFINE x == CHOOSE c \in C : TRUE
  <2>1. x \in C /\ n = Taken(rs, m, x)
    BY <1>5
  <2> HIDE DEF x
  <2>2. x \in S /\ x.seq > t /\ x.seq <= s /\ Entitled(may, x)
    BY <1>2, <1>3, <2>1
  <2>3. \A d \in S : d.seq > t /\ d.seq <= s /\ Entitled(may, d) => d.seq <= x.seq
    BY <1>2, <1>3, <2>1
  <2>4. n.seq = x.seq \/ (n.seq = 0 /\ n.at > rs[x.rev].src.time)
    <3>1. \A d \in S : d.seq <= t => d.seq <= x.seq
      BY <1>1, <2>2, RecordedTypes
    <3>2. QED
      BY <1>1, <2>1, <2>2, <3>1, TakenLater
  <2>5. ASSUME NEW l, Upheld(S, s, may, l) PROVE l = x
    <3>1. /\ l \in S /\ l.seq <= s /\ Entitled(may, l) /\ x.seq <= l.seq
      BY <2>2, <2>5 DEF Upheld
    <3>2. l.seq > t
      BY <1>1, <2>2, <3>1, RecordedTypes
    <3>3. l.seq <= x.seq
      BY <2>3, <3>1, <3>2
    <3>4. l.seq = x.seq
      BY <2>2, <3>1, <3>3, RecordedTypes
    <3>5. QED
      BY <2>2, <3>1, <3>4 DEF Recorded, Distinct
  <2>6. ASSUME ~\E l : Upheld(S, s, may, l), NEW c \in S, c.seq = n.seq, c.life = "active"
        PROVE  FALSE
    <3>1. c.seq = x.seq
      BY <2>4, <2>6, RecordedTypes
    <3>2. c = x
      BY <2>2, <3>1 DEF Recorded, Distinct
    <3>3. x.canonical
      BY <2>2, <2>6, <3>2 DEF Recorded, Ageing, Truthful
    <3>4. PICK d \in S : d.seq <= s /\ ~(d.seq <= x.seq)
      BY <2>2, <2>6, <3>3 DEF Upheld
    <3>5. x.seq < d.seq
      BY <2>2, <3>4, RecordedTypes
    <3>6. PICK w \in S : x.seq < w.seq /\ w.seq <= d.seq /\ Entitled(may, w)
      BY <1>1, <2>2, <3>3, <3>5, ReliefIsReadable
    <3>7. w.seq > t /\ w.seq <= s
      BY <1>1, <2>2, <3>4, <3>6, RecordedTypes
    <3>8. w.seq <= x.seq
      BY <2>3, <3>6, <3>7
    <3>9. QED
      BY <2>2, <3>6, <3>8, RecordedTypes
  <2>7. QED
    BY <2>4, <2>5, <2>6 DEF Reflected, s, may
<1>6. QED
  BY <1>4, <1>5

LEMMA BackedGrows ==
    ASSUME NEW rs, NEW S, NEW ts, NEW T, SameSources(rs, ts), S \subseteq T,
           \A c \in S : c.rev \in DOMAIN rs, NEW m, NEW s, Backed(S, rs, m, s)
    PROVE  Backed(T, ts, m, s)
<1>1. \A c \in S : ts[c.rev].src.time = rs[c.rev].src.time
  BY DEF SameSources
<1>2. QED
  BY <1>1 DEF Backed

(* Changes that commit above the boundary.                                 *)
LEMMA GrowsAbove ==
    ASSUME NEW rs, NEW S, Recorded(rs, S), NEW ts, NEW T, Recorded(ts, T), SameSources(rs, ts),
           S \subseteq T, NEW s \in Nat, \A c \in T \ S : c.seq > s
    PROVE  /\ \A may, l : Upheld(T, s, may, l) <=> Upheld(S, s, may, l)
           /\ Beyond(S, s) => Beyond(T, s)
           /\ \A p, c : p.snap = s => (Latest(T, p, c) <=> Latest(S, p, c))
           /\ \A m \in Holdings : \A may : Backed(S, rs, m, s) /\ Reflected(S, rs, m, s, may)
                 => Reflected(T, ts, m, s, may)
<1>1. \A c \in T : c.seq <= s => c \in S
  BY RecordedTypes
<1>2. \A c \in S : ts[c.rev].src.time = rs[c.rev].src.time
  BY DEF Recorded, SameSources
<1>3. \A may, l : Upheld(T, s, may, l) <=> Upheld(S, s, may, l)
  BY <1>1 DEF Upheld
<1>4. Beyond(S, s) => Beyond(T, s)
  BY DEF Beyond
<1>5. ASSUME NEW p, p.snap = s, NEW c PROVE Latest(T, p, c) <=> Latest(S, p, c)
  <2>1. \A d : Readable(T, p, d) <=> Readable(S, p, d)
    BY <1>1, <1>5 DEF Readable
  <2>2. QED
    BY <1>1, <2>1 DEF Latest, Readable
<1>6. ASSUME NEW m \in Holdings, NEW may, Backed(S, rs, m, s), Reflected(S, rs, m, s, may)
      PROVE  Reflected(T, ts, m, s, may)
  <2>1. \A l : Upheld(T, s, may, l) =>
           \/ m.seq = l.seq
           \/ m.seq = 0 /\ (m.at > ts[l.rev].src.time \/ Beyond(T, s))
    BY <1>2, <1>3, <1>4, <1>6 DEF Reflected, Upheld
  <2>2. ASSUME NEW c \in T, c.seq = m.seq PROVE c \in S
    <3>1. m.seq # 0
      BY <2>2, RecordedTypes
    <3>2. c.seq <= s
      BY <1>6, <2>2, <3>1 DEF Backed
    <3>3. QED
      BY <1>1, <3>2
  <2>3. QED
    BY <1>3, <1>6, <2>1, <2>2 DEF Reflected
<1>7. QED
  BY <1>3, <1>4, <1>5, <1>6

-----------------------------------------------------------------------------
(* Pages.                                                                  *)

LEMMA ChangesAreFinite ==
    ASSUME NEW L \in SUBSET Change, Distinct(L)
    PROVE  IsFiniteSet(L)
<1> DEFINE f == [c \in L |-> c.seq]
<1>1. MaxSeq \in Nat /\ IsFiniteSet(1..MaxSeq)
  <2>1. MaxSeq \in Nat
    BY PublisherAssumption
  <2>2. QED
    BY <2>1, FS_Interval
<1>2. f \in Injection(L, 1..MaxSeq)
  <2>1. \A c \in L : c.seq \in 1..MaxSeq
    BY ChangeTypes
  <2>2. f \in [L -> 1..MaxSeq]
    BY <2>1
  <2>3. \A c, d \in L : f[c] = f[d] => c = d
    BY DEF Distinct
  <2>4. QED
    BY <2>2, <2>3 DEF Injection, IsInjective
<1>3. QED
  BY <1>1, <1>2, FS_Injection

LEMMA HighestSeq ==
    ASSUME NEW L \in SUBSET Change
    PROVE  LET m == Max({0} \cup {c.seq : c \in L})
           IN  /\ m \in Nat /\ \A c \in L : c.seq <= m
               /\ m = 0 \/ \E c \in L : c.seq = m
<1> DEFINE T == {0} \cup {c.seq : c \in L}
<1>1. /\ T \in SUBSET Int /\ T # {} /\ MaxSeq \in Int /\ \A x \in T : x <= MaxSeq
      /\ T \subseteq Nat
  BY ChangeTypes, PublisherAssumption
<1>2. Max(T) \in T /\ \A y \in T : y <= Max(T)
  <2> HIDE DEF T
  <2>1. \E x \in T : \A y \in T : y <= x
    BY <1>1, Greatest
  <2>2. \E x \in T : \A y \in T : x >= y
    BY <1>1, <2>1
  <2>3. Max(T) \in T /\ \A y \in T : Max(T) >= y
    BY <2>2 DEF Max
  <2>4. QED
    BY <1>1, <2>3
<1> DEFINE m == Max(T)
<1>3. m \in Nat
  BY <1>1, <1>2
<1>4. \A c \in L : c.seq \in T
  OBVIOUS
<1>5. m = 0 \/ \E c \in L : c.seq = m
  <2>1. m \in T
    BY <1>2
  <2> HIDE DEF m
  <2>2. QED
    BY <2>1
<1>6. \A c \in L : c.seq <= m
  BY <1>2, <1>4
<1>7. QED
  BY <1>3, <1>5, <1>6

LEMMA HighestSeqOf ==
    ASSUME NEW L \in SUBSET Change, L # {}
    PROVE  LET m == Max({c.seq : c \in L})
           IN  /\ m \in Nat /\ \A c \in L : c.seq <= m
               /\ \E c \in L : c.seq = m
<1> DEFINE T == {c.seq : c \in L}
<1>1. PICK c \in L : LastOf(L, c)
  BY LastExists
<1>2. c.seq \in T /\ \A y \in T : y <= c.seq
  BY <1>1 DEF LastOf
<1>3. \A y \in T : y \in Nat
  BY ChangeTypes
<1> HIDE DEF T
<1>4. Max(T) \in T /\ \A y \in T : Max(T) >= y
  <2>1. \E x \in T : \A y \in T : x >= y
    BY <1>2, <1>3
  <2>2. QED
    BY <2>1 DEF Max
<1>5. \A d \in L : d.seq \in T
  BY DEF T
<1>6. \E d \in L : d.seq = Max(T)
  BY <1>4 DEF T
<1>7. \A d \in L : d.seq <= Max(T)
  BY <1>3, <1>4, <1>5
<1>8. QED
  BY <1>3, <1>4, <1>6, <1>7 DEF T

(* A page is the beginning of the rows.                                    *)
LEMMA PageOf ==
    ASSUME NEW rows \in SUBSET Change, Distinct(rows), rows # {}
    PROVE  LET page == FirstOf(rows)
               m == Max({c.seq : c \in page})
           IN  /\ page \subseteq rows /\ m \in Nat
               /\ \A c \in page : c.seq <= m
               /\ \E c \in page : c.seq = m
               /\ \A c \in rows : c.seq <= m => c \in page
<1> DEFINE page == FirstOf(rows)
           before(c) == {d \in rows : d.seq < c.seq}
<1>1. IsFiniteSet(rows) /\ PageSize \in Nat /\ PageSize # 0
  BY ChangesAreFinite, PublisherAssumption
<1>2. \A c : before(c) \subseteq rows
  OBVIOUS
<1>3. \A c : IsFiniteSet(before(c)) /\ Cardinality(before(c)) \in Nat
  <2> HIDE DEF before
  <2>1. \A c : IsFiniteSet(before(c))
    BY <1>1, <1>2, FS_Subset
  <2>2. QED
    BY <2>1, FS_CardinalityType
<1>4. page = {c \in rows : Cardinality(before(c)) < PageSize}
  BY DEF FirstOf
<1>5. \A c \in rows : c.seq \in Nat
  BY ChangeTypes
<1>6. page # {}
  <2> DEFINE T == {c.seq : c \in rows}
  <2>1. T \in SUBSET Nat /\ T # {}
    BY <1>5
  <2>2. PICK t \in T : \A y \in T : t <= y
    <3> HIDE DEF T
    <3>1. QED
      BY <2>1, Least
  <2>3. PICK c \in rows : c.seq = t
    OBVIOUS
  <2>4. before(c) = {}
    BY <1>5, <2>2, <2>3
  <2>5. Cardinality(before(c)) = 0
    BY <2>4, FS_EmptySet
  <2> HIDE DEF before
  <2>6. QED
    BY <1>1, <1>4, <2>5
<1>7. page \in SUBSET Change
  BY <1>4
<1> DEFINE m == Max({c.seq : c \in page})
<1>8. m \in Nat /\ (\A c \in page : c.seq <= m) /\ \E c \in page : c.seq = m
  <2> HIDE DEF page
  <2>1. QED
    BY <1>6, <1>7, HighestSeqOf
<1> HIDE DEF m
<1>9. ASSUME NEW c \in rows, c.seq <= m PROVE c \in page
  <2>1. PICK b \in page : b.seq = m
    BY <1>8
  <2>2. before(c) \subseteq before(b)
    BY <1>4, <1>5, <1>8, <1>9, <2>1
  <2>3. Cardinality(before(b)) < PageSize
    BY <1>4
  <2> HIDE DEF before
  <2>4. Cardinality(before(c)) <= Cardinality(before(b))
    BY <1>3, <2>2, FS_Subset
  <2>5. Cardinality(before(c)) < PageSize
    BY <1>1, <1>3, <2>3, <2>4
  <2>6. QED
    BY <1>4, <2>5
<1>10. page \subseteq rows
  BY <1>4
<1>11. QED
  BY <1>8, <1>9, <1>10 DEF m

-----------------------------------------------------------------------------
(* The customer.  What it holds is backed by the log and, under its present*)
(* entitlements, reflects the log below its boundary; what a delivery has  *)
(* fetched is what its boundary makes of the log, up to the place where the*)
(* pages stand, whatever was committed since it began.                     *)

Pulls == [mode : {"full", "delta"}, reset : BOOLEAN, scope : [may : Entitlements, epoch : Nat \ {0}],
          snap : Nat, from : Nat, after : Nat, cursor : BOOLEAN, fetched : SUBSET Change]

CustomerTyped ==
    /\ scope \in [may : Entitlements, epoch : Nat \ {0}]
    /\ token \in [epoch : Nat, through : Nat]
    /\ mirror \in [Records -> Holdings] /\ now \in Nat
    /\ token.epoch <= scope.epoch /\ token.through <= MaxCommitted
    /\ token = NoToken => \A r \in Records : mirror[r].seq = 0

PullInv ==
    /\ pull \in Pulls /\ pull.fetched \subseteq log
    /\ pull.scope.epoch <= scope.epoch
    /\ pull.scope.epoch = scope.epoch => pull.scope = scope
    /\ token.through <= pull.snap /\ pull.snap <= MaxCommitted /\ pull.after <= pull.snap
    /\ pull.mode = "full" => token = NoToken \/ pull.reset
    /\ pull.mode = "delta" => /\ token.epoch = pull.scope.epoch /\ pull.from = token.through
                              /\ ~pull.reset
    /\ \A c, d \in pull.fetched : c.record = d.record => c = d
    /\ \A c \in pull.fetched : c.seq <= pull.after

(* Y is what a delivery p has of the record whose changes are S, when its  *)
(* pages stand at a.                                                       *)
Fetches(S, p, a, Y) ==
    IF p.mode = "full"
    THEN /\ \A c \in S : c \in Y => Upheld(S, p.snap, p.scope.may, c)
         /\ \A l : Upheld(S, p.snap, p.scope.may, l) /\ l.seq <= a => l \in Y \/ Beyond(S, p.snap)
    ELSE \A c \in S : c.seq <= a => (c \in Y <=> Latest(S, p, c))

Mirrors(r) ==
    token.epoch = scope.epoch /\ ~Reclassified(r) =>
        Reflected(Own(log, r), revs[r], mirror[r], token.through, scope.may)

CustomerInv ==
    /\ CustomerTyped
    /\ pull # NoPull => PullInv
    /\ \A r \in Records : Backed(Own(log, r), revs[r], mirror[r], token.through)
    /\ \A r \in Records \ raced :
          /\ Mirrors(r)
          /\ pull # NoPull => Fetches(Own(log, r), pull, pull.after, pull.fetched)

LEMMA RecordedHere ==
    ASSUME PublisherInv, FeedInv, NEW r \in Records
    PROVE  Recorded(revs[r], Own(log, r))
  BY OwnRevs DEF PublisherInv, LogInv, Distinct, Own, FeedInv, Recorded

LEMMA LogTypes ==
    ASSUME PublisherInv
    PROVE  /\ log \in SUBSET Change /\ Distinct(log)
           /\ MaxCommitted \in Nat /\ \A c \in log : c.seq <= MaxCommitted
           /\ MaxCommitted = 0 \/ \E c \in log : c.seq = MaxCommitted
  BY HighestSeq DEF PublisherInv, PublisherTyped, LogInv, MaxCommitted

LEMMA CustomerTypes ==
    ASSUME CustomerTyped
    PROVE  /\ scope.epoch \in Nat /\ scope.epoch # 0 /\ scope.may \in Entitlements
           /\ scope.may.maxTlp \in Nat
           /\ token.epoch \in Nat /\ token.through \in Nat
           /\ \A r \in Records : /\ mirror[r] \in Holdings /\ mirror[r].seq \in Nat
                                 /\ mirror[r].at \in Nat
<1>1. scope.epoch \in Nat /\ scope.epoch # 0 /\ scope.may \in Entitlements
  BY DEF CustomerTyped
<1>2. scope.may.maxTlp \in 0..RED
  BY <1>1, PublisherAssumption
<1>3. \A r \in Records : mirror[r] \in Holdings
  BY DEF CustomerTyped
<1>4. \A m \in Holdings : m.seq \in Nat /\ m.at \in Nat
  BY DEF Holdings
<1>5. QED
  BY <1>1, <1>2, <1>3, <1>4 DEF CustomerTyped

LEMMA PullTypes ==
    ASSUME NEW p \in Pulls
    PROVE  /\ p.mode \in {"full", "delta"} /\ p.reset \in BOOLEAN /\ p.fetched \in SUBSET Change
           /\ p.snap \in Nat /\ p.from \in Nat /\ p.after \in Nat
           /\ p.scope.epoch \in Nat /\ p.scope.epoch # 0 /\ p.scope.may \in Entitlements
           /\ p.scope.may.maxTlp \in Nat /\ p # NoPull /\ p.cursor \in BOOLEAN
           /\ p.scope \in [may : Entitlements, epoch : Nat \ {0}]
<1>1. p.scope \in [may : Entitlements, epoch : Nat \ {0}]
  BY DEF Pulls
<1>2. p.scope.may \in Entitlements /\ p.scope.epoch \in Nat /\ p.scope.epoch # 0
  BY <1>1
<1>3. p.scope.may.maxTlp \in 0..RED
  BY <1>2, PublisherAssumption
<1>4. p # NoPull
  BY DEF Pulls, NoPull
<1>5. QED
  BY <1>1, <1>2, <1>3, <1>4 DEF Pulls

(* The rows of a delivery as the database stands now.                      *)
LEMMA SnapshotRow ==
    ASSUME PublisherInv, FeedInv, NEW p \in Pulls, NEW r \in Records
    PROVE  /\ \A c \in SnapshotRows(p) : c.record = r =>
                 Upheld(Own(log, r), p.snap, p.scope.may, c)
           /\ \A l : Upheld(Own(log, r), p.snap, p.scope.may, l) =>
                 l \in SnapshotRows(p) \/ Beyond(Own(log, r), p.snap)
<1> DEFINE S == Own(log, r)
<1>1. /\ Recorded(revs[r], S) /\ S \in SUBSET Change /\ S \subseteq log
      /\ \A c \in S : c.record = r
  BY RecordedHere DEF Recorded, Own
<1>2. log \in SUBSET Change /\ Distinct(log) /\ projection[r] = SyncedProjection(log, r)
  BY LogTypes DEF PublisherInv, ProjectionInv
<1>3. \A c : LastOf(S, c) => projection[r] = IF c.canonical THEN c.seq ELSE 0
  BY <1>2, Projected
<1>4. p.snap \in Nat
  BY PullTypes
<1>5. ASSUME NEW c \in SnapshotRows(p), c.record = r
      PROVE  Upheld(S, p.snap, p.scope.may, c)
  <2>1. c \in S /\ projection[r] = c.seq /\ c.seq <= p.snap /\ Entitled(p.scope.may, c)
    BY <1>5 DEF SnapshotRows, Own
  <2> HIDE DEF S
  <2>2. PICK l \in S : LastOf(S, l)
    BY <1>1, <2>1, LastExists
  <2>3. c.seq # 0
    BY <1>1, <2>1, RecordedTypes
  <2>4. l.canonical /\ l.seq = c.seq
    BY <1>3, <2>1, <2>2, <2>3
  <2>5. l = c
    BY <1>1, <2>1, <2>4 DEF Recorded, Distinct
  <2>6. QED
    BY <2>1, <2>2, <2>4, <2>5 DEF Upheld, LastOf
<1>6. ASSUME NEW l, Upheld(S, p.snap, p.scope.may, l), ~Beyond(S, p.snap)
      PROVE  l \in SnapshotRows(p)
  <2>1. /\ l \in S /\ l.seq <= p.snap /\ l.canonical /\ Entitled(p.scope.may, l)
        /\ \A d \in S : d.seq <= p.snap => d.seq <= l.seq
    BY <1>6 DEF Upheld
  <2>2. \A d \in S : d.seq <= p.snap
    <3>1. \A d \in S : ~(d.seq > p.snap)
      BY <1>6 DEF Beyond
    <3> HIDE DEF S
    <3>2. QED
      BY <1>1, <1>4, <3>1, RecordedTypes
  <2>3. LastOf(S, l)
    BY <2>1, <2>2 DEF LastOf
  <2>4. projection[l.record] = l.seq /\ l \in log
    BY <1>1, <1>3, <2>1, <2>3
  <2>5. QED
    BY <2>1, <2>4 DEF SnapshotRows
<1>7. QED
  BY <1>5, <1>6

LEMMA DeltaRow ==
    ASSUME NEW p, NEW r, NEW c \in Own(log, r)
    PROVE  c \in DeltaRows(p) <=> Latest(Own(log, r), p, c)
<1>1. \A d : d \in Own(log, r) <=> d \in log /\ d.record = r
  BY DEF Own
<1>2. QED
  BY <1>1 DEF DeltaRows, Latest, Readable

LEMMA RemainingRows ==
    ASSUME PublisherInv, FeedInv, NEW p \in Pulls
    PROVE  /\ Remaining(p) \in SUBSET log /\ Remaining(p) \in SUBSET Change
           /\ Distinct(Remaining(p))
           /\ \A c \in Remaining(p) : c.seq > p.after /\ c.seq <= p.snap
           /\ \A c, d \in Remaining(p) : c.record = d.record => c = d
<1> DEFINE rows == IF p.mode = "full" THEN SnapshotRows(p) ELSE DeltaRows(p)
<1>1. Remaining(p) = {c \in rows : c.seq > p.after}
  BY DEF Remaining
<1>2. log \in SUBSET Change /\ Distinct(log)
  BY LogTypes
<1>3. /\ SnapshotRows(p) \subseteq log /\ DeltaRows(p) \subseteq log
      /\ \A c \in SnapshotRows(p) \cup DeltaRows(p) : c.seq <= p.snap
  BY DEF SnapshotRows, DeltaRows
<1>4. ASSUME NEW c \in rows, NEW d \in rows, c.record = d.record PROVE c = d
  <2>1. c \in log /\ d \in log /\ c.seq \in Nat /\ d.seq \in Nat
    BY <1>2, <1>3, ChangeTypes
  <2>2. c.seq = d.seq
    <3>1. CASE p.mode = "full"
      BY <1>4, <3>1 DEF SnapshotRows
    <3>2. CASE p.mode # "full"
      <4>1. c.seq <= d.seq /\ d.seq <= c.seq
        BY <1>4, <3>2 DEF DeltaRows
      <4>2. QED
        BY <2>1, <4>1
    <3>3. QED
      BY <3>1, <3>2
  <2>3. QED
    BY <1>2, <2>1, <2>2 DEF Distinct
<1>5. rows \subseteq log /\ \A c \in rows : c.seq <= p.snap
  BY <1>3
<1> HIDE DEF rows
<1>6. Distinct(Remaining(p))
  BY <1>1, <1>2, <1>5 DEF Distinct
<1>7. QED
  BY <1>1, <1>2, <1>4, <1>5, <1>6

(* A page, or the rest, takes a delivery from a to b.                      *)
LEMMA FetchesMore ==
    ASSUME PublisherInv, FeedInv, NEW p \in Pulls, NEW r \in Records, NEW Y \in SUBSET Change,
           Fetches(Own(log, r), p, p.after, Y), \A c \in Y : c.seq <= p.after,
           NEW X \in SUBSET Remaining(p), NEW b \in Nat, p.after <= b,
           \A c \in X : c.seq <= b, \A c \in Remaining(p) : c.seq <= b => c \in X
    PROVE  Fetches(Own(log, r), p, b, Y \cup X)
<1> DEFINE S == Own(log, r)
<1>1. /\ S \in SUBSET Change /\ S \subseteq log
      /\ \A c \in S : c.record = r /\ c.seq \in Nat
  <2>1. S \in SUBSET Change
    BY OwnRevs
  <2>2. QED
    BY <2>1, ChangeTypes DEF Own
<1>2. p.after \in Nat
  BY PullTypes
<1>3. CASE p.mode = "full"
  <2>1. Remaining(p) = {c \in SnapshotRows(p) : c.seq > p.after}
    BY <1>3 DEF Remaining
  <2>2. /\ \A c \in S : c \in Y => Upheld(S, p.snap, p.scope.may, c)
        /\ \A l : Upheld(S, p.snap, p.scope.may, l) /\ l.seq <= p.after =>
              l \in Y \/ Beyond(S, p.snap)
    BY <1>3 DEF Fetches
  <2>3. \A c \in S : c \in X => Upheld(S, p.snap, p.scope.may, c)
    BY <1>1, <2>1, SnapshotRow
  <2>4. ASSUME NEW l, Upheld(S, p.snap, p.scope.may, l), l.seq <= b, ~Beyond(S, p.snap)
        PROVE  l \in Y \cup X
    <3>1. l \in S /\ l \in SnapshotRows(p)
      BY <2>4, SnapshotRow DEF Upheld
    <3>2. CASE l.seq <= p.after
      BY <2>2, <2>4, <3>2
    <3>3. CASE ~(l.seq <= p.after)
      <4>1. l.seq > p.after
        BY <1>1, <1>2, <3>1, <3>3
      <4>2. QED
        BY <2>1, <2>4, <3>1, <4>1
    <3>4. QED
      BY <3>2, <3>3
  <2> HIDE DEF S
  <2>5. QED
    BY <1>3, <2>2, <2>3, <2>4 DEF Fetches, S
<1>4. CASE p.mode # "full"
  <2>1. Remaining(p) = {c \in DeltaRows(p) : c.seq > p.after}
    BY <1>4 DEF Remaining
  <2>2. \A c \in S : c.seq <= p.after => (c \in Y <=> Latest(S, p, c))
    BY <1>4 DEF Fetches
  <2>3. ASSUME NEW c \in S, c.seq <= b PROVE c \in Y \cup X <=> Latest(S, p, c)
    <3>1. c \in DeltaRows(p) <=> Latest(S, p, c)
      BY DeltaRow
    <3>2. CASE c.seq <= p.after
      <4>1. c \notin X
        BY <1>1, <1>2, <2>1, <3>2
      <4>2. QED
        BY <2>2, <3>2, <4>1
    <3>3. CASE ~(c.seq <= p.after)
      <4>1. c \notin Y /\ c.seq > p.after
        BY <1>1, <1>2, <3>3
      <4>2. c \in X <=> c \in DeltaRows(p)
        BY <2>1, <2>3, <4>1
      <4>3. QED
        BY <3>1, <4>1, <4>2
    <3>4. QED
      BY <3>2, <3>3
  <2> HIDE DEF S
  <2>4. QED
    BY <1>4, <2>3 DEF Fetches, S
<1>5. QED
  BY <1>3, <1>4

LEMMA CustomerInit == Init => CustomerInv
<1> SUFFICES ASSUME Init PROVE CustomerInv
  OBVIOUS
<1>1. /\ log = {} /\ token = NoToken /\ pull = NoPull /\ now = 1 /\ scope.epoch = 1
      /\ scope \in [may : Entitlements, epoch : Nat \ {0}]
      /\ mirror = [r \in Records |-> [seq |-> 0, at |-> 0]]
  BY DEF Init
<1>2. MaxCommitted \in Nat
  BY PublisherInit, LogTypes
<1>3. token = [epoch |-> 0, through |-> 0] /\ token.epoch = 0 /\ token.through = 0
  BY <1>1 DEF NoToken
<1>4. \A r \in Records : mirror[r] \in Holdings /\ mirror[r].seq = 0
  BY <1>1 DEF Holdings
<1>5. mirror \in [Records -> Holdings]
  BY <1>1 DEF Holdings
<1>6. CustomerTyped
  BY <1>1, <1>2, <1>3, <1>4, <1>5 DEF CustomerTyped
<1>7. \A r \in Records : Backed(Own(log, r), revs[r], mirror[r], token.through) /\ Mirrors(r)
  BY <1>1, <1>3, <1>4 DEF Backed, Mirrors
<1>8. QED
  BY <1>1, <1>6, <1>7 DEF CustomerInv

(* The publisher goes on: what it commits for a record it does not race    *)
(* lies above the token and above the boundary of an open delivery.        *)
LEMMA PublisherMoves ==
    ASSUME PublisherInv, FeedInv, CustomerInv, PublisherInv', FeedInv',
           UNCHANGED <<customer, scope>>, now' \in Nat, log \subseteq log', raced \subseteq raced',
           \A r \in Records : SameSources(revs[r], revs'[r]),
           \A c \in log' \ log : c.record \notin raced' =>
                c.seq > token.through /\ (pull # NoPull => c.seq > pull.snap)
    PROVE  CustomerInv'
<1>1. \A r \in Records : /\ Recorded(revs[r], Own(log, r))
                         /\ Own(log, r) \subseteq Own(log', r)
  BY RecordedHere DEF Own
<1>2. log' \in SUBSET Change
  BY DEF PublisherInv, PublisherTyped
<1>3. ASSUME NEW r \in Records PROVE Recorded(revs'[r], Own(log', r))
  <2>1. revs'[r] \in Seq(Revision) /\ Own(log', r) \in SUBSET Change
    BY <1>2 DEF PublisherInv, PublisherTyped, Own
  <2>2. /\ Distinct(Own(log', r))
        /\ \A c \in Own(log', r) : c.rev \in DOMAIN revs'[r]
    BY DEF PublisherInv, LogInv, Distinct, Own
  <2>3. Ageing(revs'[r], Own(log', r))
    BY DEF FeedInv
  <2>4. QED
    BY <2>1, <2>2, <2>3 DEF Recorded
<1>4. MaxCommitted \in Nat /\ MaxCommitted' \in Nat /\ MaxCommitted <= MaxCommitted'
  <2>1. /\ MaxCommitted \in Nat
        /\ MaxCommitted = 0 \/ \E c \in log : c.seq = MaxCommitted
    BY LogTypes
  <2>2. MaxCommitted' = Max({0} \cup {c.seq : c \in log'})
    BY DEF MaxCommitted
  <2>3. MaxCommitted' \in Nat /\ \A c \in log' : c.seq <= MaxCommitted'
    BY <1>2, <2>2, HighestSeq
  <2> HIDE DEF MaxCommitted
  <2>4. QED
    BY <2>1, <2>3
<1>5. /\ pull' = pull /\ token' = token /\ mirror' = mirror /\ scope' = scope
      /\ \A r \in Records : r \notin raced' => r \notin raced
  BY DEF customer
<1>6. CustomerTyped /\ token.through \in Nat /\ \A r \in Records : mirror[r] \in Holdings
  BY CustomerTypes DEF CustomerInv
<1> HIDE DEF MaxCommitted
<1>7. CustomerTyped'
  <2>1. token.through <= MaxCommitted'
    BY <1>4, <1>6 DEF CustomerTyped
  <2>2. QED
    BY <1>5, <1>6, <2>1 DEF CustomerTyped, NoToken
<1>8. ASSUME pull # NoPull PROVE PullInv'
  <2>1. PullInv
    BY <1>8 DEF CustomerInv
  <2>2. pull.snap \in Nat /\ pull.snap <= MaxCommitted
    BY <2>1, PullTypes DEF PullInv
  <2>3. pull.snap <= MaxCommitted'
    BY <1>4, <2>2
  <2>4. pull.fetched \subseteq log'
    BY <2>1 DEF PullInv
  <2>5. QED
    BY <1>5, <2>1, <2>3, <2>4 DEF PullInv, NoToken
<1>9. \A r \in Records : Backed(Own(log', r), revs'[r], mirror'[r], token'.through)
  <2> SUFFICES ASSUME NEW r \in Records
               PROVE  Backed(Own(log', r), revs'[r], mirror[r], token.through)
    BY <1>5
  <2>1. \A c \in Own(log, r) : c.rev \in DOMAIN revs[r]
    BY <1>1 DEF Recorded
  <2>2. Backed(Own(log, r), revs[r], mirror[r], token.through)
    BY DEF CustomerInv
  <2>3. QED
    BY <1>1, <2>1, <2>2, BackedGrows
<1>10. ASSUME NEW r \in Records, r \notin raced'
       PROVE  /\ Mirrors(r)'
              /\ pull' # NoPull => Fetches(Own(log', r), pull', pull'.after, pull'.fetched)
  <2> DEFINE S == Own(log, r)
             T == Own(log', r)
  <2>1. /\ Recorded(revs[r], S) /\ Recorded(revs'[r], T) /\ SameSources(revs[r], revs'[r])
        /\ S \subseteq T
    BY <1>1, <1>3
  <2>2. \A c \in T \ S : /\ c.seq > token.through
                         /\ pull # NoPull => c.seq > pull.snap
    BY <1>10 DEF Own
  <2>3. \A c \in T : c \in log => c \in S
    BY DEF Own
  <2>4. S = Own(log, r) /\ T = Own(log', r)
    OBVIOUS
  <2>5. \A c \in T : c.seq \in Nat
    BY <2>1, RecordedTypes
  <2> HIDE DEF S, T
  <2>6. Mirrors(r)'
    <3>1. Mirrors(r) /\ Backed(S, revs[r], mirror[r], token.through)
      BY <1>5, <1>10, <2>4 DEF CustomerInv
    <3>2. Reclassified(r) => Reclassified(r)'
      BY <2>1 DEF Reclassified, SameSources
    <3>3. \A may : Reflected(S, revs[r], mirror[r], token.through, may)
                       => Reflected(T, revs'[r], mirror[r], token.through, may)
      BY <1>6, <2>1, <2>2, <3>1, GrowsAbove
    <3>4. QED
      BY <1>5, <2>4, <3>1, <3>2, <3>3 DEF Mirrors
  <2>7. ASSUME pull # NoPull PROVE Fetches(T, pull, pull.after, pull.fetched)
    <3>1. PullInv /\ Fetches(S, pull, pull.after, pull.fetched)
      BY <1>5, <1>10, <2>4, <2>7 DEF CustomerInv
    <3>2. pull.snap \in Nat /\ pull.after \in Nat /\ pull.after <= pull.snap /\ pull.fetched \subseteq log
      BY <3>1, PullTypes DEF PullInv
    <3>3. /\ \A may, l : Upheld(T, pull.snap, may, l) <=> Upheld(S, pull.snap, may, l)
          /\ Beyond(S, pull.snap) => Beyond(T, pull.snap)
      BY <2>1, <2>2, <2>7, <3>2, GrowsAbove
    <3>4. \A c : Latest(T, pull, c) <=> Latest(S, pull, c)
      BY <2>1, <2>2, <2>7, <3>2, GrowsAbove
    <3>5. \A c \in T : c \in pull.fetched \/ c.seq <= pull.after => c \in S
      BY <2>2, <2>3, <2>5, <2>7, <3>2
    <3>6. CASE pull.mode = "full"
      BY <3>1, <3>3, <3>5, <3>6 DEF Fetches
    <3>7. CASE pull.mode # "full"
      BY <3>1, <3>4, <3>5, <3>7 DEF Fetches
    <3>8. QED
      BY <3>6, <3>7
  <2>8. QED
    BY <1>5, <2>4, <2>6, <2>7
<1>11. QED
  BY <1>5, <1>7, <1>8, <1>9, <1>10 DEF CustomerInv

LEMMA UpdateClientKeeps ==
    ASSUME PublisherInv, CustomerInv, NEW e \in Entitlements, UpdateClient(e)
    PROVE  CustomerInv'
<1>1. /\ UNCHANGED <<publisher, customer, now>> /\ scope' = [may |-> e, epoch |-> scope.epoch + 1]
  BY DEF UpdateClient
<1>2. CustomerTyped /\ scope.epoch \in Nat /\ token.epoch \in Nat /\ token.epoch <= scope.epoch
  BY CustomerTypes DEF CustomerInv, CustomerTyped
<1>3. /\ scope' \in [may : Entitlements, epoch : Nat \ {0}]
      /\ scope'.epoch = scope.epoch + 1 /\ token.epoch < scope'.epoch
  BY <1>1, <1>2
<1>4. /\ log' = log /\ revs' = revs /\ raced' = raced /\ pull' = pull /\ token' = token
      /\ mirror' = mirror /\ now' = now /\ MaxCommitted' = MaxCommitted
  BY <1>1 DEF publisher, customer, MaxCommitted
<1> HIDE DEF MaxCommitted
<1>5. CustomerTyped'
  BY <1>2, <1>3, <1>4 DEF CustomerTyped, NoToken
<1>6. ASSUME pull # NoPull PROVE PullInv'
  <2>1. PullInv /\ pull.scope.epoch \in Nat /\ pull.scope.epoch <= scope.epoch
    BY <1>6, PullTypes DEF CustomerInv, PullInv
  <2>2. pull.scope.epoch < scope'.epoch
    BY <1>2, <1>3, <2>1
  <2>3. QED
    BY <1>3, <1>4, <2>1, <2>2 DEF PullInv, NoToken
<1>7. \A r : Mirrors(r)'
  BY <1>2, <1>3, <1>4 DEF Mirrors
<1>8. QED
  BY <1>4, <1>5, <1>6, <1>7 DEF CustomerInv

LEMMA BeginDeliveryKeeps ==
    ASSUME PublisherInv, FeedInv, CustomerInv, BeginDelivery
    PROVE  CustomerInv'
<1> DEFINE reset == token # NoToken /\ token.epoch # scope.epoch
           full == token = NoToken \/ reset
           from == IF full THEN 0 ELSE token.through
           p == [mode |-> IF full THEN "full" ELSE "delta", reset |-> reset,
                 scope |-> scope, snap |-> MaxCommitted, from |-> from,
                 after |-> from, cursor |-> FALSE, fetched |-> {}]
<1>1. pull' = p /\ UNCHANGED <<publisher, token, mirror, failures, scope, now>>
  BY DEF BeginDelivery
<1>2. /\ scope \in [may : Entitlements, epoch : Nat \ {0}] /\ token.through \in Nat
      /\ token.through <= MaxCommitted /\ scope.epoch \in Nat
  BY CustomerTypes DEF CustomerInv, CustomerTyped
<1>3. MaxCommitted \in Nat
  BY LogTypes
<1>4. /\ log' = log /\ revs' = revs /\ raced' = raced /\ token' = token /\ scope' = scope
      /\ mirror' = mirror /\ now' = now /\ MaxCommitted' = MaxCommitted
  BY <1>1 DEF publisher, MaxCommitted
<1> HIDE DEF MaxCommitted
<1>5. from \in Nat /\ from <= MaxCommitted
  BY <1>2, <1>3
<1>6. /\ p \in Pulls /\ p.scope = scope /\ p.snap = MaxCommitted /\ p.after = p.from
      /\ p.from = from /\ p.fetched = {} /\ p.reset = reset
      /\ p.mode = IF full THEN "full" ELSE "delta"
  <2> HIDE DEF from, full
  <2>1. reset \in BOOLEAN
    OBVIOUS
  <2> HIDE DEF reset
  <2>2. QED
    BY <1>2, <1>3, <1>5, <2>1 DEF Pulls
<1> HIDE DEF p
<1>7. PullInv'
  <2>1. /\ p.mode = "full" => token = NoToken \/ p.reset
        /\ p.mode = "delta" => /\ token.epoch = p.scope.epoch /\ p.from = token.through
                               /\ ~p.reset
    <3>1. CASE full
      BY <1>6, <3>1
    <3>2. CASE ~full
      BY <1>6, <3>2
    <3>3. QED
      BY <3>1, <3>2
  <2> HIDE DEF from, full, reset
  <2>2. /\ p.scope.epoch <= scope.epoch /\ token.through <= p.snap /\ p.snap <= MaxCommitted
        /\ p.after <= p.snap
    BY <1>2, <1>3, <1>5, <1>6
  <2>3. NoToken' = NoToken
    BY DEF NoToken
  <2>4. QED
    BY <1>1, <1>4, <1>6, <2>1, <2>2, <2>3 DEF PullInv
<1>8. \A r \in Records : Fetches(Own(log, r), p, p.after, p.fetched)
  <2> SUFFICES ASSUME NEW r \in Records PROVE Fetches(Own(log, r), p, p.after, p.fetched)
    OBVIOUS
  <2> DEFINE S == Own(log, r)
  <2>1. \A c \in S : c.seq \in Nat /\ c.seq >= 1
    BY RecordedHere, RecordedTypes
  <2> HIDE DEF S
  <2>2. CASE p.mode = "full"
    <3>1. p.after = 0
      BY <1>6, <2>2
    <3>2. \A l : ~(Upheld(S, p.snap, p.scope.may, l) /\ l.seq <= p.after)
      BY <2>1, <3>1 DEF Upheld
    <3>3. QED
      BY <1>6, <2>2, <3>2 DEF Fetches, S
  <2>3. CASE p.mode # "full"
    <3>1. \A c \in S : c.seq <= p.after => ~Latest(S, p, c)
      BY <1>5, <1>6, <2>1 DEF Latest, Readable
    <3>2. QED
      BY <1>6, <2>3, <3>1 DEF Fetches, S
  <2>4. QED
    BY <2>2, <2>3
<1>9. CustomerTyped'
  BY <1>4 DEF CustomerInv, CustomerTyped, NoToken
<1>10. \A r \in Records : /\ Backed(Own(log, r), revs[r], mirror[r], token.through)'
                          /\ r \notin raced => Mirrors(r)'
  BY <1>4 DEF CustomerInv, Mirrors, Reclassified
<1>11. QED
  BY <1>1, <1>4, <1>7, <1>8, <1>9, <1>10 DEF CustomerInv

LEMMA FailDeliveryKeeps ==
    ASSUME CustomerInv, pull' = NoPull,
           UNCHANGED <<publisher, token, mirror, scope, now>>
    PROVE  CustomerInv'
<1>1. /\ log' = log /\ revs' = revs /\ raced' = raced /\ token' = token /\ scope' = scope
      /\ mirror' = mirror /\ now' = now /\ MaxCommitted' = MaxCommitted
  BY DEF publisher, MaxCommitted
<1> HIDE DEF MaxCommitted
<1>2. CustomerTyped'
  BY <1>1 DEF CustomerInv, CustomerTyped, NoToken
<1>3. \A r \in Records : /\ Backed(Own(log, r), revs[r], mirror[r], token.through)'
                         /\ r \notin raced => Mirrors(r)'
  BY <1>1 DEF CustomerInv, Mirrors, Reclassified
<1>4. NoPull' = NoPull
  BY DEF NoPull
<1>5. QED
  BY <1>1, <1>2, <1>3, <1>4 DEF CustomerInv

LEMMA NextPageKeeps ==
    ASSUME PublisherInv, FeedInv, CustomerInv, NextPage
    PROVE  CustomerInv'
<1> DEFINE rows == Remaining(pull)
           page == FirstOf(rows)
           m == Max({c.seq : c \in page})
<1>1. /\ pull # NoPull /\ Cardinality(rows) > PageSize /\ ~Repeats(page)
      /\ pull' = [pull EXCEPT !.after = m, !.cursor = TRUE, !.fetched = @ \cup page]
      /\ UNCHANGED <<publisher, token, mirror, failures, scope, now>>
  BY DEF NextPage
<1>2. PullInv /\ pull \in Pulls
  BY <1>1 DEF CustomerInv, PullInv
<1>3. /\ rows \in SUBSET log /\ rows \in SUBSET Change /\ Distinct(rows)
      /\ \A c \in rows : c.seq > pull.after /\ c.seq <= pull.snap /\ c.seq \in Nat
      /\ \A c, d \in rows : c.record = d.record => c = d
  <2>1. rows \in SUBSET Change
    BY <1>2, RemainingRows
  <2>2. \A c \in rows : c.seq \in Nat
    BY <2>1, ChangeTypes
  <2> HIDE DEF rows
  <2>3. QED
    BY <1>2, <2>1, <2>2, RemainingRows DEF rows
<1> HIDE DEF rows
<1>4. rows # {}
  <2>1. PageSize \in Nat
    BY PublisherAssumption
  <2>2. Cardinality({}) = 0
    BY FS_EmptySet
  <2>3. QED
    BY <1>1, <2>1, <2>2
<1>5. /\ page \subseteq rows /\ m \in Nat
      /\ \A c \in page : c.seq <= m
      /\ \E c \in page : c.seq = m
      /\ \A c \in rows : c.seq <= m => c \in page
  BY <1>3, <1>4, PageOf
<1> HIDE DEF page, m
<1>6. pull.after \in Nat /\ pull.snap \in Nat /\ pull.after <= m /\ m <= pull.snap
  BY <1>2, <1>3, <1>5, PullTypes
<1>7. /\ pull' \in Pulls /\ pull'.after = m /\ pull'.fetched = pull.fetched \cup page
      /\ pull'.mode = pull.mode /\ pull'.snap = pull.snap /\ pull'.scope = pull.scope
      /\ pull'.from = pull.from /\ pull'.reset = pull.reset
  <2>1. page \in SUBSET Change
    BY <1>3, <1>5
  <2>2. QED
    BY <1>1, <1>2, <1>5, <2>1 DEF Pulls
<1>8. /\ log' = log /\ revs' = revs /\ raced' = raced /\ token' = token /\ scope' = scope
      /\ mirror' = mirror /\ now' = now /\ MaxCommitted' = MaxCommitted
  BY <1>1 DEF publisher, MaxCommitted
<1> HIDE DEF MaxCommitted
<1>9. \A c \in pull.fetched : c.seq <= pull.after /\ c.seq \in Nat
  <2>1. pull.fetched \in SUBSET Change
    BY <1>2, PullTypes
  <2>2. QED
    BY <1>2, <2>1, ChangeTypes DEF PullInv
<1>10. PullInv'
  <2>1. \A c, d \in pull.fetched \cup page : c.record = d.record => c = d
    BY <1>1, <1>2, <1>3, <1>5 DEF PullInv, Repeats
  <2>2. \A c \in pull.fetched \cup page : c.seq <= m
    BY <1>5, <1>6, <1>9
  <2>3. pull.fetched \cup page \subseteq log
    BY <1>2, <1>3, <1>5 DEF PullInv
  <2>4. NoToken' = NoToken
    BY DEF NoToken
  <2>5. QED
    BY <1>2, <1>6, <1>7, <1>8, <2>1, <2>2, <2>3, <2>4 DEF PullInv
<1>11. ASSUME NEW r \in Records, r \notin raced
       PROVE  Fetches(Own(log, r), pull', pull'.after, pull'.fetched)
  <2>1. Fetches(Own(log, r), pull, pull.after, pull.fetched)
    BY <1>1, <1>11 DEF CustomerInv
  <2>2. pull.fetched \in SUBSET Change /\ page \in SUBSET Remaining(pull)
    BY <1>2, <1>5, PullTypes DEF rows
  <2>3. Fetches(Own(log, r), pull, m, pull.fetched \cup page)
    BY <1>2, <1>5, <1>6, <1>9, <2>1, <2>2, FetchesMore DEF rows
  <2>4. \A S, c : Latest(S, pull', c) <=> Latest(S, pull, c)
    BY <1>7 DEF Latest, Readable
  <2>5. QED
    BY <1>7, <2>3, <2>4 DEF Fetches
<1>12. CustomerTyped'
  BY <1>8 DEF CustomerInv, CustomerTyped, NoToken
<1>13. \A r \in Records : /\ Backed(Own(log, r), revs[r], mirror[r], token.through)'
                          /\ r \notin raced => Mirrors(r)'
  BY <1>8 DEF CustomerInv, Mirrors, Reclassified
<1>14. QED
  BY <1>8, <1>10, <1>11, <1>12, <1>13 DEF CustomerInv

(* The last page: everything fetched is taken and the boundary becomes the *)
(* token's.                                                                *)
LEMMA CompleteDeliveryKeeps ==
    ASSUME PublisherInv, FeedInv, CustomerInv, CompleteDelivery
    PROVE  CustomerInv'
<1> DEFINE rows == Remaining(pull)
           received == pull.fetched \cup rows
           Of(r) == {c \in received : c.record = r}
<1>1. /\ pull # NoPull
      /\ mirror' = [r \in Records |->
              IF Of(r) # {} THEN Applied(mirror[r], CHOOSE c \in Of(r) : TRUE)
              ELSE IF pull.reset THEN Reconciled(mirror[r]) ELSE mirror[r]]
      /\ token' = TokenOf(pull) /\ pull' = NoPull
      /\ UNCHANGED <<publisher, failures, scope, now>>
  BY DEF CompleteDelivery
<1>2. PullInv /\ pull \in Pulls /\ pull.snap \in Nat /\ pull.after \in Nat /\ pull.scope.epoch # 0
      /\ pull.scope.epoch \in Nat /\ pull.from \in Nat /\ pull.fetched \in SUBSET Change
      /\ pull.scope.may.maxTlp \in Nat /\ pull.mode \in {"full", "delta"}
  BY <1>1, PullTypes DEF CustomerInv, PullInv
<1>3. /\ CustomerTyped /\ token.through \in Nat /\ now \in Nat /\ token.through <= pull.snap
      /\ \A r \in Records : mirror[r] \in Holdings
  BY <1>2, CustomerTypes DEF CustomerInv, CustomerTyped, PullInv
<1>4. /\ rows \in SUBSET log
      /\ \A c \in rows : c.seq <= pull.snap
  BY <1>2, RemainingRows
<1>5. /\ received \subseteq log /\ \A c \in received : c.seq <= pull.snap
  <2>1. \A c \in pull.fetched : c.seq \in Nat /\ c.seq <= pull.after
    BY <1>2, ChangeTypes DEF PullInv
  <2>2. \A c \in pull.fetched : c.seq <= pull.snap
    BY <1>2, <2>1 DEF PullInv
  <2> HIDE DEF rows
  <2>3. QED
    BY <1>2, <1>4, <2>2 DEF PullInv
<1>6. /\ log' = log /\ revs' = revs /\ raced' = raced /\ scope' = scope
      /\ now' = now /\ MaxCommitted' = MaxCommitted
  BY <1>1 DEF publisher, MaxCommitted
<1>7. /\ token' = [epoch |-> pull.scope.epoch, through |-> pull.snap]
      /\ token'.epoch = pull.scope.epoch /\ token'.through = pull.snap
  BY <1>1 DEF TokenOf
<1>8. ASSUME NEW r \in Records, r \notin raced
      PROVE  Fetches(Own(log, r), pull, pull.snap, received)
  <2>1. Fetches(Own(log, r), pull, pull.after, pull.fetched)
    BY <1>1, <1>8 DEF CustomerInv
  <2>2. pull.after <= pull.snap /\ \A c \in pull.fetched : c.seq <= pull.after
    BY <1>2 DEF PullInv
  <2>3. rows \in SUBSET Remaining(pull)
    OBVIOUS
  <2>4. QED
    BY <1>2, <1>4, <2>1, <2>2, <2>3, FetchesMore
<1> HIDE DEF received, rows, MaxCommitted
<1>9. \A r \in Records : \A c \in Of(r) : c \in Own(log, r) /\ c.seq <= pull.snap
  BY <1>5 DEF Own
<1>10. \A r \in Records : \A c \in Own(log, r) : c \in received <=> c \in Of(r)
  BY DEF Own
<1>11. ASSUME NEW r \in Records, Of(r) # {}
       PROVE  mirror'[r] = Taken(revs[r], mirror[r], CHOOSE c \in Of(r) : TRUE)
  <2> DEFINE x == CHOOSE c \in Of(r) : TRUE
  <2>1. x \in Of(r)
    BY <1>11
  <2>2. x.record = r
    BY <2>1
  <2>3. mirror'[r] = Applied(mirror[r], x)
    BY <1>1, <1>11
  <2> HIDE DEF x
  <2>4. mirror'[r] = Taken(revs[r], mirror[r], x)
    BY <2>2, <2>3 DEF Applied, TimeOf, Taken
  <2>5. QED
    BY <2>4 DEF x
<1>12. ASSUME NEW r \in Records, Of(r) = {}
       PROVE  mirror'[r] = IF pull.reset THEN Reconciled(mirror[r]) ELSE mirror[r]
  BY <1>1, <1>12
<1> HIDE DEF Of
<1>13. \A r \in Records : /\ Recorded(revs[r], Own(log, r))
                          /\ Backed(Own(log, r), revs[r], mirror[r], token.through)
  BY RecordedHere DEF CustomerInv
<1>14. ASSUME NEW r \in Records
       PROVE  /\ mirror'[r] \in Holdings
              /\ Backed(Own(log, r), revs[r], mirror'[r], pull.snap)
  <2> DEFINE S == Own(log, r)
             rs == revs[r]
             h == mirror[r]
  <2>1. /\ Recorded(rs, S) /\ Backed(S, rs, h, token.through) /\ h \in Holdings
    BY <1>3, <1>13
  <2>2. CASE Of(r) # {}
    <3> DEFINE x == CHOOSE c \in Of(r) : TRUE
    <3>1. x \in Of(r)
      BY <2>2
    <3>2. x \in S /\ x.seq <= pull.snap
      BY <1>9, <3>1
    <3>3. mirror'[r] = Taken(rs, h, x)
      BY <1>11, <2>2
    <3> HIDE DEF x, S, rs, h
    <3>4. mirror'[r] \in Holdings /\ Backed(S, rs, mirror'[r], pull.snap)
      BY <1>2, <1>3, <2>1, <3>2, <3>3, TakenLater
    <3>5. QED
      BY <3>4 DEF S, rs
  <2>3. CASE Of(r) = {}
    <3>1. Backed(S, rs, h, pull.snap)
      <4>1. \A c \in S : c.seq <= token.through => c.seq <= pull.snap
        <5>1. \A c \in S : c.seq \in Nat
          BY <2>1, RecordedTypes
        <5> HIDE DEF S
        <5>2. QED
          BY <1>2, <1>3, <5>1
      <4> HIDE DEF S, rs, h
      <4>2. QED
        BY <2>1, <4>1 DEF Backed
    <3>2. CASE mirror'[r] = h
      BY <2>1, <3>1, <3>2
    <3>3. CASE mirror'[r] # h
      <4>1. mirror'[r] = [seq |-> 0, at |-> now]
        BY <1>12, <2>3, <3>3 DEF Reconciled
      <4>2. QED
        BY <1>3, <4>1 DEF Holdings, Backed
    <3>4. QED
      BY <3>2, <3>3
  <2>4. QED
    BY <2>2, <2>3
<1>15. ASSUME NEW r \in Records, r \notin raced PROVE Mirrors(r)'
  <2> SUFFICES ASSUME pull.scope.epoch = scope.epoch, ~Reclassified(r)
               PROVE  Reflected(Own(log, r), revs[r], mirror'[r], pull.snap, scope.may)
    BY <1>6, <1>7 DEF Mirrors, Reclassified
  <2> DEFINE S == Own(log, r)
             rs == revs[r]
             h == mirror[r]
             n == mirror'[r]
  <2>1. /\ Recorded(rs, S) /\ Backed(S, rs, h, token.through) /\ h \in Holdings
    BY <1>3, <1>13
  <2>2. pull.scope = scope /\ pull.scope.may = scope.may
    BY <1>2 DEF PullInv
  <2>3. /\ Of(r) \in SUBSET S
        /\ \A c \in Of(r) : c.seq <= pull.snap
        /\ \A c \in S : c \in received <=> c \in Of(r)
        /\ Fetches(S, pull, pull.snap, received)
    BY <1>8, <1>9, <1>10, <1>15
  <2>4. Of(r) # {} => n = Taken(rs, h, CHOOSE c \in Of(r) : TRUE)
    BY <1>11
  <2>5. Of(r) = {} => n = IF pull.reset THEN Reconciled(h) ELSE h
    BY <1>12
  <2>6. S = Own(log, r) /\ rs = revs[r] /\ h = mirror[r] /\ n = mirror'[r]
    OBVIOUS
  <2> HIDE DEF S, rs, h, n
  <2>7. CASE pull.mode = "full"
    <3>1. \A c \in Of(r) : Upheld(S, pull.snap, scope.may, c)
      BY <2>2, <2>3, <2>7 DEF Fetches
    <3>2. \A l : Upheld(S, pull.snap, scope.may, l) => l \in Of(r) \/ Beyond(S, pull.snap)
      BY <2>2, <2>3, <2>7 DEF Fetches, Upheld
    <3>3. Of(r) = {} => n.seq = 0
      <4>1. CASE pull.reset
        BY <2>1, <2>5, <4>1 DEF Reconciled, Backed
      <4>2. CASE ~pull.reset
        <5>1. token = NoToken
          BY <1>2, <2>7, <4>2 DEF PullInv
        <5>2. h.seq = 0
          BY <1>3, <2>6, <5>1 DEF CustomerTyped
        <5>3. QED
          BY <2>5, <4>2, <5>2
      <4>3. QED
        BY <4>1, <4>2
    <3>4. Reflected(S, rs, n, pull.snap, scope.may)
      BY <1>2, <1>3, <2>1, <2>3, <2>4, <3>1, <3>2, <3>3, FullDelivered
    <3>5. QED
      BY <2>6, <3>4
  <2>8. CASE pull.mode = "delta"
    <3>1. token.epoch = scope.epoch /\ pull.from = token.through /\ ~pull.reset
      BY <1>2, <2>2, <2>8 DEF PullInv
    <3>2. Relieved(S) /\ Reflected(S, rs, h, pull.from, pull.scope.may)
      BY <1>15, <2>2, <2>6, <3>1 DEF FeedInv, CustomerInv, Mirrors
    <3>3. \A i, j \in DOMAIN rs : rs[i].src.kind = rs[j].src.kind
      BY <2>6 DEF Reclassified
    <3>4. \A c \in S : c \in Of(r) <=> Latest(S, pull, c)
      <4>1. \A c \in S : c.seq <= pull.snap => (c \in received <=> Latest(S, pull, c))
        BY <2>3, <2>8 DEF Fetches
      <4>2. \A c \in S : Latest(S, pull, c) => c.seq <= pull.snap
        BY DEF Latest, Readable
      <4>3. QED
        BY <2>3, <4>1, <4>2
    <3>5. Of(r) = {} => n = h
      BY <2>5, <3>1
    <3>6. /\ Backed(S, rs, h, pull.from) /\ pull.from <= pull.snap
      BY <1>3, <2>1, <3>1
    <3>7. Reflected(S, rs, n, pull.snap, pull.scope.may)
      BY <1>2, <2>1, <2>3, <2>4, <3>2, <3>3, <3>4, <3>5, <3>6, DeltaDelivered
    <3>8. QED
      BY <2>2, <2>6, <3>7
  <2>9. QED
    BY <1>2, <2>7, <2>8
<1>16. CustomerTyped'
  <2>1. token' \in [epoch : Nat, through : Nat] /\ token' # NoToken
    BY <1>2, <1>7 DEF NoToken
  <2>2. token'.epoch <= scope.epoch /\ token'.through <= MaxCommitted
    BY <1>2, <1>7 DEF PullInv
  <2>3. mirror' \in [Records -> Holdings]
    <3>1. mirror' = [r \in Records |-> mirror'[r]]
      BY <1>1
    <3>2. QED
      BY <1>14, <3>1
  <2>4. NoToken' = NoToken
    BY DEF NoToken
  <2>5. QED
    BY <1>3, <1>6, <2>1, <2>2, <2>3, <2>4 DEF CustomerTyped
<1>17. NoPull' = NoPull
  BY DEF NoPull
<1>18. QED
  BY <1>1, <1>6, <1>7, <1>14, <1>15, <1>16, <1>17 DEF CustomerInv

LEMMA HigherOfTwo ==
    ASSUME NEW a \in Nat, NEW b \in Nat
    PROVE  Max({a, b}) \in Nat /\ a <= Max({a, b}) /\ b <= Max({a, b})
<1>1. \E x \in {a, b} : \A y \in {a, b} : x >= y
  <2>1. CASE a >= b
    BY <2>1
  <2>2. CASE ~(a >= b)
    BY <2>2
  <2>3. QED
    BY <2>1, <2>2
<1>2. Max({a, b}) \in {a, b} /\ \A y \in {a, b} : Max({a, b}) >= y
  BY <1>1 DEF Max
<1>3. QED
  BY <1>2

LEMMA CommitLiesAbove ==
    ASSUME PublisherInv, CustomerInv, NEW o \in Operators, Commit(o), NEW c \in log' \ log,
           c.record \notin raced'
    PROVE  c.seq > token.through /\ (pull # NoPull => c.seq > pull.snap)
<1> DEFINE r == tx[o].record
           out == tx[o].out
           delivered == IF pull = NoPull THEN token.through
                        ELSE Max({token.through, pull.snap})
<1>1. /\ o \in Writing /\ log' = log \cup out
      /\ raced' = IF \E d \in out : d.seq <= delivered THEN raced \cup {r} ELSE raced
  BY DEF Commit
<1>2. PublisherTyped /\ c \in out
  BY <1>1 DEF PublisherInv
<1>3. c.record = r /\ out \in SUBSET Change
  BY <1>1, <1>2, WriteTypes DEF PublisherInv, DraftInv
<1>4. c.seq \in Nat
  BY <1>2, <1>3, ChangeTypes
<1>5. ~(c.seq <= delivered)
  BY <1>1, <1>2, <1>3
<1>6. token.through \in Nat
  BY CustomerTypes DEF CustomerInv
<1>7. CASE pull = NoPull
  BY <1>4, <1>5, <1>6, <1>7
<1>8. CASE pull # NoPull
  <2>1. pull.snap \in Nat
    BY <1>8, PullTypes DEF CustomerInv, PullInv
  <2>2. ~(c.seq <= Max({token.through, pull.snap}))
    BY <1>5, <1>8
  <2>3. /\ Max({token.through, pull.snap}) \in Nat
        /\ token.through <= Max({token.through, pull.snap})
        /\ pull.snap <= Max({token.through, pull.snap})
    BY <1>6, <2>1, HigherOfTwo
  <2>4. QED
    BY <1>4, <1>6, <2>1, <2>2, <2>3
<1>9. QED
  BY <1>7, <1>8

LEMMA CustomerStep ==
    ASSUME PublisherInv, FeedInv, CustomerInv, [Next]_vars
    PROVE  CustomerInv'
<1>1. PublisherInv' /\ FeedInv' /\ \A r \in Records : SameSources(revs[r], revs'[r])
  BY PublisherStep, FeedStep, SourcesKept
<1>2. now \in Nat
  BY DEF CustomerInv, CustomerTyped
<1>3. ASSUME UNCHANGED <<customer, scope>>, log' = log, raced \subseteq raced', now' \in Nat
      PROVE  CustomerInv'
  <2>1. log \subseteq log' /\ log' \ log = {}
    BY <1>3
  <2>2. \A c \in log' \ log : c.record \notin raced' =>
            c.seq > token.through /\ (pull # NoPull => c.seq > pull.snap)
    BY <2>1
  <2>3. QED
    BY <1>1, <1>3, <2>1, <2>2, PublisherMoves
<1>4. ASSUME NEW o \in Operators,
             \/ \E item \in Items, publish \in BOOLEAN : Import(o, item, publish)
             \/ \E r \in Records : PublishRecord(o, r) \/ RejectRead(o, r)
             \/ Abort(o) \/ RejectWrite(o)
      PROVE  CustomerInv'
  <2>1. UNCHANGED <<customer, scope, now, log>> /\ raced \subseteq raced'
    BY <1>4 DEF Import, PublishRecord, Begin, RejectRead, Abort, RejectWrite
  <2>2. QED
    BY <1>2, <1>3, <2>1
<1>5. ASSUME NEW o \in Operators, Commit(o) PROVE CustomerInv'
  <2>1. UNCHANGED <<customer, scope, now>> /\ log \subseteq log' /\ raced \subseteq raced'
    BY <1>5 DEF Commit
  <2>2. \A c \in log' \ log : c.record \notin raced' =>
            c.seq > token.through /\ (pull # NoPull => c.seq > pull.snap)
    BY <1>5, CommitLiesAbove
  <2>3. QED
    BY <1>1, <1>2, <2>1, <2>2, PublisherMoves
<1>6. CASE Tick
  <2>1. UNCHANGED <<publisher, customer, scope>> /\ now' = now + 1
    BY <1>6 DEF Tick
  <2>2. log' = log /\ raced' = raced /\ now' \in Nat
    BY <1>2, <2>1 DEF publisher
  <2>3. QED
    BY <1>3, <2>1, <2>2
<1>7. CASE UNCHANGED vars
  BY <1>2, <1>3, <1>7 DEF vars, publisher
<1>8. CASE FailDelivery
  BY <1>8, FailDeliveryKeeps DEF FailDelivery
<1>9. QED
  BY <1>4, <1>5, <1>6, <1>7, <1>8, UpdateClientKeeps, BeginDeliveryKeeps, NextPageKeeps,
     CompleteDeliveryKeeps DEF Next

(* A customer in sync holds exactly what the publisher shows it: whatever  *)
(* was imported, released, withdrawn, entitled or failed between its pages *)
(* (feed_page of service_v2.py and the customer's sync), but for records a *)
(* race hit, records whose kind changed and tombstones newer than the feed.*)
THEOREM AlwaysConverges == Spec => []Converged
<1> DEFINE Inv == PublisherInv /\ FeedInv /\ CustomerInv
<1>1. Init => Inv
  BY PublisherInit, FeedInit, CustomerInit
<1>2. Inv /\ [Next]_vars => Inv'
  BY PublisherStep, FeedStep, CustomerStep
<1>3. Inv => Converged
  <2> SUFFICES ASSUME PublisherInv, FeedInv, CustomerInv, InSync, NEW r \in Records, ~Excused(r)
               PROVE  Agrees(r)
    BY DEF Converged
  <2> DEFINE S == Own(log, r)
             s == token.through
             may == scope.may
  <2>1. /\ r \notin raced /\ ~Reclassified(r) /\ ~Buried(r)
        /\ token.epoch = scope.epoch /\ s = MaxCommitted
    BY DEF Excused, InSync
  <2>2. Recorded(revs[r], S) /\ s \in Nat /\ \A c \in S : c.seq <= s
    BY <2>1, RecordedHere, LogTypes DEF Own
  <2>3. \A c \in S : c.seq \in Nat /\ c.seq # 0 /\ c.record = r /\ ChangeAt(c.seq) = c
    <3>1. \A c \in S : c \in log /\ c.record = r
      BY DEF Own
    <3>2. QED
      BY <2>2, <3>1, RecordedTypes, ChangeAtIs
  <2>4. ~Beyond(S, s)
    <3> HIDE DEF S, s
    <3>1. QED
      BY <2>2, <2>3 DEF Beyond
  <2>5. Reflected(S, revs[r], mirror[r], s, may) /\ Backed(S, revs[r], mirror[r], s)
    BY <2>1 DEF CustomerInv, Mirrors
  <2>6. /\ S = {} => projection[r] = 0
        /\ \A l : LastOf(S, l) => projection[r] = IF l.canonical THEN l.seq ELSE 0
    BY LogTypes, Projected DEF PublisherInv, ProjectionInv
  <2>7. Shown(r) <=> projection[r] # 0 /\ Entitled(may, ChangeAt(projection[r]))
    BY DEF Shown
  <2>8. S \in SUBSET Change
    BY <2>2 DEF Recorded
  <2> HIDE DEF S, s, may
  <2>9. CASE Shown(r)
    <3>1. PICK l \in S : LastOf(S, l)
      BY <2>6, <2>7, <2>8, <2>9, LastExists
    <3>2. l.canonical /\ projection[r] = l.seq
      BY <2>6, <2>7, <2>9, <3>1
    <3>3. Upheld(S, s, may, l)
      BY <2>2, <2>3, <2>7, <2>9, <3>1, <3>2 DEF Upheld, LastOf
    <3>4. \/ mirror[r].seq = l.seq
          \/ mirror[r].seq = 0 /\ mirror[r].at > revs[r][l.rev].src.time
      BY <2>4, <2>5, <3>3 DEF Reflected
    <3>5. TimeOf(ChangeAt(projection[r])) = revs[r][l.rev].src.time
      BY <2>3, <3>1, <3>2 DEF TimeOf
    <3>6. mirror[r].seq = projection[r]
      BY <2>1, <2>9, <3>2, <3>4, <3>5 DEF Buried
    <3>7. QED
      BY <2>9, <3>6 DEF Agrees
  <2>10. CASE ~Shown(r)
    <3> SUFFICES ASSUME Serves(r) PROVE FALSE
      BY <2>10 DEF Agrees
    <3>1. PICK c \in S : c.seq = mirror[r].seq
      BY <2>5 DEF Backed, Serves
    <3>2. c.life = "active"
      BY <2>3, <3>1 DEF Serves
    <3>3. PICK l : Upheld(S, s, may, l)
      BY <2>5, <3>1, <3>2 DEF Reflected
    <3>4. LastOf(S, l) /\ l.canonical /\ Entitled(may, l) /\ l \in S
      BY <2>2, <3>3 DEF Upheld, LastOf
    <3>5. projection[r] = l.seq
      BY <2>6, <3>4
    <3>6. QED
      BY <2>3, <2>7, <2>10, <3>4, <3>5
  <2>11. QED
    BY <2>9, <2>10
<1> HIDE DEF Inv
<1>4. QED
  BY <1>1, <1>2, <1>3, PTL DEF Spec

(* The clock and the epoch stay within their bounds, and a customer buries *)
(* a record at a time of its own clock.                                    *)
WithinBounds ==
    /\ now <= MaxTime \/ now = 1
    /\ scope.epoch <= MaxEpoch + 1
    /\ \A r \in Records : mirror[r].seq = 0 => mirror[r].at <= MaxTime

LEMMA BoundsAreNumbers ==
    /\ MaxTime \in Nat /\ MaxEpoch \in Nat /\ MaxSeq \in Nat
    /\ \A r \in Records : MaxTime >= 1
  BY PublisherAssumption DEF Records, ItemType

LEMMA ReceivedAreChanges ==
    ASSUME PublisherInv, CustomerInv, CompleteDelivery
    PROVE  pull.fetched \cup Remaining(pull) \subseteq Change
<1>1. pull # NoPull /\ log \subseteq Change
  BY DEF CompleteDelivery, PublisherInv, PublisherTyped
<1>2. pull.fetched \subseteq log
  BY <1>1 DEF CustomerInv, PullInv
<1>3. Remaining(pull) \subseteq log
  BY DEF Remaining, SnapshotRows, DeltaRows
<1>4. QED
  BY <1>1, <1>2, <1>3

LEMMA BoundsStep ==
    ASSUME PublisherInv, CustomerInv, WithinBounds, [Next]_vars
    PROVE  WithinBounds'
<1>1. now \in Nat /\ scope.epoch \in Nat /\ \A r \in Records : mirror[r] \in Holdings
  BY DEF CustomerInv, CustomerTyped
<1>2. ASSUME UNCHANGED <<scope, now, mirror>> PROVE WithinBounds'
  BY <1>2 DEF WithinBounds
<1>3. CASE Tick
  BY <1>1, <1>3, BoundsAreNumbers DEF Tick, WithinBounds, customer
<1>4. ASSUME NEW e \in Entitlements, UpdateClient(e) PROVE WithinBounds'
  BY <1>1, <1>4, BoundsAreNumbers DEF UpdateClient, WithinBounds, customer
<1>5. CASE CompleteDelivery
  <2> DEFINE received == pull.fetched \cup Remaining(pull)
             Of(r) == {c \in received : c.record = r}
  <2>1. \A c \in received : c.seq # 0
    BY ReceivedAreChanges, <1>5 DEF Change
  <2>2. /\ UNCHANGED <<scope, now>>
        /\ mirror' = [r \in Records |->
                IF Of(r) # {} THEN Applied(mirror[r], CHOOSE c \in Of(r) : TRUE)
                ELSE IF pull.reset THEN Reconciled(mirror[r]) ELSE mirror[r]]
    BY <1>5 DEF CompleteDelivery
  <2> HIDE DEF received
  <2>3. ASSUME NEW r \in Records, mirror'[r].seq = 0 PROVE mirror'[r].at <= MaxTime
    <3>1. mirror'[r] = mirror[r] \/ mirror'[r] = [seq |-> 0, at |-> now]
      <4> DEFINE x == CHOOSE c \in Of(r) : TRUE
      <4>1. CASE Of(r) # {}
        <5>1. x \in received
          BY <4>1
        <5>2. mirror'[r] = Applied(mirror[r], x)
          BY <2>2, <4>1
        <5>3. x.seq # 0
          BY <2>1, <5>1
        <5> HIDE DEF x
        <5>4. QED
          BY <2>3, <5>2, <5>3 DEF Applied
      <4>2. CASE Of(r) = {}
        BY <2>2, <4>2 DEF Reconciled
      <4>3. QED
        BY <4>1, <4>2
    <3>2. now <= MaxTime
      BY <1>1, BoundsAreNumbers DEF WithinBounds
    <3>3. QED
      BY <2>3, <3>1, <3>2 DEF WithinBounds
  <2>4. QED
    BY <2>2, <2>3 DEF WithinBounds
<1>6. ASSUME NEW o \in Operators,
             \/ \E item \in Items, publish \in BOOLEAN : Import(o, item, publish)
             \/ \E r \in Records : PublishRecord(o, r) \/ RejectRead(o, r)
             \/ Commit(o) \/ Abort(o) \/ RejectWrite(o)
      PROVE  WithinBounds'
  BY <1>2, <1>6 DEF Import, PublishRecord, Begin, RejectRead, Commit, Abort, RejectWrite, customer
<1>7. CASE BeginDelivery \/ NextPage \/ FailDelivery \/ UNCHANGED vars
  BY <1>2, <1>7 DEF BeginDelivery, NextPage, FailDelivery, vars, customer
<1>8. QED
  BY <1>3, <1>4, <1>5, <1>6, <1>7 DEF Next

LEMMA BoundedIsTyped ==
    ASSUME PublisherInv, FeedInv, CustomerInv, WithinBounds
    PROVE  TypeOK
<1>1. PublisherTyped /\ CustomerTyped
  BY DEF PublisherInv, CustomerInv
<1>2. \A r \in Records : \A i \in DOMAIN revs[r] :
          revs[r][i] \in Revision
  BY <1>1 DEF PublisherTyped
<1>3. \A o \in Writing : tx[o].out \subseteq Change /\ tx[o].out \cap log = {}
  <2> SUFFICES ASSUME NEW o \in Writing
               PROVE  tx[o].out \subseteq Change /\ tx[o].out \cap log = {}
    OBVIOUS
  <2>1. o \in Operators
    BY DEF Writing
  <2>2. tx[o] \in Writes
    BY <1>1, <2>1, TxTypes
  <2>3. \A c \in tx[o].out : \A d \in log : d.seq # c.seq
    BY DEF PublisherInv, DraftInv
  <2>4. QED
    BY <2>2, <2>3 DEF Writes
<1>4. MaxCommitted <= MaxSeq /\ MaxCommitted \in Nat
  <2>1. \A c \in log : c.seq <= MaxSeq
    BY <1>1 DEF PublisherTyped, Change
  <2>2. QED
    BY <2>1, LogTypes, BoundsAreNumbers
<1>5. token \in [epoch : 0..(MaxEpoch + 1), through : 0..MaxSeq]
  <2>1. /\ token.epoch \in Nat /\ token.through \in Nat /\ scope.epoch \in Nat
        /\ token.epoch <= MaxEpoch + 1 /\ token.through <= MaxSeq
    BY <1>1, <1>4, BoundsAreNumbers DEF CustomerTyped, WithinBounds
  <2>2. QED
    BY <1>1, <2>1, BoundsAreNumbers DEF CustomerTyped
<1>6. mirror \in [Records -> [seq : 0..MaxSeq, at : 0..MaxTime]]
  <2> SUFFICES ASSUME NEW r \in Records
               PROVE  mirror[r] \in [seq : 0..MaxSeq, at : 0..MaxTime]
    BY <1>1 DEF CustomerTyped
  <2>1. mirror[r] \in Holdings /\ MaxTime \in Nat /\ MaxSeq \in Nat
    BY <1>1, BoundsAreNumbers DEF CustomerTyped
  <2>2. CASE mirror[r].seq = 0
    BY <2>1, <2>2 DEF WithinBounds, Holdings
  <2>3. CASE mirror[r].seq # 0
    <3>1. PICK c \in Own(log, r) : c.seq = mirror[r].seq /\ mirror[r].at = revs[r][c.rev].src.time
      BY <2>3 DEF CustomerInv, Backed
    <3>2. c \in log /\ c.record = r
      BY <3>1 DEF Own
    <3>3. c.rev \in DOMAIN revs[r] /\ c.seq \in 1..MaxSeq
      BY <1>1, <3>2 DEF PublisherInv, LogInv, PublisherTyped, Change
    <3>4. revs[r][c.rev].src \in Items
      BY <1>2, <3>3 DEF Revision
    <3>5. mirror[r].at \in 1..MaxTime
      BY <3>1, <3>4, PublisherAssumption DEF ItemType
    <3>6. QED
      BY <2>1, <3>1, <3>3, <3>5 DEF Holdings
  <2>4. QED
    BY <2>2, <2>3
<1>7. scope.may \in Entitlements /\ scope.epoch \in 1..(MaxEpoch + 1)
  BY <1>1, BoundsAreNumbers DEF CustomerTyped, WithinBounds
<1>8. QED
  BY <1>1, <1>2, <1>3, <1>5, <1>6, <1>7 DEF TypeOK, PublisherTyped, Revision

(* Every row and token keeps its type, and the changes an open write has   *)
(* numbered are not in the log yet (PublisherChangeRow).                   *)
THEOREM TypeCorrect == Spec => []TypeOK
<1> DEFINE Inv == PublisherInv /\ FeedInv /\ CustomerInv /\ WithinBounds
<1>1. Init => Inv
  <2>1. Init => WithinBounds
    BY BoundsAreNumbers DEF Init, WithinBounds
  <2>2. QED
    BY <2>1, PublisherInit, FeedInit, CustomerInit
<1>2. Inv /\ [Next]_vars => Inv'
  BY PublisherStep, FeedStep, CustomerStep, BoundsStep
<1>3. Inv => TypeOK
  BY BoundedIsTyped
<1> HIDE DEF Inv
<1>4. QED
  BY <1>1, <1>2, <1>3, PTL DEF Spec

-----------------------------------------------------------------------------
(* Keys.  The inductive invariant: of two keys the older one is revoked or *)
(* expires within the overlap after the younger one was issued.            *)

KeyRecord(V) == [version : V, born : Int, expires : Int, revoked : BOOLEAN]

KeysInv ==
    /\ clock \in Int
    /\ \E V : keys \in Seq(KeyRecord(V))
    /\ \A i \in DOMAIN keys : keys[i].born <= clock
    /\ \A i, j \in DOMAIN keys : i < j =>
          keys[i].revoked \/ keys[i].expires <= keys[j].born + Overlap

LEMMA KeyTyped ==
    ASSUME NEW V, keys \in Seq(KeyRecord(V)), NEW i \in DOMAIN keys
    PROVE  /\ keys[i] \in KeyRecord(V)
           /\ keys[i].born \in Int /\ keys[i].expires \in Int /\ keys[i].revoked \in BOOLEAN
<1>1. keys[i] \in KeyRecord(V)
  OBVIOUS
<1>2. QED
  BY <1>1 DEF KeyRecord

LEMMA KeysInitInv == Credentials!KeyInit => KeysInv
<1> SUFFICES ASSUME Credentials!KeyInit PROVE KeysInv
  OBVIOUS
<1>1. clock = 0 /\ keys = <<[version |-> 1, born |-> 0, expires |-> 0 + Ttl, revoked |-> FALSE]>>
  BY DEF Credentials!KeyInit, Credentials!Key
<1>2. keys \in Seq(KeyRecord({1}))
  BY <1>1, KeysAssumption DEF KeyRecord
<1>3. QED
  BY <1>1, <1>2 DEF KeysInv

LEMMA RotatedInv ==
    ASSUME KeysInv, NEW version, keys' = Credentials!Rotated(version), clock' = clock
    PROVE  KeysInv'
<1>1. PICK V : keys \in Seq(KeyRecord(V))
  BY DEF KeysInv
<1> DEFINE W == V \cup {version}
           retired == [i \in DOMAIN keys |-> IF i \in Credentials!Active
                                             THEN Credentials!Retired(keys[i]) ELSE keys[i]]
           new == Credentials!Key(version)
<1>2. clock \in Int /\ Overlap \in Nat /\ Ttl \in Nat
  BY KeysAssumption DEF KeysInv
<1>3. new \in KeyRecord(W) /\ new.born = clock /\ new.revoked = FALSE
  BY <1>2 DEF Credentials!Key, KeyRecord
<1>4. ASSUME NEW i \in DOMAIN keys
      PROVE  /\ retired[i] \in KeyRecord(W)
             /\ retired[i].born = keys[i].born /\ retired[i].revoked = keys[i].revoked
             /\ retired[i].expires <= keys[i].expires
             /\ retired[i].revoked \/ retired[i].expires <= clock + Overlap
  <2>1. keys[i] \in KeyRecord(V)
    BY <1>1
  <2>2. CASE i \in Credentials!Active
    BY <1>2, <2>1, <2>2 DEF Credentials!Retired, KeyRecord
  <2>3. CASE i \notin Credentials!Active
    BY <1>2, <2>1, <2>3 DEF Credentials!Active, Credentials!Unexpired, KeyRecord
  <2>4. QED
    BY <2>2, <2>3
<1>5. keys' = Append(retired, new) /\ Len(keys) \in Nat /\ DOMAIN keys = 1..Len(keys)
  BY <1>1 DEF Credentials!Rotated
<1>6. retired \in Seq(KeyRecord(W)) /\ Len(retired) = Len(keys)
  <2>1. retired \in [1..Len(keys) -> KeyRecord(W)]
    <3> HIDE DEF W
    <3>1. QED
      BY <1>4, <1>5
  <2> HIDE DEF retired, W
  <2>2. QED
    BY <1>5, <2>1
<1> HIDE DEF retired, new, W
<1>7. /\ keys' \in Seq(KeyRecord(W)) /\ Len(keys') = Len(keys) + 1
      /\ \A i \in 1..Len(keys) : keys'[i] = retired[i]
      /\ keys'[Len(keys) + 1] = new
  BY <1>3, <1>5, <1>6
<1>8. \A i \in DOMAIN keys : keys[i].born \in Int /\ keys[i].expires \in Int
  BY <1>1, KeyTyped
<1>9. ASSUME NEW i \in DOMAIN keys', NEW j \in DOMAIN keys', i < j
      PROVE  keys'[i].revoked \/ keys'[i].expires <= keys'[j].born + Overlap
  <2>1. i \in DOMAIN keys /\ keys'[i] = retired[i] /\ retired[i].expires \in Int
    BY <1>4, <1>5, <1>7, <1>9 DEF KeyRecord
  <2>2. CASE j = Len(keys) + 1
    BY <1>3, <1>4, <1>7, <2>1, <2>2
  <2>3. CASE j # Len(keys) + 1
    <3>1. j \in DOMAIN keys /\ keys'[j].born = keys[j].born
      BY <1>4, <1>5, <1>7, <2>3
    <3>2. QED
      <4>1. keys[i].revoked \/ keys[i].expires <= keys[j].born + Overlap
        BY <1>9, <2>1, <3>1 DEF KeysInv
      <4>2. retired[i].revoked = keys[i].revoked /\ retired[i].expires <= keys[i].expires
        BY <1>4, <2>1
      <4>3. QED
        BY <1>2, <1>8, <2>1, <3>1, <4>1, <4>2
  <2>4. QED
    BY <2>2, <2>3
<1>10. \A i \in DOMAIN keys' : keys'[i].born <= clock'
  BY <1>2, <1>3, <1>4, <1>5, <1>7 DEF KeysInv
<1>11. QED
  BY <1>2, <1>7, <1>9, <1>10 DEF KeysInv

LEMMA RevokeInv ==
    ASSUME KeysInv, NEW i \in DOMAIN keys, Credentials!Revoke(i)
    PROVE  KeysInv'
<1>1. PICK V : keys \in Seq(KeyRecord(V))
  BY DEF KeysInv
<1>2. keys' \in Seq(KeyRecord(V)) /\ DOMAIN keys' = DOMAIN keys
  <2>1. keys[i] \in KeyRecord(V)
    BY <1>1, KeyTyped
  <2>2. [keys[i] EXCEPT !.revoked = TRUE] \in KeyRecord(V)
    BY <2>1 DEF KeyRecord
  <2>3. keys' = [keys EXCEPT ![i] = [keys[i] EXCEPT !.revoked = TRUE]]
    BY DEF Credentials!Revoke
  <2>4. QED
    BY <1>1, <2>2, <2>3
<1>3. \A j \in DOMAIN keys : /\ keys'[j].born = keys[j].born
                             /\ keys'[j].expires = keys[j].expires
                             /\ keys[j].revoked => keys'[j].revoked
  BY <1>1 DEF Credentials!Revoke, KeyRecord
<1>4. QED
  BY <1>2, <1>3 DEF KeysInv, Credentials!Revoke

LEMMA KeysStep ==
    ASSUME KeysInv, Credentials!KeyNext \/ UNCHANGED credentialVars
    PROVE  KeysInv'
<1>1. CASE Credentials!Advance
  <2>1. PICK V : keys \in Seq(KeyRecord(V))
    BY DEF KeysInv
  <2>2. \A i \in DOMAIN keys : keys[i].born \in Int
    BY <2>1, KeyTyped
  <2>3. QED
    BY <1>1, <2>2 DEF KeysInv, Credentials!Advance
<1>2. CASE Credentials!RotateInstallation
  BY <1>2, RotatedInv DEF Credentials!RotateInstallation
<1>3. CASE Credentials!RotateClient
  BY <1>3, RotatedInv DEF Credentials!RotateClient
<1>4. CASE Credentials!SwitchClient \/ UNCHANGED credentialVars
  BY <1>4 DEF KeysInv, Credentials!SwitchClient, credentialVars
<1>5. QED
  BY <1>1, <1>2, <1>3, <1>4, RevokeInv DEF Credentials!KeyNext

(* A key that a rotation replaced does not authenticate beyond the overlap *)
(* after that rotation (_rotate_installation_key, rotate_client_key and    *)
(* require_publisher_client), for every overlap and lifetime of keys and   *)
(* any number of rotations, revocations and switches.                      *)
THEOREM OldKeysAlwaysExpire == PartsSpec => []OldKeysExpire
<1> DEFINE Inv == part = "keys" => KeysInv
<1>1. PartsInit => Inv
  BY KeysInitInv DEF PartsInit
<1>2. Inv /\ [PartsNext]_allVars => Inv'
  <2>1. ASSUME Inv, [PartsNext]_allVars, part' = "keys" PROVE KeysInv'
    <3>1. part = "keys" /\ (Credentials!KeyNext \/ UNCHANGED credentialVars)
      BY <2>1 DEF PartsNext, allVars
    <3>2. QED
      BY <2>1, <3>1, KeysStep
  <2>2. QED
    BY <2>1
<1>3. Inv => OldKeysExpire
  <2>1. ASSUME KeysInv PROVE Credentials!OldKeysExpire
    <3> SUFFICES ASSUME NEW i \in DOMAIN keys, NEW j \in DOMAIN keys, i < j, Credentials!Works(i)
                 PROVE  clock < keys[j].born + Overlap
      BY DEF Credentials!OldKeysExpire
    <3>1. PICK V : keys \in Seq(KeyRecord(V))
      BY <2>1 DEF KeysInv
    <3>2. /\ clock \in Int /\ Overlap \in Nat
          /\ keys[i].expires \in Int /\ keys[j].born \in Int
      BY <2>1, <3>1, KeysAssumption, KeyTyped DEF KeysInv
    <3>3. keys[i].expires > clock /\ keys[i].expires <= keys[j].born + Overlap
      BY <2>1 DEF KeysInv, Credentials!Works, Credentials!Unexpired
    <3>4. QED
      BY <3>2, <3>3
  <2>2. QED
    BY <2>1 DEF OldKeysExpire
<1> HIDE DEF Inv
<1>4. QED
  BY <1>1, <1>2, <1>3, PTL DEF PartsSpec

-----------------------------------------------------------------------------
(* Import runs.                                                            *)

LEMMA CompletedRunIsNotStale ==
    ASSUME run.status = "completed", Imports!Sweep
    PROVE  FALSE
  BY DEF Imports!Sweep, Imports!Stale

(* Once the batch is released its row says so until a caller takes the key *)
(* up again that had read the row failed or abandoned before: neither an   *)
(* import that outlived its lease nor one that fails afterwards writes     *)
(* over it (import_revisions and _abandon_stale_import_runs).              *)
THEOREM ReleasedAlwaysStaysCompleted == PartsSpec => ReleasedStaysCompleted
<1> DEFINE Typed == part = "imports" => caller = [c \in Callers |-> caller[c]]
<1>1. PartsInit => Typed
  BY DEF PartsInit, Imports!ImportInit
<1>2. Typed /\ [PartsNext]_allVars => Typed'
  <2>1. ASSUME Typed, [PartsNext]_allVars, part' = "imports"
        PROVE  (caller = [c \in Callers |-> caller[c]])'
    <3>1. part = "imports" /\ (Imports!ImportNext \/ UNCHANGED importVars)
      BY <2>1 DEF PartsNext, allVars
    <3>2. QED
      BY <2>1, <3>1 DEF Imports!ImportNext, Imports!Pass, Imports!Sweep, Imports!Look,
         Imports!Take, Imports!Complete, Imports!Fail, Imports!Die, importVars
  <2>2. QED
    BY <2>1
<1>3. Typed /\ [PartsNext]_allVars => [part = "imports" => Imports!KeepsCompleted]_allVars
  <2> SUFFICES ASSUME Typed, PartsNext, part = "imports", released, run.status = "completed",
                      run'.status # "completed"
               PROVE  \E c \in Callers : caller[c].phase = "looked" /\ caller'[c].phase = "imports"
    BY DEF Imports!KeepsCompleted
  <2>1. Imports!ImportNext
    BY DEF PartsNext
  <2>2. run' # run
    OBVIOUS
  <2>3. ~Imports!Pass /\ ~Imports!Sweep
    BY <2>2, CompletedRunIsNotStale DEF Imports!Pass
  <2>4. PICK c \in Callers : Imports!Take(c) \/ Imports!Complete(c) \/ Imports!Fail(c)
    BY <2>1, <2>2, <2>3 DEF Imports!ImportNext, Imports!Look, Imports!Die
  <2>5. ~Imports!Fail(c)
    BY <2>2 DEF Imports!Fail, Imports!Outcome
  <2>6. CASE Imports!Take(c)
    BY <2>2, <2>6 DEF Imports!Take
  <2>7. CASE Imports!Complete(c)
    BY <2>7 DEF Imports!Complete
  <2>8. QED
    BY <2>4, <2>5, <2>6, <2>7
<1> HIDE DEF Typed
<1>4. QED
  BY <1>1, <1>2, <1>3, PTL DEF PartsSpec, ReleasedStaysCompleted
=============================================================================
