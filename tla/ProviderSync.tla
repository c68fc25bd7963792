---------------------------- MODULE ProviderSync ----------------------------
(***************************************************************************)
(* Synchronisation of one system with the public vulnerability providers:  *)
(* the KEV catalogue, EPSS scores and the CVEs that NVD lists for a CPE.   *)
(*                                                                         *)
(* Every request is a coroutine of the same event loop and one database    *)
(* transaction.  It awaits each answer of its provider, and only then asks *)
(* for the row lock of the system, by a call that blocks the loop's thread *)
(* when another request holds it.  A request with several scopes (chunks   *)
(* of CVEs for EPSS, CPEs for NVD) keeps the lock while it awaits the next *)
(* answer.  EPSS lists the CVEs to ask for before its first await.         *)
(*                                                                         *)
(* A finding is one CVE on one service, a chunk holds one CVE and a page   *)
(* one record.  The providers date their answers by a clock of MaxTime     *)
(* ticks; every edit of theirs is a tick.                                  *)
(***************************************************************************)
EXTENDS Integers, Sequences, SequencesExt

CONSTANTS
    Syncs,          \* requests
    Cves,
    Cpes,           \* observed CPEs
    MaxPages,       \* pages of one CPE that a request reads
    MaxTime         \* bound on the clock

VARIABLES
    now,        \* the providers' clock
    catalog,    \* CVEs in the KEV catalogue and its release
    scored,     \* model date of the EPSS scores
    listing,    \* CVEs NVD lists for each CPE, in the order of its pages
    db,         \* committed findings, risks and watermarks
    holder,     \* request that holds the lock of the system
    sync,       \* what each request has read and written
    frozen      \* the event loop's thread waits for the lock

vars == <<now, catalog, scored, listing, db, holder, sync, frozen>>

Nobody == "nobody"
Kev == <<"kev">>
Score(c) == <<"cve", c>>
Applicability(x) == <<"cpe", x>>
Scopes == {Kev} \cup {Score(c) : c \in Cves} \cup {Applicability(x) : x \in Cpes}

(* IntelligenceSyncStateRow: the last accepted answer of a scope.          *)
NoMark == [at |-> -1, content |-> {}]

(* A finding stays open while a scanner or a CPE's listing reports it.     *)
(* Inputs: what these say of it, which decides its risk.                   *)
Scanner == "scanner"
Inputs(f) == [open |-> f.by # {}, kev |-> f.kev, epss |-> f.epss]

Idle == [kind |-> "idle"]
NoFinding == [found |-> FALSE, by |-> {}, kev |-> FALSE, epss |-> -1]

Init ==
    /\ now = 0
    /\ catalog = [members |-> Cves, at |-> 0]
    /\ scored = 0
    /\ listing = [x \in Cpes |-> SetToSeq(Cves)]
    /\ db = [finding |-> [c \in Cves |-> NoFinding],
             risk |-> [c \in Cves |-> Inputs(NoFinding)],
             mark |-> [s \in Scopes |-> NoMark]]
    /\ holder = Nobody
    /\ sync = [p \in Syncs |-> Idle]
    /\ frozen = FALSE

-----------------------------------------------------------------------------
(* The providers, which the code does not control *)

Tick ==
    /\ now < MaxTime
    /\ now' = now + 1
    /\ \/ UNCHANGED <<catalog, scored, listing>>
       \/ /\ \E c \in Cves : catalog' = [members |-> Cves \ {c}, at |-> now']
          /\ UNCHANGED <<scored, listing>>
       \/ /\ scored' = now'
          /\ UNCHANGED <<catalog, listing>>
       \/ /\ \E x \in Cpes : \E i \in DOMAIN listing[x] :
                listing' = [listing EXCEPT ![x] = RemoveAt(@, i)]
          /\ UNCHANGED <<catalog, scored>>
    /\ UNCHANGED <<db, holder, sync, frozen>>

-----------------------------------------------------------------------------
(* A scan import, from another thread, reports a finding. *)

Import(c) ==
    /\ holder = Nobody
    /\ LET f == [db.finding[c] EXCEPT !.found = TRUE, !.by = @ \cup {Scanner}]
       IN  db' = [db EXCEPT !.finding[c] = f, !.risk[c] = Inputs(f)]
    /\ UNCHANGED <<now, catalog, scored, listing, holder, sync, frozen>>

-----------------------------------------------------------------------------
(* Requests *)

Todo(kind) ==
    CASE kind = "kev" -> <<Kev>>
      [] kind = "epss" -> SetToSeq({Score(c) : c \in {d \in Cves : db.finding[d].found}})
      [] kind = "nvd" -> SetToSeq({Applicability(x) : x \in Cpes})

(* tx: the database as the request that holds the lock has written it.     *)
Nothing == [none |-> TRUE]
Request(kind) ==
    [kind |-> kind, todo |-> Todo(kind), scopes |-> Len(Todo(kind)), pages |-> <<>>,
     answer |-> Nothing, tx |-> Nothing]

(* Mutant: the request locks the system before its first await.            *)
BeginLocked(p, kind) ==
    /\ ~frozen /\ sync[p] = Idle /\ Todo(kind) # <<>>
    /\ IF holder = Nobody
       THEN /\ holder' = p
            /\ sync' = [sync EXCEPT ![p] = [Request(kind) EXCEPT !.tx = db]]
            /\ frozen' = frozen
       ELSE frozen' = TRUE /\ UNCHANGED <<holder, sync>>
    /\ UNCHANGED <<now, catalog, scored, listing, db>>

Begin(p, kind) ==
    /\ ~frozen /\ sync[p] = Idle /\ Todo(kind) # <<>>
    /\ sync' = [sync EXCEPT ![p] = Request(kind)]
    /\ UNCHANGED <<now, catalog, scored, listing, db, holder, frozen>>

(* The provider answers.  NVD sends the listing of a CPE page by page, and *)
(* the date of the whole is that of its latest page.                       *)
Fetched(p) == Len(sync[p].pages)
Page(p, x) == {listing[x][i] : i \in DOMAIN listing[x] \cap {Fetched(p) + 1}}
HasNext(p, x) == Fetched(p) + 1 < Len(listing[x])
Listed(content) == UNION {page[2] : page \in content}
Waits(p) == ~frozen /\ sync[p] # Idle /\ sync[p].answer = Nothing

AnswerPage(p) ==
    /\ Waits(p) /\ sync[p].kind = "nvd"
    /\ LET x == Head(sync[p].todo)[2]
           pages == Append(sync[p].pages, Page(p, x))
       IN  IF HasNext(p, x)
           THEN /\ Len(pages) < MaxPages
                /\ sync' = [sync EXCEPT ![p].pages = pages]
           ELSE sync' = [sync EXCEPT ![p].answer =
                   [at |-> now, content |-> {<<i, pages[i]>> : i \in DOMAIN pages}]]
    /\ UNCHANGED <<now, catalog, scored, listing, db, holder, frozen>>

AnswerCatalog(p) ==
    /\ Waits(p) /\ sync[p].kind = "kev"
    /\ sync' = [sync EXCEPT ![p].answer = [at |-> catalog.at, content |-> catalog.members]]
    /\ UNCHANGED <<now, catalog, scored, listing, db, holder, frozen>>

AnswerScores(p) ==
    /\ Waits(p) /\ sync[p].kind = "epss"
    /\ sync' = [sync EXCEPT ![p].answer = [at |-> scored, content |-> {scored}]]
    /\ UNCHANGED <<now, catalog, scored, listing, db, holder, frozen>>

(* _advance_intelligence_sync_state: strictly newer answers are accepted,  *)
(* and a date is not reused for other content.                             *)
Newer(mark, a) == a.at > mark.at
Conflicts(mark, a) == a.at = mark.at /\ a.content # mark.content

(* apply_kev_batch, apply_epss_batch, apply_nvd_batch with                 *)
(* retire_nvd_snapshot: the finding of c after an accepted answer.         *)
Updated(s, a, c, f) ==
    CASE s = Kev -> [f EXCEPT !.kev = f.found /\ c \in a.content]
      [] s = Score(c) -> IF f.found THEN [f EXCEPT !.epss = a.at] ELSE f
      [] s[1] = "cpe" ->
            IF c \in Listed(a.content)
            THEN [f EXCEPT !.found = TRUE, !.by = @ \cup {s[2]}]
            ELSE [f EXCEPT !.by = @ \ {s[2]}]
      [] OTHER -> f

(* The findings that an accepted answer reassesses.                        *)
(* Mutant: a finding that leaves the catalogue is not reassessed.          *)
ReassessesMembers(s, a, finding) ==
    {c \in Cves :
        CASE s = Kev -> c \in a.content
          [] s[1] = "cve" -> s[2] = c
          [] s[1] = "cpe" -> c \in Listed(a.content) \/ s[2] \in finding[c].by}

Reassesses(s, a, finding) ==
    {c \in Cves :
        CASE s = Kev -> c \in a.content \/ finding[c].kev
          [] s[1] = "cve" -> s[2] = c
          [] s[1] = "cpe" -> c \in Listed(a.content) \/ s[2] \in finding[c].by}

Applied(state, s, a) ==
    LET assessed == Reassesses(s, a, state.finding)
        finding == [c \in Cves |-> Updated(s, a, c, state.finding[c])]
    IN  [finding |-> finding,
         risk |-> [c \in Cves |->
                      IF c \in assessed THEN Inputs(finding[c]) ELSE state.risk[c]],
         mark |-> [state.mark EXCEPT ![s] = a]]

Abandon(p) ==
    /\ sync' = [sync EXCEPT ![p] = Idle]
    /\ holder' = IF holder = p THEN Nobody ELSE holder
    /\ db' = db

(* The coroutine resumes with the answer and applies it without a pause.   *)
(* The lock is taken before the watermark is read, and kept until the      *)
(* request ends.                                                           *)
State(p) == IF holder = p THEN sync[p].tx ELSE db
Complete(p) ==
    /\ ~frozen /\ sync[p] # Idle
    /\ sync[p].answer # Nothing
    /\ holder \in {Nobody, p}
    /\ LET s == Head(sync[p].todo)
           a == sync[p].answer
           before == State(p)
           after == IF Newer(before.mark[s], a) THEN Applied(before, s, a) ELSE before
           rest == Tail(sync[p].todo)
       IN  IF Conflicts(before.mark[s], a)
           THEN Abandon(p)
           ELSE IF rest = <<>>
           THEN /\ db' = after
                /\ holder' = Nobody
                /\ sync' = [sync EXCEPT ![p] = Idle]
           ELSE /\ holder' = p
                /\ sync' = [sync EXCEPT ![p].todo = rest, ![p].pages = <<>>,
                                          ![p].answer = Nothing, ![p].tx = after]
                /\ db' = db
    /\ UNCHANGED <<now, catalog, scored, listing, frozen>>

(* The thread of the loop waits for the lock: no coroutine runs any more.  *)
Block(p) ==
    /\ ~frozen /\ sync[p] # Idle
    /\ sync[p].answer # Nothing
    /\ holder \notin {Nobody, p}
    /\ frozen' = TRUE
    /\ UNCHANGED <<now, catalog, scored, listing, db, holder, sync>>

(* The provider fails, its answer is invalid or dated in the future, or    *)
(* there are more pages than a request reads.                              *)
Fail(p) ==
    /\ ~frozen /\ sync[p] # Idle
    /\ Abandon(p)
    /\ UNCHANGED <<now, catalog, scored, listing, frozen>>

Next ==
    \/ Tick \/ \E c \in Cves : Import(c)
    \/ \E p \in Syncs, kind \in {"kev", "epss", "nvd"} : Begin(p, kind)
    \/ \E p \in Syncs : AnswerPage(p) \/ AnswerCatalog(p) \/ AnswerScores(p) \/ Complete(p) \/ Block(p) \/ Fail(p)

Spec == Init /\ [][Next]_vars

-----------------------------------------------------------------------------
(* Properties *)

(* Whatever the order in which overlapping requests, several scopes of one *)
(* request and scan imports commit, the risk of a finding is computed from *)
(* what the providers said of it last: no step changes an input of a risk  *)
(* without reassessing it.                                                 *)
RiskIsCurrent == \A c \in Cves : db.risk[c] = Inputs(db.finding[c])

(* The loop freezes only when the lock's holder awaits the answer for a    *)
(* further scope: requests with one scope cannot freeze it.                *)
FreezeNeedsFurtherScope ==
    frozen => /\ holder # Nobody
              /\ sync[holder].kind \in {"epss", "nvd"}
              /\ Len(sync[holder].todo) < sync[holder].scopes
=============================================================================
