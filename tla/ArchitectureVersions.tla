------------------------ MODULE ArchitectureVersions ------------------------
(***************************************************************************)
(* The architecture versions of one system: observed drafts that scans     *)
(* build, manual versions that analysts save over the version they have    *)
(* open, and the risk contexts of the latest manual version, which the     *)
(* risk of a finding follows.                                              *)
(*                                                                         *)
(* An analyst reads a version in one request and saves in another; every   *)
(* save and every scan runs under the row lock of the system, so each is   *)
(* one step.  A context that names a service row is bound to the row's     *)
(* endpoint, so rows of later scans are not told apart.  Of a graph only   *)
(* the contexts are kept, and only those of the latest manual version.     *)
(***************************************************************************)
EXTENDS Integers, Sequences, FiniteSets

CONSTANTS
    Editors,
    Assets,
    Endpoints,      \* port and protocol
    Signals,        \* verified exposures
    MaxVersions     \* bound on versions

VARIABLES
    versions,   \* ArchitectureSnapshotRow, in the order of their numbers
    contexts,   \* risk contexts of the latest manual version
    opened,     \* version each editor has open, 0 for none
    risk        \* signal the risk of each finding was computed with

archVars == <<versions, contexts, opened, risk>>

Unverified == "unverified"
Finding == Assets \X Endpoints
AnyEndpoint == "any"

(* A context: an asset, all of it or one endpoint, and a signal.           *)
Context == [asset : Assets, at : Endpoints \cup {AnyEndpoint}, signal : Signals]

ArchInit ==
    /\ versions = <<>>
    /\ contexts = {}
    /\ opened = [e \in Editors |-> 0]
    /\ risk = [f \in Finding |-> Unverified]

Numbers == DOMAIN versions
OfLayer(vs, layer) == {n \in DOMAIN vs : vs[n].layer = layer}
LastOf(S) == IF S = {} THEN 0 ELSE CHOOSE n \in S : \A m \in S : m <= n
LatestManual(vs) == LastOf(OfLayer(vs, "manual"))
LatestObserved(vs) == LastOf(OfLayer(vs, "observed"))

(* latest_architecture: the manual version, else the observed one.         *)
LatestArchitecture(vs) ==
    IF LatestManual(vs) # 0 THEN LatestManual(vs) ELSE LatestObserved(vs)

(* _finding_risk_context: the context of the finding's endpoint, else the  *)
(* one of its asset.                                                       *)
SignalOf(C, f) ==
    LET of == {c \in C : c.asset = f[1]}
        exact == {c \in of : c.at = f[2]}
        whole == {c \in of : c.at = AnyEndpoint}
        selected == IF exact # {} THEN exact ELSE whole
    IN  IF selected = {} THEN Unverified ELSE (CHOOSE c \in selected : TRUE).signal

Supersede(vs, n) ==
    IF n # 0 /\ vs[n].status = "draft" THEN [vs EXCEPT ![n].status = "superseded"] ELSE vs

-----------------------------------------------------------------------------
(* GET .../architecture/latest or .../architecture/versions: an editor     *)
(* opens any version.                                                      *)
Open(e) ==
    /\ \E n \in Numbers : opened' = [opened EXCEPT ![e] = n]
    /\ UNCHANGED <<versions, contexts, risk>>

(* The versions a new one may be saved over; 0 stands for none.            *)
Acceptable(base) ==
    IF base = 0 THEN versions = <<>>
    ELSE IF LatestManual(versions) # 0 THEN base = LatestManual(versions)
    ELSE versions[base].layer = "observed"

(* The findings that a save reassesses: those of the assets its contexts   *)
(* name.                                                                   *)
(* Mutant: only those whose endpoint a context names.                      *)
FindingsAt(C) == {f \in Finding : \E c \in C : c.asset = f[1] /\ c.at = f[2]}

Affected(C) == {f \in Finding : \E c \in C : c.asset = f[1]}

Reassessed(C, fs) == [f \in Finding |-> IF f \in fs THEN SignalOf(C, f) ELSE risk[f]]

(* create_manual_architecture_version.  A refused request changes nothing. *)
Save(e, C) ==
    /\ Len(versions) < MaxVersions
    /\ Acceptable(opened[e])
    /\ LET row == [layer |-> "manual", status |-> "draft", base |-> opened[e]]
           after == Append(Supersede(versions, LatestManual(versions)), row)
       IN  /\ versions' = after
           /\ opened' = [opened EXCEPT ![e] = Len(after)]
    /\ contexts' = C
    /\ risk' = Reassessed(C, Affected(C))

(* create_architecture_snapshot, called by the ingestion of a scan, which  *)
(* also assesses the findings it sees.                                     *)
Previous(vs) == LatestObserved(vs)

Scan(seen) ==
    /\ Len(versions) < MaxVersions
    /\ LET row == [layer |-> "observed", status |-> "draft", base |-> 0]
       IN  versions' = Append(Supersede(versions, Previous(versions)), row)
    /\ risk' = Reassessed(contexts, seen)
    /\ UNCHANGED <<contexts, opened>>

(* Any other operation that reassesses a finding.                          *)
Reassess(f) ==
    /\ risk' = Reassessed(contexts, {f})
    /\ UNCHANGED <<versions, contexts, opened>>

(* At most one context for an endpoint, and one for an asset as a whole.   *)
Graphs ==
    {C \in SUBSET Context : \A c, d \in C : c.asset = d.asset /\ c.at = d.at => c = d}

ArchNext ==
    \/ \E e \in Editors : Open(e) \/ \E C \in Graphs : Save(e, C)
    \/ \E seen \in SUBSET Finding : Scan(seen)
    \/ \E f \in Finding : Reassess(f)

ArchSpec == ArchInit /\ [][ArchNext]_archVars

-----------------------------------------------------------------------------
(* Properties *)

(* What the analyst has verified in the latest manual version is in the    *)
(* risk of every finding it applies to, also after a rescan has given the  *)
(* finding another service row.                                            *)
VerifiedIsApplied ==
    \A f \in Finding :
        LET signal == SignalOf(contexts, f)
        IN  signal # Unverified => risk[f] = signal
=============================================================================
