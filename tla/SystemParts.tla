---------------------------- MODULE SystemParts -----------------------------
(***************************************************************************)
(* What one system knows, in five modules that share no state: the         *)
(* identities of its assets, its architecture versions, the snapshots of   *)
(* an asset source, the findings that public providers decide and the      *)
(* analyses of attack chains.  A behaviour runs one of them, its part, and *)
(* leaves the others alone.                                                *)
(***************************************************************************)
EXTENDS AssetIdentity, Sequences

CONSTANTS
    Editors, Assets, Endpoints, Signals, MaxVersions,               \* architecture
    Requests, Sources, Initial, MaxRecords, MaxSourcePages, MaxIds, \* sources
    Syncs, Cves, Cpes, MaxNvdPages,                                 \* providers
    Generic, Universe, Behaviours, InitialSets, Goals, MaxUnits, MaxSteps   \* chains

VARIABLES
    part,
    versions, contexts, opened, risk,          \* architecture
    records, nextId, fetch, watch, snapshots,   \* sources
    now, catalog, scored, listing, db, holder, sync, frozen,    \* providers
    units, steps, initial, goal, phase, derived, derivations,   \* chains
    at, changed, stack, memo

Architecture == INSTANCE ArchitectureVersions
SourceSync == INSTANCE AssetSources WITH inventory <- records, MaxPages <- MaxSourcePages
Providers == INSTANCE ProviderSync WITH MaxPages <- MaxNvdPages
Chains == INSTANCE AttackChains WITH contexts <- derived

(* A request asks for finitely many CVEs and CPEs, and no request is the   *)
(* absence of one.                                                         *)
ASSUME ProvidersAssumption ==
    /\ IsFiniteSet(Cves) /\ IsFiniteSet(Cpes)
    /\ Providers!Nobody \notin Syncs

(* The endpoints a synchronisation reads are a fixed list.                 *)
ASSUME SourcesAssumption == IsFiniteSet(Sources) /\ Sources # {} /\ Initial \in Nat

(* A unit has an effect, and a report is read in the classes of behaviour  *)
(* that the vocabulary has.                                                *)
ASSUME ChainsAssumption ==
    /\ \A u \in Universe : u.post \in Seq(Chains!Effects(u)) /\ u.post # <<>>
    /\ \A b \in Behaviours : b.class \in DOMAIN Chains!Conditions(b.object)

identityVars == vars
architectureVars == <<versions, contexts, opened, risk>>
sourceVars == <<records, nextId, fetch, watch, snapshots>>
providerVars == <<now, catalog, scored, listing, db, holder, sync, frozen>>
chainVars == <<units, steps, initial, goal, phase, derived, derivations, at, changed, stack, memo>>

PartsInit ==
    /\ part \in {"identities", "architecture", "sources", "providers", "chains"}
    /\ Init /\ Architecture!ArchInit /\ SourceSync!SourceInit
    /\ Providers!Init /\ Chains!Init

PartsNext ==
    /\ part' = part
    /\ \/ part = "identities" /\ Next
          /\ UNCHANGED <<architectureVars, sourceVars, providerVars, chainVars>>
       \/ part = "architecture" /\ Architecture!ArchNext
          /\ UNCHANGED <<identityVars, sourceVars, providerVars, chainVars>>
       \/ part = "sources" /\ SourceSync!SourceNext
          /\ UNCHANGED <<identityVars, architectureVars, providerVars, chainVars>>
       \/ part = "providers" /\ Providers!Next
          /\ UNCHANGED <<identityVars, architectureVars, sourceVars, chainVars>>
       \/ part = "chains" /\ Chains!Next
          /\ UNCHANGED <<identityVars, architectureVars, sourceVars, providerVars>>

partsVars == <<part, identityVars, architectureVars, sourceVars, providerVars, chainVars>>
PartsSpec == PartsInit /\ [][PartsNext]_partsVars

(* What the analyst has verified is in the risk (ArchitectureVersions).    *)
VerifiedIsApplied == part = "architecture" => Architecture!VerifiedIsApplied

(* A complete snapshot misses a record only when the count hides the edits *)
(* (AssetSources).                                                         *)
MissesOnlyWhenBalanced == part = "sources" => SourceSync!MissesOnlyWhenBalanced

(* The risk of a finding is computed from what the providers said of it    *)
(* last (ProviderSync).                                                    *)
RiskIsCurrent == part = "providers" => Providers!RiskIsCurrent

(* The event loop freezes only when the lock's holder awaits the answer    *)
(* for a further scope (ProviderSync).                                     *)
FreezeNeedsFurtherScope == part = "providers" => Providers!FreezeNeedsFurtherScope

(* Forward chaining derives exactly what some consistent choice of options *)
(* brings about (AttackChains).                                            *)
ForwardIsExact == part = "chains" => Chains!ForwardIsExact

(* A reported path stands alone (AttackChains).                            *)
PathsStandAlone == part = "chains" => Chains!PathsStandAlone

(* A chain without dependency issues happens (AttackChains).               *)
CleanChainHappens == part = "chains" => Chains!CleanChainHappens

(* A report's derived goal has a path (AttackChains).                      *)
ReportReachable == part = "chains" => Chains!ReportReachable
=============================================================================
