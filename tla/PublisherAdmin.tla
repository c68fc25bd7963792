---------------------------- MODULE PublisherAdmin --------------------------
(***************************************************************************)
(* What the publisher keeps beside each other and never joins in one step: *)
(* the feed, the keys of an installation and the run row of an import.     *)
(* The three share no state, and a behaviour runs one of them, its part.   *)
(***************************************************************************)
EXTENDS PublisherFeed

CONSTANTS
    Overlap, Ttl, MaxClock, MaxKeys,                    \* of the keys
    Callers, Manifests, Lease, MaxLeases, MaxAttempts   \* of the imports

VARIABLES
    part,
    clock, enabled, legacy, keys,               \* keys
    time, run, caller, rowLock, released        \* imports

Credentials == INSTANCE PublisherCredentials
Imports == INSTANCE PublisherImports WITH MaxTime <- MaxLeases

(* credential_overlap_seconds and credential_ttl_seconds are at least 0    *)
(* and 1.                                                                  *)
ASSUME KeysAssumption == Overlap \in Nat /\ Ttl \in Nat \ {0}

credentialVars == <<clock, enabled, legacy, keys>>
importVars == <<time, run, caller, rowLock, released>>

PartsInit ==
    /\ part \in {"feed", "keys", "imports"}
    /\ Init /\ Credentials!KeyInit /\ Imports!ImportInit
    /\ part # "keys" => enabled /\ legacy = 0

PartsNext ==
    /\ part' = part
    /\ \/ part = "feed" /\ Next /\ UNCHANGED <<credentialVars, importVars>>
       \/ part = "keys" /\ Credentials!KeyNext /\ UNCHANGED <<vars, importVars>>
       \/ part = "imports" /\ Imports!ImportNext /\ UNCHANGED <<vars, credentialVars>>

allVars == <<part, vars, credentialVars, importVars>>
PartsSpec == PartsInit /\ [][PartsNext]_allVars

(* A replaced key does not authenticate beyond the overlap                 *)
(* (PublisherCredentials).                                                 *)
OldKeysExpire == part = "keys" => Credentials!OldKeysExpire

(* A released batch keeps its completed row (PublisherImports).            *)
ReleasedStaysCompleted == [][part = "imports" => Imports!KeepsCompleted]_allVars
=============================================================================
