------------------------ MODULE PublisherCredentials ------------------------
(***************************************************************************)
(* The keys of one installation at the publisher: issued, rotated with an  *)
(* overlap in which the older keys still work, revoked, and expired.       *)
(*                                                                         *)
(* Every operation runs under the row lock of the installation, so each is *)
(* one step.  Time moves in whole units up to MaxClock.                    *)
(***************************************************************************)
EXTENDS Integers, Sequences, FiniteSets

CONSTANTS
    Overlap,    \* settings.credential_overlap_seconds
    Ttl,        \* settings.credential_ttl_seconds
    MaxClock,   \* bound on time
    MaxKeys     \* bound on keys

VARIABLES
    clock,
    enabled,    \* PublisherInstallationRow.enabled
    legacy,     \* token version of the legacy client, 0 when there is none
    keys        \* PublisherClientCredentialRow, in the order they were issued

keyVars == <<clock, enabled, legacy, keys>>

Key(version) == [version |-> version, born |-> clock, expires |-> clock + Ttl, revoked |-> FALSE]

(* create_account_installation, or create_client for one of the legacy     *)
(* clients; a legacy client and its installation are switched together.    *)
CreateInstallation == legacy = 0 /\ enabled \in BOOLEAN
CreateClient == legacy = 1 /\ enabled \in BOOLEAN

KeyInit ==
    /\ clock = 0
    /\ CreateInstallation \/ CreateClient
    /\ keys = <<Key(1)>>

(* require_publisher_client: the keys that authenticate a request.         *)
Unexpired(i) == ~keys[i].revoked /\ keys[i].expires > clock
Works(i) == enabled /\ Unexpired(i)
Active == {i \in DOMAIN keys : Unexpired(i)}

Advance ==
    /\ clock < MaxClock
    /\ clock' = clock + 1
    /\ UNCHANGED <<enabled, legacy, keys>>

(* A rotation ends the keys that are active within the overlap.            *)
(* Mutant: a key that has an expiry keeps it.                              *)
Unlimited(key) == key

Retired(key) ==
    [key EXCEPT !.expires = IF key.expires > clock + Overlap THEN clock + Overlap ELSE @]

Rotated(version) ==
    Append([i \in DOMAIN keys |-> IF i \in Active THEN Retired(keys[i]) ELSE keys[i]],
           Key(version))

(* rotate_installation_key numbers its key after those that are active.    *)
NextVersion ==
    LET versions == {keys[i].version : i \in Active}
    IN  IF versions = {} THEN 1 ELSE 1 + CHOOSE v \in versions : \A w \in versions : w <= v
RotateInstallation ==
    /\ Len(keys) < MaxKeys
    /\ keys' = Rotated(NextVersion)
    /\ UNCHANGED <<clock, enabled, legacy>>

(* rotate_client_key numbers it after the legacy client's last version.    *)
RotateClient ==
    /\ legacy # 0 /\ Len(keys) < MaxKeys
    /\ legacy' = legacy + 1
    /\ keys' = Rotated(legacy + 1)
    /\ UNCHANGED <<clock, enabled>>

(* update_client, which raises the version when something changes.         *)
SwitchClient ==
    /\ legacy # 0 /\ legacy < MaxKeys
    /\ legacy' = legacy + 1
    /\ enabled' = ~enabled
    /\ UNCHANGED <<clock, keys>>

(* revoke_credential: an enabled installation keeps one active key.        *)
Revoke(i) ==
    /\ ~keys[i].revoked
    /\ enabled => Active \ {i} # {}
    /\ keys' = [keys EXCEPT ![i].revoked = TRUE]
    /\ UNCHANGED <<clock, enabled, legacy>>

KeyNext ==
    \/ Advance \/ RotateInstallation \/ RotateClient \/ SwitchClient
    \/ \E i \in DOMAIN keys : Revoke(i)

KeySpec == KeyInit /\ [][KeyNext]_keyVars

-----------------------------------------------------------------------------
(* Properties *)

(* A key that a rotation replaced does not authenticate beyond the overlap *)
(* after that rotation, whichever of the two ways of rotating was used and *)
(* whatever rotations, revocations and switches follow.                    *)
OldKeysExpire ==
    \A i, j \in DOMAIN keys : i < j /\ Works(i) => clock < keys[j].born + Overlap
=============================================================================
