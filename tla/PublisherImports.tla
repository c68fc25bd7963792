-------------------------- MODULE PublisherImports --------------------------
(***************************************************************************)
(* The run row of an import that callers repeat under one idempotency key. *)
(* A caller looks the row up, writes it "running" with a lease and commits *)
(* before it imports the batch, so that the row survives a failure; it     *)
(* never renews the lease.                                                 *)
(*                                                                         *)
(* Only a lookup that meets an expired lease locks the row.  A failed or   *)
(* abandoned row is taken up again by whoever read it, with no check that  *)
(* it still is.                                                            *)
(***************************************************************************)
EXTENDS Integers

CONSTANTS
    Callers,
    Manifests,      \* contents sent under the key
    Lease,          \* settings.import_lease_seconds
    MaxTime,        \* bound on time
    MaxAttempts     \* bound on attempts

VARIABLES
    time,
    run,        \* PublisherImportRunRow of the key
    caller,     \* what each caller has read and does
    rowLock,    \* caller that holds the row's lock between reading and writing
    released    \* the batch's records have been committed

importVars == <<time, run, caller, rowLock, released>>

Free == "free"
NoRun == [status |-> "none"]
Away == [phase |-> "away"]

ImportInit ==
    /\ time = 0
    /\ run = NoRun
    /\ caller = [c \in Callers |-> Away]
    /\ rowLock = Free
    /\ released = FALSE

Pass ==
    /\ time < MaxTime
    /\ time' = time + 1
    /\ UNCHANGED <<run, caller, rowLock, released>>

(* _abandon_stale_import_runs                                              *)
Stale == run.status = "running" /\ run.lease <= time

(* An import under another key abandons the run, too.                      *)
Sweep ==
    /\ Stale /\ rowLock = Free
    /\ run' = [run EXCEPT !.status = "abandoned"]
    /\ UNCHANGED <<time, caller, rowLock, released>>

(* The lookup goes on only when the row is absent or has ended without     *)
(* success, with the same content; otherwise it answers with the earlier   *)
(* result or refuses, and changes nothing.                                 *)
Look(c, manifest) ==
    /\ caller[c] = Away
    /\ Stale => rowLock = Free
    /\ run # NoRun => /\ run.manifest = manifest
                      /\ run.status \in {"failed", "abandoned"} \/ Stale
    /\ rowLock' = IF Stale THEN c ELSE rowLock
    /\ caller' = [caller EXCEPT ![c] =
          [phase |-> "looked", manifest |-> manifest, found |-> run # NoRun,
           attempts |-> IF run = NoRun THEN 0 ELSE run.attempts]]
    /\ UNCHANGED <<time, run, released>>

(* The row is inserted, or written "running" again, and committed.  The    *)
(* insertion fails when another caller has inserted the key.               *)
Take(c) ==
    /\ caller[c].phase = "looked"
    /\ rowLock \in {Free, c}
    /\ caller[c].attempts < MaxAttempts
    /\ IF ~caller[c].found /\ run # NoRun
       THEN caller' = [caller EXCEPT ![c] = Away] /\ run' = run
       ELSE /\ run' = [status |-> "running", manifest |-> caller[c].manifest,
                       lease |-> time + Lease, attempts |-> caller[c].attempts + 1]
            /\ caller' = [caller EXCEPT ![c] = [phase |-> "imports"]]
    /\ rowLock' = Free
    /\ UNCHANGED <<time, released>>

(* The records and the completed row are committed together.               *)
Complete(c) ==
    /\ caller[c].phase = "imports" /\ rowLock = Free
    /\ run' = [run EXCEPT !.status = "completed"]
    /\ released' = TRUE
    /\ caller' = [caller EXCEPT ![c] = Away]
    /\ UNCHANGED <<time, rowLock>>

(* A failure is recorded on a row that is still running, as it reads it    *)
(* after the rollback.                                                     *)
(* Mutant: it is recorded whatever the row says.                           *)
AnyOutcome == [run EXCEPT !.status = "failed"]

Outcome == IF run.status = "running" THEN [run EXCEPT !.status = "failed"] ELSE run

Fail(c) ==
    /\ caller[c].phase = "imports" /\ rowLock = Free
    /\ run' = Outcome
    /\ caller' = [caller EXCEPT ![c] = Away]
    /\ UNCHANGED <<time, rowLock, released>>

(* The process ends; a transaction that is open is rolled back.            *)
Die(c) ==
    /\ caller[c] # Away
    /\ caller' = [caller EXCEPT ![c] = Away]
    /\ rowLock' = IF rowLock = c THEN Free ELSE rowLock
    /\ UNCHANGED <<time, run, released>>

ImportNext ==
    \/ Pass \/ Sweep
    \/ \E c \in Callers :
          \/ \E manifest \in Manifests : Look(c, manifest)
          \/ Take(c) \/ Complete(c) \/ Fail(c) \/ Die(c)

ImportSpec == ImportInit /\ [][ImportNext]_importVars

-----------------------------------------------------------------------------
(* Properties *)

(* Once the batch is released, the row says so until a caller takes it up  *)
(* that had read it failed or abandoned before: neither an execution that  *)
(* outlived its lease nor one that fails afterwards turns it back.         *)
KeepsCompleted ==
    released /\ run.status = "completed" /\ run'.status # "completed"
        => \E c \in Callers : caller[c].phase = "looked" /\ caller'[c].phase = "imports"
ReleasedStaysCompleted == [][KeepsCompleted]_importVars
=============================================================================
