---------------------------- MODULE JobContract ----------------------------
(***************************************************************************)
(* What the job queue promises whoever enqueues a job, with no worker,     *)
(* attempt, lease or token in sight (docs/background-jobs.md): a submitted *)
(* job is open until it either publishes one output or is closed without   *)
(* one; only a closed job can be reopened, which starts a new round.       *)
(***************************************************************************)
EXTENDS Naturals

CONSTANT Jobs

VARIABLES
    phase,     \* absent, open, published or closed
    round,     \* how often each job was reopened
    published  \* the rounds that published an output

vars == <<phase, round, published>>

Init ==
    /\ phase = [j \in Jobs |-> "absent"]
    /\ round = [j \in Jobs |-> 0]
    /\ published = {}

Submit(j) ==
    /\ phase[j] = "absent"
    /\ phase' = [phase EXCEPT ![j] = "open"]
    /\ UNCHANGED <<round, published>>

Publish(j) ==
    /\ phase[j] = "open"
    /\ <<j, round[j]>> \notin published
    /\ phase' = [phase EXCEPT ![j] = "published"]
    /\ published' = published \cup {<<j, round[j]>>}
    /\ UNCHANGED round

Close(j) ==
    /\ phase[j] = "open"
    /\ phase' = [phase EXCEPT ![j] = "closed"]
    /\ UNCHANGED <<round, published>>

Reopen(j) ==
    /\ phase[j] = "closed"
    /\ phase' = [phase EXCEPT ![j] = "open"]
    /\ round' = [round EXCEPT ![j] = @ + 1]
    /\ UNCHANGED published

Next == \E j \in Jobs : Submit(j) \/ Publish(j) \/ Close(j) \/ Reopen(j)

Spec == Init /\ [][Next]_vars

(* Only a published job has an output in its current round, so a closed    *)
(* one can be reopened without publishing the same round twice.            *)
OnlyPublishedHasOutput ==
    \A j \in Jobs : phase[j] # "published" =>
        \A p \in published : p[1] = j => p[2] < round[j]

(* An open job does not stay open for ever.                                *)
FairSpec == Spec /\ \A j \in Jobs : WF_vars(Publish(j) \/ Close(j))
=============================================================================
