---------------------------- MODULE RunLifecycle ----------------------------
(***************************************************************************)
(* What the durable run contract promises to a client that polls           *)
(* GET /api/runs/{run_id}: the states of a run, the moves between them, and *)
(* which of them carry an artifact.  The store (RunStore) implements it.   *)
(***************************************************************************)
CONSTANTS Runs, Artifacts, NoArtifact

VARIABLES
    status,          \* "absent" until the run is created
    artifact,        \* the artifact a completed run shows
    cancelRequested  \* whether a client asked for cancellation

lifecycleVars == <<status, artifact, cancelRequested>>

Moves == {<<"queued", "running">>, <<"queued", "failed">>, <<"queued", "cancelled">>,
          <<"running", "completed">>, <<"running", "failed">>,
          <<"running", "cancelled">>}

LifecycleInit ==
    /\ status = [r \in Runs |-> "absent"]
    /\ artifact = [r \in Runs |-> NoArtifact]
    /\ cancelRequested = [r \in Runs |-> FALSE]

Create(r) ==
    /\ status[r] = "absent"
    /\ status' = [status EXCEPT ![r] = "queued"]
    /\ UNCHANGED <<artifact, cancelRequested>>

AskToCancel(r) ==
    /\ status[r] \in {"queued", "running"}
    /\ cancelRequested' = [cancelRequested EXCEPT ![r] = TRUE]
    /\ UNCHANGED <<status, artifact>>

\* Some runs move together (recovery fails every abandoned run at once); a run
\* completes with a published artifact, unless its cancellation was requested.
Advance(moving) ==
    /\ status' = [r \in Runs |-> IF r \in moving THEN status'[r] ELSE status[r]]
    /\ artifact' = [r \in Runs |-> IF r \in moving THEN artifact'[r] ELSE artifact[r]]
    /\ \A r \in moving :
          /\ <<status[r], status'[r]>> \in Moves
          /\ IF status'[r] = "completed"
             THEN artifact'[r] \in Artifacts /\ ~cancelRequested[r]
             ELSE artifact'[r] = NoArtifact
    /\ UNCHANGED cancelRequested

LifecycleNext ==
    \/ \E r \in Runs : Create(r) \/ AskToCancel(r)
    \/ \E moving \in SUBSET Runs : Advance(moving)

LifecycleSpec == LifecycleInit /\ [][LifecycleNext]_lifecycleVars

=============================================================================
