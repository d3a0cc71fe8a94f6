---------------------------- MODULE HistoryWorker ---------------------------
(***************************************************************************)
(* The queue worker and the run executors of srcdiffvisual/runs/worker.py, *)
(* over the run store of RunStore.                                         *)
(*                                                                         *)
(* One worker process (an flock excludes a second) claims a run, starts an *)
(* executor process for it in a process group of its own and monitors it;  *)
(* the executor materializes the history pair, builds and publishes the    *)
(* artifact, and completes or fails the run itself.  Web clients submit    *)
(* runs and request cancellations at any time.  The worker may be asked to *)
(* stop, may crash at any step, and may be started again while the         *)
(* executor of its previous life still runs; an executor may die.          *)
(*                                                                         *)
(* Every step between two reads or writes of shared state (the database,   *)
(* the artifact directories, a process table) is an action of its own.  A  *)
(* run is claimed at most once, so the artifact identifier the worker      *)
(* draws for it is represented by the run: Artifacts is Runs here.  The    *)
(* store's clock stands still: stamps tie, identifiers break the ties, and *)
(* they are drawn in any order, so runs are claimed in every order.        *)
(*                                                                         *)
(* Not here: analysis extensions, which the same loop serves first         *)
(* (HistoryExtensions), collection of published artifacts                  *)
(* (ArtifactCollection), temporary directories other than .staging.        *)
(***************************************************************************)
EXTENDS RunStore

ASSUME ArtifactsAreRuns == Artifacts = Runs
ASSUME CodesOfWorker ==
    {"worker-restarted", "worker-stopped", "worker-process-failed", "build-failed"}
        \subseteq Codes

VARIABLES
    worker,     \* where the worker process is, the run it holds, why it ends it
    executor,   \* per run, where its executor process (the group leader) is
    signalled,  \* runs whose process group was sent SIGTERM
    tools,      \* runs whose group has a native command (srcmove-history, srcdiff) alive
    staging,    \* runs with a directory under .staging
    published,  \* runs whose artifact was moved into the artifact root
    stopping    \* the worker's stop_event

processVars == <<executor, signalled, tools, staging, published>>
workerVars == <<rows, events, now, worker, executor, signalled, tools, staging,
                published, stopping>>

WorkerAt == {"down", "idle", "claimed", "polling", "looking", "terminating", "waiting",
             "removing", "rereading", "tidying", "recording", "raised"}
ExecutorAt == {"none", "booting", "regenerating", "materializing", "materialized",
               "building", "staged", "published", "deciding", "completing",
               "failing", "reporting", "exited"}
Alive == ExecutorAt \ {"none", "exited"}
Reasons == {"cancel", "stop", "died"}

WorkerInit ==
    /\ StoreInit
    /\ worker = [at |-> "down", run |-> NoArtifact, why |-> "died"]
    /\ executor = [r \in Runs |-> "none"]
    /\ signalled = {} /\ tools = {} /\ staging = {} /\ published = {}
    /\ stopping = FALSE

-----------------------------------------------------------------------------
(* Web clients.                                                            *)

Submit(r) ==
    /\ \E f \in Fingerprints, excluded \in SUBSET Having("completed") :
          AcquireNew(r, f, excluded)
    /\ UNCHANGED <<worker, processVars, stopping>>

RequestsCancellation(r) ==
    /\ RequestCancellation(r)
    /\ UNCHANGED <<worker, processVars, stopping>>

-----------------------------------------------------------------------------
(* The worker process.                                                     *)

Goes(at) == worker' = [worker EXCEPT !.at = at]
GoesBecause(at, why) == worker' = [worker EXCEPT !.at = at, !.why = why]

\* Mutant: the abandoned runs of a crashed worker are left running.
WorkerStartsWithoutRecovery ==
    /\ worker.at = "down"
    /\ Goes("idle")
    /\ stopping' = FALSE
    /\ UNCHANGED <<storeVars, processVars>>

\* main: take the lock, recover, enter the loop.
WorkerStarts ==
    /\ worker.at = "down"
    /\ FailAbandonedRuns("worker-restarted")
    /\ Goes("idle")
    /\ stopping' = FALSE
    /\ UNCHANGED processVars

\* The container or process is killed; its executor, in a session of its own,
\* may outlive it.
WorkerCrashes ==
    /\ worker.at \notin {"down", "raised"}
    /\ Goes("down")
    /\ UNCHANGED <<storeVars, processVars, stopping>>

\* SIGTERM or SIGINT sets the stop event.
WorkerIsStopped ==
    /\ worker.at # "down" /\ ~stopping
    /\ stopping' = TRUE
    /\ UNCHANGED <<storeVars, worker, processVars>>

WorkerExits ==
    /\ worker.at = "idle" /\ stopping
    /\ Goes("down")
    /\ UNCHANGED <<storeVars, processVars, stopping>>

Claims ==
    /\ worker.at = "idle" /\ ~stopping
    /\ \/ \E r \in Runs : ClaimNext(r) /\ worker' = [worker EXCEPT !.at = "claimed", !.run = r]
       \/ Having("queued") # {} /\ ClaimNothing /\ UNCHANGED worker
    /\ UNCHANGED <<processVars, stopping>>

SpawnsExecutor ==
    /\ worker.at = "claimed"
    /\ executor' = [executor EXCEPT ![worker.run] = "booting"]
    /\ Goes("polling")
    /\ UNCHANGED <<storeVars, signalled, tools, staging, published, stopping>>

\* process.poll() is None.
FindsExecutorAlive ==
    /\ worker.at = "polling" /\ executor[worker.run] \in Alive
    /\ Goes("looking")
    /\ UNCHANGED <<storeVars, processVars, stopping>>

\* The monitor's read_run, and what it does about what it read.
LooksAtRun ==
    /\ worker.at = "looking"
    /\ IF rows[worker.run].cancelRequested THEN GoesBecause("terminating", "cancel")
       ELSE IF stopping THEN GoesBecause("terminating", "stop")
       ELSE Goes("polling")
    /\ UNCHANGED <<storeVars, processVars, stopping>>

\* killpg(SIGTERM), unless the leader has exited by now.
SendsSigterm ==
    /\ worker.at = "terminating"
    /\ signalled' = IF executor[worker.run] \in Alive
                    THEN signalled \cup {worker.run} ELSE signalled
    /\ Goes("waiting")
    /\ UNCHANGED <<storeVars, executor, tools, staging, published, stopping>>

\* Mutant: the monitor does not wait for the signalled leader.
ReapsWithoutWaiting ==
    /\ worker.at = "waiting"
    /\ Goes("removing")
    /\ UNCHANGED <<storeVars, processVars, stopping>>

ReapsExecutor ==
    /\ worker.at = "waiting" /\ executor[worker.run] = "exited"
    /\ Goes("removing")
    /\ UNCHANGED <<storeVars, processVars, stopping>>

\* Mutant: no escalation to SIGKILL.
NeverKillsGroup == FALSE

\* The leader outlived the timeout: killpg(SIGKILL) takes the whole group.
KillsGroup ==
    /\ worker.at = "waiting" /\ executor[worker.run] \in Alive
    /\ executor' = [executor EXCEPT ![worker.run] = "exited"]
    /\ tools' = tools \ {worker.run}
    /\ Goes("removing")
    /\ UNCHANGED <<storeVars, signalled, staging, published, stopping>>

RemovesStaging ==
    /\ worker.at \in {"removing", "tidying"}
    /\ staging' = staging \ {worker.run}
    /\ Goes(IF worker.at = "removing" THEN "rereading" ELSE "recording")
    /\ UNCHANGED <<storeVars, executor, signalled, tools, published, stopping>>

\* Mutant: the executor is trusted to have ended the run.
RereadsNothing ==
    /\ worker.at = "rereading"
    /\ Goes("idle")
    /\ UNCHANGED <<storeVars, processVars, stopping>>

\* Mutant: the run is ended without reading it again.
RecordsWithoutRereading ==
    /\ worker.at = "rereading"
    /\ Goes("recording")
    /\ UNCHANGED <<storeVars, processVars, stopping>>

\* After a termination the run is read again: the executor may have finished it.
RereadsRun ==
    /\ worker.at = "rereading"
    /\ Goes(IF rows[worker.run].status \in Terminal THEN "idle" ELSE "recording")
    /\ UNCHANGED <<storeVars, processVars, stopping>>

\* Mutant: the unpublished data of a dead executor is not removed.
FindsExitedLeavesStaging ==
    /\ worker.at = "polling" /\ executor[worker.run] = "exited"
    /\ IF rows[worker.run].status \in Terminal THEN Goes("idle")
       ELSE GoesBecause("recording",
                        IF rows[worker.run].cancelRequested THEN "cancel" ELSE "died")
    /\ UNCHANGED <<storeVars, processVars, stopping>>

\* Mutant: an executor that exited is taken to have ended its run.
FindsExitedTrusts ==
    /\ worker.at = "polling" /\ executor[worker.run] = "exited"
    /\ Goes("idle")
    /\ UNCHANGED <<storeVars, processVars, stopping>>

\* The executor exited by itself; one read decides what remains to be done.
FindsExecutorExited ==
    /\ worker.at = "polling" /\ executor[worker.run] = "exited"
    /\ IF rows[worker.run].status \in Terminal THEN Goes("idle")
       ELSE GoesBecause("tidying",
                        IF rows[worker.run].cancelRequested THEN "cancel" ELSE "died")
    /\ UNCHANGED <<storeVars, processVars, stopping>>

\* The transition the worker decided on; if the store refused it, the exception
\* would end the worker process.
RecordsEnd ==
    /\ worker.at = "recording"
    /\ IF CanTransition(worker.run, Active)
       THEN /\ CASE worker.why = "cancel" -> Cancel(worker.run)
                 [] worker.why = "stop" -> Fail(worker.run, "worker-stopped")
                 [] worker.why = "died" -> Fail(worker.run, "worker-process-failed")
            /\ Goes("idle")
       ELSE Goes("raised") /\ UNCHANGED storeVars
    /\ UNCHANGED <<processVars, stopping>>

WorkerStep ==
    \/ Claims \/ SpawnsExecutor \/ FindsExecutorAlive \/ LooksAtRun \/ SendsSigterm
    \/ ReapsExecutor \/ KillsGroup \/ RemovesStaging \/ RereadsRun
    \/ FindsExecutorExited \/ RecordsEnd \/ WorkerExits

-----------------------------------------------------------------------------
(* The executor of run r.                                                  *)

ExecutorGoes(r, from, to) ==
    /\ executor[r] = from
    /\ executor' = [executor EXCEPT ![r] = to]

\* execute: only a running run, and not one already cancelled.
ExecutorStarts(r) ==
    /\ ExecutorGoes(r, "booting",
          IF rows[r].status # "running" \/ rows[r].cancelRequested
          THEN "exited" ELSE "regenerating")
    /\ UNCHANGED <<storeVars, worker, signalled, tools, staging, published, stopping>>

\* append_progress before regenerating, before building and after publishing; it
\* raises once the run is over.  (The build's own messages in between can raise
\* too: that is one of the failures of StagesArtifact.)  The two before the
\* native commands start them.
ReportsProgress(r, from, to) ==
    /\ IF CanProgress(r)
       THEN AppendProgress(r) /\ ExecutorGoes(r, from, to)
       ELSE UNCHANGED storeVars /\ ExecutorGoes(r, from, "failing")
    /\ tools' = IF executor'[r] \in {"materializing", "building"}
                THEN tools \cup {r} ELSE tools
    /\ UNCHANGED <<worker, signalled, staging, published, stopping>>

\* A native command of the group ends: by itself, at its timeout, or signalled.
ToolEnds(r) ==
    /\ r \in tools
    /\ tools' = tools \ {r}
    /\ UNCHANGED <<storeVars, worker, executor, signalled, staging, published, stopping>>

\* srcmove-history's reply is read once the command ended, and may be unusable.
Materializes(r) ==
    /\ r \notin tools
    /\ \E to \in {"materialized", "failing"} : ExecutorGoes(r, "materializing", to)
    /\ UNCHANGED <<storeVars, worker, signalled, tools, staging, published, stopping>>

\* The canonical payload is built, or the build raises; publish_artifact then
\* makes the staging directory.
StagesArtifact(r) ==
    /\ r \notin tools
    /\ \/ ExecutorGoes(r, "building", "failing") /\ UNCHANGED staging
       \/ ExecutorGoes(r, "building", "staged") /\ staging' = staging \cup {r}
    /\ UNCHANGED <<storeVars, worker, signalled, tools, published, stopping>>

\* Mutant: the failure of the move is swallowed.
PublishesOrPretends(r) ==
    /\ staging' = staging \ {r}
    /\ \/ ExecutorGoes(r, "staged", "published") /\ published' = published \cup {r}
       \/ ExecutorGoes(r, "staged", "published") /\ UNCHANGED published
    /\ UNCHANGED <<storeVars, worker, signalled, tools, stopping>>

\* os.replace of the validated directory, or its removal when writing, checking
\* or moving it raised.
PublishesArtifact(r) ==
    /\ staging' = staging \ {r}
    /\ \/ /\ ExecutorGoes(r, "staged", "published")
          /\ r \in staging
          /\ published' = published \cup {r}
       \/ ExecutorGoes(r, "staged", "failing") /\ UNCHANGED published
    /\ UNCHANGED <<storeVars, worker, signalled, tools, stopping>>

\* The read of the cancellation flag just before completing.
ExecutorDecides(r) ==
    /\ ExecutorGoes(r, "deciding", IF rows[r].cancelRequested THEN "exited" ELSE "completing")
    /\ UNCHANGED <<storeVars, worker, signalled, tools, staging, published, stopping>>

ExecutorCompletes(r) ==
    /\ IF CanComplete(r)
       THEN Complete(r, r) /\ ExecutorGoes(r, "completing", "exited")
       ELSE UNCHANGED storeVars /\ ExecutorGoes(r, "completing", "failing")
    /\ UNCHANGED <<worker, signalled, tools, staging, published, stopping>>

\* The except clause of execute reads the flag once more ...
ExecutorHandlesFailure(r) ==
    /\ ExecutorGoes(r, "failing", IF rows[r].cancelRequested THEN "exited" ELSE "reporting")
    /\ UNCHANGED <<storeVars, worker, signalled, tools, staging, published, stopping>>

\* ... and fails the run, unless the run is already over.
ExecutorReportsFailure(r) ==
    /\ ExecutorGoes(r, "reporting", "exited")
    /\ IF CanTransition(r, Active) THEN Fail(r, "build-failed") ELSE UNCHANGED storeVars
    /\ UNCHANGED <<worker, signalled, tools, staging, published, stopping>>

\* SIGTERM raises in the executor, wherever it is.  publish_artifact removes its
\* staging directory on the way out, except in the window before its try block.
\* Native descendants were signalled too but need not be gone yet.
ExecutorIsTerminated(r) ==
    /\ r \in signalled /\ executor[r] \in Alive
    /\ executor' = [executor EXCEPT ![r] = "exited"]
    /\ staging' \in {staging, staging \ {r}}
    /\ UNCHANGED <<storeVars, worker, signalled, tools, published, stopping>>

\* The leader dies alone (out of memory, a fault in native code).
ExecutorDies(r) ==
    /\ executor[r] \in Alive
    /\ executor' = [executor EXCEPT ![r] = "exited"]
    /\ UNCHANGED <<storeVars, worker, signalled, tools, staging, published, stopping>>

ExecutorStep(r) ==
    \/ ExecutorStarts(r)
    \/ ReportsProgress(r, "regenerating", "materializing")
    \/ Materializes(r)
    \/ ReportsProgress(r, "materialized", "building")
    \/ StagesArtifact(r)
    \/ PublishesArtifact(r)
    \/ ReportsProgress(r, "published", "deciding")
    \/ ExecutorDecides(r)
    \/ ExecutorCompletes(r)
    \/ ExecutorHandlesFailure(r)
    \/ ExecutorReportsFailure(r)
    \/ ExecutorIsTerminated(r)

WorkerNext ==
    \/ WorkerStarts \/ WorkerCrashes \/ WorkerIsStopped
    \/ WorkerStep
    \/ \E r \in Runs :
          \/ Submit(r) \/ RequestsCancellation(r)
          \/ ExecutorStep(r) \/ ExecutorDies(r) \/ ToolEnds(r)

WorkerSpec == WorkerInit /\ [][WorkerNext]_workerVars

\* The worker's loop and its monitor never wait for anything but their own
\* timeouts, and a container keeps the process scheduled.
FairWorker == WF_workerVars(WorkerStarts) /\ WF_workerVars(WorkerStep)

\* Every native command has a timeout (run_command), and nothing else blocks.
FairExecutors ==
    \A r \in Runs : WF_workerVars(ExecutorStep(r)) /\ WF_workerVars(ToolEnds(r))

\* The worker is neither stopped nor killed: compose.yaml does not restart it, so
\* progress is only promised while it stays up.
SteadyNext ==
    \/ WorkerStarts \/ WorkerStep
    \/ \E r \in Runs :
          \/ Submit(r) \/ RequestsCancellation(r)
          \/ ExecutorStep(r) \/ ExecutorDies(r) \/ ToolEnds(r)

\* Only the worker is promised to go on: an executor, or a native command under
\* it, may hang for ever.
SteadySpec == WorkerInit /\ [][SteadyNext]_workerVars /\ FairWorker

-----------------------------------------------------------------------------
(* Properties.                                                             *)

WorkerTypeOK ==
    /\ worker \in [at : WorkerAt, run : Runs \cup {NoArtifact}, why : Reasons]
    /\ executor \in [Runs -> ExecutorAt]
    /\ signalled \in SUBSET Runs /\ tools \in SUBSET Runs
    /\ staging \in SUBSET Runs /\ published \in SUBSET Runs
    /\ stopping \in BOOLEAN

\* The worker lock, recovery at start-up and the monitor together mean that two
\* runs are never running at once, not even when a crashed worker's executor
\* survives into the next worker's life.
OneRunAtATime == \A q, r \in Having("running") : q = r

\* A running run is never forgotten: while the worker is up, it is the run the
\* worker holds, at a step from which it will look at it again.
RunningIsSupervised ==
    \A r \in Having("running") :
        worker.at # "down" => worker.at # "idle" /\ worker.run = r

\* The monitor reads a run and then transitions it in another transaction.  No
\* interleaving lets the store refuse that transition, which would raise out of
\* the loop and leave the queue without a worker.
WorkerNeverRaises == worker.at # "raised"

\* completed is recorded only after the artifact directory was moved into place.
CompletedIsPublished ==
    \A r \in Having("completed") : rows[r].artifact = r /\ r \in published

\* cancelled is recorded only when the executor is gone and its unpublished data
\* removed: nothing can appear under .staging for a cancelled run any more.
CancelledIsOver ==
    \A r \in Having("cancelled") : executor[r] \notin Alive /\ r \notin staging

\* Unpublished data outlives its run only when recovery failed the run: every
\* other way of ending it removes the staging directory first.
OnlyRecoveryLeavesStaging ==
    \A r \in staging : rows[r].status \in Terminal =>
                          rows[r].diagnostic = "worker-restarted"

\* Once a request to cancel was accepted, no artifact becomes a result: the run
\* ends without one however the executor's last steps and the request interleave.
CancelledHasNoResult ==
    [][\A r \in Runs : rows[r].cancelRequested /\ rows[r].status \in Active
          => rows'[r].artifact = NoArtifact]_workerVars

\* The contract's words: the worker must terminate and reap the native process
\* group before a run becomes cancelled.
CancelledGroupIsGone == \A r \in Having("cancelled") : r \notin tools

\* While the worker stays up, every submitted run ends, unless an executor or a
\* native command hangs.
RunsEnd ==
    FairExecutors =>
        \A r \in Runs : (rows[r].status \in Active) ~> (rows[r].status \in Terminal)

\* A cancellation accepted for a running run takes effect even if its executor
\* and its native commands hang for ever.
CancellationTakesEffect ==
    \A r \in Runs : (rows[r].status = "running" /\ rows[r].cancelRequested)
                       ~> (rows[r].status \in Terminal)

=============================================================================
