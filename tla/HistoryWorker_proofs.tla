------------------------ MODULE HistoryWorker_proofs ------------------------
(***************************************************************************)
(* Proofs about HistoryWorker, for any set of runs: the worker and its     *)
(* executors use the store only through its operations, and the safety     *)
(* properties of their interplay hold in every interleaving.               *)
(***************************************************************************)
EXTENDS HistoryWorker, RunStore_proofs

\* The program points at which the worker holds a run.
Holding == WorkerAt \ {"down", "idle", "raised"}

\* Nobody has touched a run that was not claimed.
UnclaimedIsUntouched ==
    \A r \in Runs : rows[r].status \in {"absent", "queued"} =>
        executor[r] = "none" /\ r \notin staging

\* The run the worker holds was claimed, and until it spawns an executor there is
\* none that could end it.
HeldWasClaimed ==
    worker.at \in Holding =>
        /\ worker.run \in Runs
        /\ rows[worker.run].status \notin {"absent", "queued"}
        /\ worker.at = "claimed" =>
              rows[worker.run].status = "running" /\ executor[worker.run] = "none"

\* Once it was reaped or found exited, the executor is gone: what the worker reads
\* of the run from then on stays true until the worker itself changes it.
EndedByWorkerAlone ==
    /\ worker.at \in {"removing", "tidying", "rereading", "recording"} =>
          executor[worker.run] = "exited"
    /\ worker.at \in {"rereading", "recording"} => worker.run \notin staging
    /\ worker.at \in {"tidying", "recording"} => rows[worker.run].status = "running"

\* A run that ended by other means than recovery has no executor and no staged data.
EndedIsOver ==
    \A r \in Runs :
        rows[r].status \in Terminal /\ rows[r].diagnostic # "worker-restarted" =>
            executor[r] \notin Alive /\ r \notin staging

\* Staged data belongs to an executor that is about to publish it, or was stopped there.
StagedIsBeingPublished == \A r \in staging : executor[r] \in {"staged", "exited"}

\* An executor that goes to complete its run has published.
PublishesFirst ==
    \A r \in Runs : executor[r] \in {"published", "deciding", "completing"} => r \in published

\* What holds of the runs, wherever the worker is ...
RunsInv ==
    /\ OneRunAtATime
    /\ CompletedIsPublished
    /\ UnclaimedIsUntouched
    /\ EndedIsOver
    /\ StagedIsBeingPublished
    /\ PublishesFirst

\* ... and of the worker's program point.
PlaceInv ==
    /\ RunningIsSupervised
    /\ WorkerNeverRaises
    /\ HeldWasClaimed
    /\ EndedByWorkerAlone

WorkerInv == WorkerTypeOK /\ RunsInv /\ PlaceInv

-----------------------------------------------------------------------------
(* The worker and its executors use the store only through its operations. *)

\* Every step of the composed system is a transaction of the store or leaves the
\* database alone.
LEMMA StepOfStore ==
    ASSUME WorkerTypeOK, HeldWasClaimed, [WorkerNext]_workerVars
    PROVE  [StoreNext]_storeVars
<1>1. CASE WorkerStarts
  BY <1>1, CodesOfWorker DEF WorkerStarts, StoreNext
<1>2. CASE Claims
  BY <1>2 DEF Claims, StoreNext
<1>3. CASE RecordsEnd
  <2>1. worker.why \in Reasons
    BY DEF WorkerTypeOK
  <2>2. worker.run \in Runs
    BY <1>3 DEF RecordsEnd, HeldWasClaimed, Holding, WorkerAt
  <2>3. UNCHANGED storeVars \/ Cancel(worker.run) \/ Fail(worker.run, "worker-stopped")
        \/ Fail(worker.run, "worker-process-failed")
    BY <1>3, <2>1 DEF RecordsEnd, Reasons
  <2>. QED  BY <2>2, <2>3, CodesOfWorker DEF StoreNext
<1>4. ASSUME NEW r \in Runs, ExecutorStep(r)
      PROVE  [StoreNext]_storeVars
  <2>1. CASE ExecutorCompletes(r)
    BY <2>1, ArtifactsAreRuns DEF ExecutorCompletes, StoreNext
  <2>2. CASE ExecutorReportsFailure(r)
    BY <2>2, CodesOfWorker DEF ExecutorReportsFailure, StoreNext
  <2>3. CASE \/ ReportsProgress(r, "regenerating", "materializing")
             \/ ReportsProgress(r, "materialized", "building")
             \/ ReportsProgress(r, "published", "deciding")
    BY <2>3 DEF ReportsProgress, StoreNext
  <2>. QED
    BY <1>4, <2>1, <2>2, <2>3 DEF ExecutorStep, ExecutorStarts, Materializes,
       StagesArtifact, PublishesArtifact, ExecutorDecides, ExecutorHandlesFailure,
       ExecutorIsTerminated
<1>5. ASSUME NEW r \in Runs, Submit(r) \/ RequestsCancellation(r)
      PROVE  [StoreNext]_storeVars
  BY <1>5 DEF Submit, RequestsCancellation, StoreNext
<1>. QED
  BY <1>1, <1>2, <1>3, <1>4, <1>5 DEF WorkerNext, WorkerStep, WorkerCrashes,
     WorkerIsStopped, WorkerExits, SpawnsExecutor, FindsExecutorAlive, LooksAtRun,
     SendsSigterm, ReapsExecutor, KillsGroup, RemovesStaging, RereadsRun,
     FindsExecutorExited, ExecutorDies, ToolEnds, workerVars, storeVars

-----------------------------------------------------------------------------
(* What the operations do to the rows, as far as the worker is concerned.   *)

\* The row of one run is untouched.
Same(q) == rows'[q] = rows[q]

\* A queued run was cancelled while the queue was walked.
SweptAway(q) ==
    /\ rows[q].status = "queued"
    /\ rows'[q] = [rows[q] EXCEPT !.status = "cancelled", !.finished = now]

\* A transition to a final status sets its columns and leaves the other runs alone.
LEMMA FinishEffect ==
    ASSUME StoreTypeOK, NEW r \in Runs, NEW expected, NEW s, NEW a, NEW c,
           Finish(r, expected, s, a, c)
    PROVE  /\ rows[r].status \in expected
           /\ rows'[r].status = s /\ rows'[r].artifact = a /\ rows'[r].diagnostic = c
           /\ \A q \in Runs \ {r} : Same(q)
  BY DEF StoreTypeOK, Row, Finish, Transition, CanTransition, Same

LEMMA InsertEffect ==
    ASSUME StoreTypeOK, NEW r \in Runs, NEW f, NEW excluded, AcquireNew(r, f, excluded)
    PROVE  /\ rows[r].status = "absent" /\ rows'[r].status = "queued"
           /\ \A q \in Runs \ {r} : Same(q)
  BY DEF StoreTypeOK, Row, AcquireNew, InsertRun, QueuedRow, RowOf, Same

LEMMA AskEffect ==
    ASSUME StoreTypeOK, NEW r \in Runs, RequestCancellation(r)
    PROVE  \A q \in Runs : /\ rows'[q].status = rows[q].status
                           /\ rows'[q].artifact = rows[q].artifact
                           /\ rows'[q].diagnostic = rows[q].diagnostic
  BY DEF StoreTypeOK, Row, RequestCancellation

LEMMA ClaimEffect ==
    ASSUME StoreTypeOK, NEW r \in Runs, ClaimNext(r)
    PROVE  /\ rows[r].status = "queued"
           /\ rows'[r] = [rows[r] EXCEPT !.status = "running"]
           /\ \A q \in Runs \ {r} : Same(q) \/ SweptAway(q)
  BY DEF StoreTypeOK, Row, ClaimNext, Wanted, Having, Same, SweptAway

LEMMA ClaimNothingEffect ==
    ASSUME StoreTypeOK, ClaimNothing
    PROVE  \A q \in Runs : Same(q) \/ SweptAway(q)
  BY DEF StoreTypeOK, Row, ClaimNothing, Wanted, Having, Same, SweptAway

LEMMA AbandonEffect ==
    ASSUME StoreTypeOK, NEW code, FailAbandonedRuns(code)
    PROVE  \A q \in Runs :
              IF rows[q].status = "running"
              THEN rows'[q].status = "failed" /\ rows'[q].diagnostic = code
              ELSE Same(q)
  BY DEF StoreTypeOK, Row, FailAbandonedRuns, Having, Same

-----------------------------------------------------------------------------
(* WorkerInv is inductive: a lemma per party, a step per action.           *)

\* Moving on to another program point.
LEMMA GoesFields ==
    ASSUME WorkerTypeOK, NEW at \in WorkerAt, Goes(at)
    PROVE  /\ worker' \in [at : WorkerAt, run : Runs \cup {NoArtifact}, why : Reasons]
           /\ worker'.at = at /\ worker'.run = worker.run
  BY DEF WorkerTypeOK, Goes

LEMMA GoesBecauseFields ==
    ASSUME WorkerTypeOK, NEW at \in WorkerAt, NEW why \in Reasons, GoesBecause(at, why)
    PROVE  /\ worker' \in [at : WorkerAt, run : Runs \cup {NoArtifact}, why : Reasons]
           /\ worker'.at = at /\ worker'.run = worker.run
  BY DEF WorkerTypeOK, GoesBecause

\* The program points of the worker's actions.
LEMMA PointsOfWorker ==
    {"down", "idle", "claimed", "polling", "looking", "terminating", "waiting", "removing",
     "rereading", "tidying", "recording"} \subseteq WorkerAt
  BY DEF WorkerAt

\* What RunsInv speaks of is left alone by a step that only moves the worker.
LEMMA RunsInvFrame ==
    ASSUME RunsInv, UNCHANGED <<rows, executor, staging, published>>
    PROVE  RunsInv'
  BY DEF RunsInv, OneRunAtATime, Having, CompletedIsPublished, UnclaimedIsUntouched,
     EndedIsOver, StagedIsBeingPublished, PublishesFirst

\* What the worker holds is running, or over.
LEMMA HeldIsRunningOrOver ==
    ASSUME StoreTypeOK, HeldWasClaimed, worker.at \in Holding
    PROVE  worker.run \in Runs /\ rows[worker.run].status \in {"running"} \cup Terminal
  BY DEF StoreTypeOK, Row, Statuses, Active, Terminal, HeldWasClaimed

\* The steps of the worker that touch nothing but its own place.
LEMMA WorkerMovesKeepInv ==
    ASSUME StoreTypeOK, WorkerInv, UNCHANGED storeVars,
           \/ WorkerCrashes \/ WorkerIsStopped \/ WorkerExits \/ FindsExecutorAlive
           \/ LooksAtRun \/ ReapsExecutor \/ RereadsRun \/ FindsExecutorExited
    PROVE  WorkerInv'
<1>1. WorkerTypeOK /\ RunsInv /\ PlaceInv
  BY DEF WorkerInv
<1>2. RunsInv'
  BY <1>1, RunsInvFrame DEF storeVars, processVars, WorkerCrashes, WorkerIsStopped,
     WorkerExits, FindsExecutorAlive, LooksAtRun, ReapsExecutor, RereadsRun,
     FindsExecutorExited
<1>3. CASE WorkerCrashes
  <2>1. /\ worker' \in [at : WorkerAt, run : Runs \cup {NoArtifact}, why : Reasons]
        /\ worker'.at = "down" /\ worker'.run = worker.run
    BY <1>1, <1>3, GoesFields, PointsOfWorker DEF WorkerCrashes
  <2>2. WorkerTypeOK'
    BY <1>1, <1>3, <2>1 DEF WorkerTypeOK, WorkerCrashes, processVars
  <2>3. PlaceInv'
    BY <1>1, <1>3, <2>1 DEF WorkerCrashes, storeVars, processVars, PlaceInv,
       RunningIsSupervised, WorkerNeverRaises, HeldWasClaimed, EndedByWorkerAlone,
       Having, Holding, WorkerAt
  <2>. QED  BY <1>2, <2>2, <2>3 DEF WorkerInv
<1>4. CASE WorkerIsStopped
  <2>1. WorkerTypeOK'
    BY <1>1, <1>4 DEF WorkerTypeOK, WorkerIsStopped, processVars
  <2>2. PlaceInv'
    BY <1>1, <1>4 DEF WorkerIsStopped, storeVars, processVars, PlaceInv,
       RunningIsSupervised, WorkerNeverRaises, HeldWasClaimed, EndedByWorkerAlone,
       Having, Holding, WorkerAt
  <2>. QED  BY <1>2, <2>1, <2>2 DEF WorkerInv
<1>5. CASE WorkerExits
  <2>1. /\ worker' \in [at : WorkerAt, run : Runs \cup {NoArtifact}, why : Reasons]
        /\ worker'.at = "down" /\ worker'.run = worker.run
    BY <1>1, <1>5, GoesFields, PointsOfWorker DEF WorkerExits
  <2>2. WorkerTypeOK'
    BY <1>1, <1>5, <2>1 DEF WorkerTypeOK, WorkerExits, processVars
  <2>3. PlaceInv'
    BY <1>1, <1>5, <2>1 DEF WorkerExits, storeVars, processVars, PlaceInv,
       RunningIsSupervised, WorkerNeverRaises, HeldWasClaimed, EndedByWorkerAlone,
       Having, Holding, WorkerAt
  <2>. QED  BY <1>2, <2>2, <2>3 DEF WorkerInv
<1>6. CASE FindsExecutorAlive
  <2>1. /\ worker' \in [at : WorkerAt, run : Runs \cup {NoArtifact}, why : Reasons]
        /\ worker'.at = "looking" /\ worker'.run = worker.run
    BY <1>1, <1>6, GoesFields, PointsOfWorker DEF FindsExecutorAlive
  <2>2. WorkerTypeOK'
    BY <1>1, <1>6, <2>1 DEF WorkerTypeOK, FindsExecutorAlive, processVars
  <2>3. PlaceInv'
    BY <1>1, <1>6, <2>1 DEF FindsExecutorAlive, storeVars, processVars, PlaceInv,
       RunningIsSupervised, WorkerNeverRaises, HeldWasClaimed, EndedByWorkerAlone,
       Having, Holding, WorkerAt
  <2>. QED  BY <1>2, <2>2, <2>3 DEF WorkerInv
<1>7. CASE LooksAtRun
  <2>1. /\ worker' \in [at : WorkerAt, run : Runs \cup {NoArtifact}, why : Reasons]
        /\ worker'.at \in {"terminating", "polling"} /\ worker'.run = worker.run
    BY <1>1, <1>7, GoesFields, GoesBecauseFields, PointsOfWorker DEF LooksAtRun, Reasons
  <2>2. WorkerTypeOK'
    BY <1>1, <1>7, <2>1 DEF WorkerTypeOK, LooksAtRun, processVars
  <2>3. PlaceInv'
    BY <1>1, <1>7, <2>1 DEF LooksAtRun, storeVars, processVars, PlaceInv,
       RunningIsSupervised, WorkerNeverRaises, HeldWasClaimed, EndedByWorkerAlone,
       Having, Holding, WorkerAt
  <2>. QED  BY <1>2, <2>2, <2>3 DEF WorkerInv
<1>8. CASE ReapsExecutor
  <2>1. /\ worker' \in [at : WorkerAt, run : Runs \cup {NoArtifact}, why : Reasons]
        /\ worker'.at = "removing" /\ worker'.run = worker.run
    BY <1>1, <1>8, GoesFields, PointsOfWorker DEF ReapsExecutor
  <2>2. WorkerTypeOK'
    BY <1>1, <1>8, <2>1 DEF WorkerTypeOK, ReapsExecutor, processVars
  <2>3. PlaceInv'
    BY <1>1, <1>8, <2>1 DEF ReapsExecutor, storeVars, processVars, PlaceInv,
       RunningIsSupervised, WorkerNeverRaises, HeldWasClaimed, EndedByWorkerAlone,
       Having, Holding, WorkerAt
  <2>. QED  BY <1>2, <2>2, <2>3 DEF WorkerInv
<1>9. CASE RereadsRun
  <2>1. /\ worker' \in [at : WorkerAt, run : Runs \cup {NoArtifact}, why : Reasons]
        /\ worker'.at \in {"idle", "recording"} /\ worker'.run = worker.run
    BY <1>1, <1>9, GoesFields, PointsOfWorker DEF RereadsRun
  <2>2. WorkerTypeOK'
    BY <1>1, <1>9, <2>1 DEF WorkerTypeOK, RereadsRun, processVars
  <2>3. worker.run \in Runs /\ rows[worker.run].status \in {"running"} \cup Terminal
    BY <1>1, <1>9, HeldIsRunningOrOver DEF PlaceInv, RereadsRun, Holding, WorkerAt
  <2>4. ASSUME rows[worker.run].status \in Terminal PROVE PlaceInv'
    <3>1. worker'.at = "idle"
      BY <1>1, <1>9, <2>4, GoesFields, PointsOfWorker DEF RereadsRun
    <3>. QED
      BY <1>1, <1>9, <2>1, <2>4, <3>1 DEF RereadsRun, Terminal, storeVars, processVars,
         PlaceInv, RunningIsSupervised, WorkerNeverRaises, HeldWasClaimed,
         EndedByWorkerAlone, Having, Holding, WorkerAt
  <2>5. ASSUME rows[worker.run].status = "running" PROVE PlaceInv'
    <3>1. worker'.at = "recording"
      BY <1>1, <1>9, <2>5, GoesFields, PointsOfWorker DEF RereadsRun, Terminal
    <3>. QED
      BY <1>1, <1>9, <2>1, <2>5, <3>1 DEF RereadsRun, storeVars, processVars, PlaceInv,
         RunningIsSupervised, WorkerNeverRaises, HeldWasClaimed, EndedByWorkerAlone,
         Having, Holding, WorkerAt
  <2>. QED  BY <1>2, <2>2, <2>3, <2>4, <2>5 DEF WorkerInv
<1>10. CASE FindsExecutorExited
  <2>1. /\ worker' \in [at : WorkerAt, run : Runs \cup {NoArtifact}, why : Reasons]
        /\ worker'.at \in {"idle", "tidying"} /\ worker'.run = worker.run
    BY <1>1, <1>10, GoesFields, GoesBecauseFields, PointsOfWorker DEF
       FindsExecutorExited, Reasons
  <2>2. WorkerTypeOK'
    BY <1>1, <1>10, <2>1 DEF WorkerTypeOK, FindsExecutorExited, processVars
  <2>3. worker.run \in Runs /\ rows[worker.run].status \in {"running"} \cup Terminal
    BY <1>1, <1>10, HeldIsRunningOrOver DEF PlaceInv, FindsExecutorExited, Holding, WorkerAt
  <2>4. ASSUME rows[worker.run].status \in Terminal PROVE PlaceInv'
    <3>1. worker'.at = "idle"
      BY <1>1, <1>10, <2>4, GoesFields, PointsOfWorker DEF FindsExecutorExited
    <3>. QED
      BY <1>1, <1>10, <2>1, <2>4, <3>1 DEF FindsExecutorExited, Terminal, storeVars,
         processVars, PlaceInv, RunningIsSupervised, WorkerNeverRaises, HeldWasClaimed,
         EndedByWorkerAlone, Having, Holding, WorkerAt
  <2>5. ASSUME rows[worker.run].status = "running" PROVE PlaceInv'
    <3>1. worker'.at = "tidying"
      BY <1>1, <1>10, <2>5, GoesBecauseFields, PointsOfWorker DEF FindsExecutorExited,
         Terminal, Reasons
    <3>. QED
      BY <1>1, <1>10, <2>1, <2>5, <3>1 DEF FindsExecutorExited, storeVars, processVars,
         PlaceInv, RunningIsSupervised, WorkerNeverRaises, HeldWasClaimed,
         EndedByWorkerAlone, Having, Holding, WorkerAt
  <2>. QED  BY <1>2, <2>2, <2>3, <2>4, <2>5 DEF WorkerInv
<1>. QED  BY <1>3, <1>4, <1>5, <1>6, <1>7, <1>8, <1>9, <1>10

\* The steps of the worker that reach into its executor or the staging directory.
LEMMA WorkerHandlesKeepInv ==
    ASSUME StoreTypeOK, WorkerInv, UNCHANGED storeVars,
           SpawnsExecutor \/ SendsSigterm \/ KillsGroup \/ RemovesStaging
    PROVE  WorkerInv'
<1>1. WorkerTypeOK /\ RunsInv /\ PlaceInv
  BY DEF WorkerInv
<1>2. CASE SpawnsExecutor
  <2>1. /\ worker' \in [at : WorkerAt, run : Runs \cup {NoArtifact}, why : Reasons]
        /\ worker'.at = "polling" /\ worker'.run = worker.run
    BY <1>1, <1>2, GoesFields, PointsOfWorker DEF SpawnsExecutor
  <2>2. worker.run \in Runs /\ rows[worker.run].status \in {"running"} \cup Terminal
    BY <1>1, <1>2, HeldIsRunningOrOver DEF PlaceInv, SpawnsExecutor, Holding, WorkerAt
  <2>3. WorkerTypeOK'
    BY <1>1, <1>2, <2>1, <2>2 DEF WorkerTypeOK, SpawnsExecutor, ExecutorAt
  <2>4. RunsInv'
    BY <1>1, <1>2, <2>2 DEF WorkerTypeOK, SpawnsExecutor, storeVars, Alive, ExecutorAt,
       Terminal, PlaceInv, HeldWasClaimed, Holding, WorkerAt, RunsInv, OneRunAtATime,
       Having, CompletedIsPublished, UnclaimedIsUntouched, EndedIsOver,
       StagedIsBeingPublished, PublishesFirst
  <2>5. PlaceInv'
    BY <1>1, <1>2, <2>1, <2>2 DEF WorkerTypeOK, SpawnsExecutor, storeVars, Alive,
       ExecutorAt, PlaceInv, RunningIsSupervised, WorkerNeverRaises, HeldWasClaimed,
       EndedByWorkerAlone, Having, Holding, WorkerAt
  <2>. QED  BY <2>3, <2>4, <2>5 DEF WorkerInv
<1>3. CASE SendsSigterm
  <2>1. /\ worker' \in [at : WorkerAt, run : Runs \cup {NoArtifact}, why : Reasons]
        /\ worker'.at = "waiting" /\ worker'.run = worker.run
    BY <1>1, <1>3, GoesFields, PointsOfWorker DEF SendsSigterm
  <2>2. worker.run \in Runs /\ rows[worker.run].status \in {"running"} \cup Terminal
    BY <1>1, <1>3, HeldIsRunningOrOver DEF PlaceInv, SendsSigterm, Holding, WorkerAt
  <2>3. WorkerTypeOK'
    BY <1>1, <1>3, <2>1, <2>2 DEF WorkerTypeOK, SendsSigterm, ExecutorAt
  <2>4. RunsInv'
    BY <1>1, <1>3, <2>2 DEF WorkerTypeOK, SendsSigterm, storeVars, Alive, ExecutorAt,
       Terminal, PlaceInv, HeldWasClaimed, Holding, WorkerAt, RunsInv, OneRunAtATime,
       Having, CompletedIsPublished, UnclaimedIsUntouched, EndedIsOver,
       StagedIsBeingPublished, PublishesFirst
  <2>5. PlaceInv'
    BY <1>1, <1>3, <2>1, <2>2 DEF WorkerTypeOK, SendsSigterm, storeVars, Alive,
       ExecutorAt, PlaceInv, RunningIsSupervised, WorkerNeverRaises, HeldWasClaimed,
       EndedByWorkerAlone, Having, Holding, WorkerAt
  <2>. QED  BY <2>3, <2>4, <2>5 DEF WorkerInv
<1>4. CASE KillsGroup
  <2>1. /\ worker' \in [at : WorkerAt, run : Runs \cup {NoArtifact}, why : Reasons]
        /\ worker'.at = "removing" /\ worker'.run = worker.run
    BY <1>1, <1>4, GoesFields, PointsOfWorker DEF KillsGroup
  <2>2. worker.run \in Runs /\ rows[worker.run].status \in {"running"} \cup Terminal
    BY <1>1, <1>4, HeldIsRunningOrOver DEF PlaceInv, KillsGroup, Holding, WorkerAt
  <2>3. WorkerTypeOK'
    BY <1>1, <1>4, <2>1, <2>2 DEF WorkerTypeOK, KillsGroup, ExecutorAt
  <2>4. RunsInv'
    BY <1>1, <1>4, <2>2 DEF WorkerTypeOK, KillsGroup, storeVars, Alive, ExecutorAt,
       Terminal, PlaceInv, HeldWasClaimed, Holding, WorkerAt, RunsInv, OneRunAtATime,
       Having, CompletedIsPublished, UnclaimedIsUntouched, EndedIsOver,
       StagedIsBeingPublished, PublishesFirst
  <2>5. PlaceInv'
    BY <1>1, <1>4, <2>1, <2>2 DEF WorkerTypeOK, KillsGroup, storeVars, Alive,
       ExecutorAt, PlaceInv, RunningIsSupervised, WorkerNeverRaises, HeldWasClaimed,
       EndedByWorkerAlone, Having, Holding, WorkerAt
  <2>. QED  BY <2>3, <2>4, <2>5 DEF WorkerInv
<1>5. CASE RemovesStaging
  <2>0. /\ worker.at \in {"removing", "tidying"} /\ staging' = staging \ {worker.run}
        /\ UNCHANGED <<storeVars, executor, signalled, tools, published, stopping>>
        /\ worker.at = "removing" => Goes("rereading")
        /\ worker.at = "tidying" => Goes("recording")
    BY <1>5 DEF RemovesStaging
  <2>1. /\ worker' \in [at : WorkerAt, run : Runs \cup {NoArtifact}, why : Reasons]
        /\ worker.at = "removing" => worker'.at = "rereading"
        /\ worker.at = "tidying" => worker'.at = "recording"
        /\ worker'.run = worker.run
    BY <1>1, <2>0, GoesFields, PointsOfWorker
  <2>2. worker.run \in Runs /\ rows[worker.run].status \in {"running"} \cup Terminal
    BY <1>1, <1>5, HeldIsRunningOrOver DEF PlaceInv, RemovesStaging, Holding, WorkerAt
  <2>3. WorkerTypeOK'
    BY <1>1, <2>0, <2>1, <2>2 DEF WorkerTypeOK
  <2>4. RunsInv'
    BY <1>1, <2>0, <2>2 DEF WorkerTypeOK, storeVars, Alive, ExecutorAt, Terminal,
       PlaceInv, HeldWasClaimed, Holding, WorkerAt, RunsInv, OneRunAtATime, Having,
       CompletedIsPublished, UnclaimedIsUntouched, EndedIsOver, StagedIsBeingPublished,
       PublishesFirst
  <2>5. PlaceInv'
    BY <1>1, <2>0, <2>1, <2>2 DEF WorkerTypeOK, storeVars, Alive, ExecutorAt, PlaceInv,
       RunningIsSupervised, WorkerNeverRaises, HeldWasClaimed, EndedByWorkerAlone,
       Having, Holding, WorkerAt
  <2>. QED  BY <2>3, <2>4, <2>5 DEF WorkerInv
<1>. QED  BY <1>2, <1>3, <1>4, <1>5

\* Recovery: no run is running when the worker's loop begins.
LEMMA RecoveryKeepsInv ==
    ASSUME StoreTypeOK, StoreTypeOK', WorkerInv, WorkerStarts
    PROVE  WorkerInv'
<1>1. WorkerTypeOK /\ RunsInv /\ PlaceInv
  BY DEF WorkerInv
<1>2. \A q \in Runs : IF rows[q].status = "running"
                     THEN rows'[q].status = "failed" /\ rows'[q].diagnostic = "worker-restarted"
                     ELSE Same(q)
  BY AbandonEffect DEF WorkerStarts
<1>3. /\ worker' \in [at : WorkerAt, run : Runs \cup {NoArtifact}, why : Reasons]
      /\ worker'.at = "idle"
  BY <1>1, GoesFields, PointsOfWorker DEF WorkerStarts
<1>4. WorkerTypeOK'
  BY <1>1, <1>3 DEF WorkerTypeOK, WorkerStarts, processVars
<1>5. RunsInv'
  BY <1>1, <1>2 DEF Same, WorkerStarts, processVars, Alive, Terminal, RunsInv,
     OneRunAtATime, Having, CompletedIsPublished, UnclaimedIsUntouched, EndedIsOver,
     StagedIsBeingPublished, PublishesFirst
<1>6. PlaceInv'
  BY <1>1, <1>2, <1>3 DEF Same, PlaceInv, RunningIsSupervised, WorkerNeverRaises,
     HeldWasClaimed, EndedByWorkerAlone, Having, Holding, WorkerAt
<1>. QED  BY <1>4, <1>5, <1>6 DEF WorkerInv

\* Claiming: the one run that starts is the one the worker holds; what was swept
\* away had not been touched.
LEMMA ClaimKeepsInv ==
    ASSUME StoreTypeOK, StoreTypeOK', WorkerInv, Claims
    PROVE  WorkerInv'
<1>1. WorkerTypeOK /\ RunsInv /\ PlaceInv
  BY DEF WorkerInv
<1>2. worker.at = "idle" /\ UNCHANGED <<processVars, stopping>>
  BY DEF Claims
<1>3. UNCHANGED <<executor, signalled, tools, staging, published, stopping>>
  BY <1>2 DEF processVars
<1>4. \A q \in Runs : rows[q].status # "running"
  BY <1>1, <1>2 DEF PlaceInv, RunningIsSupervised, Having
<1>5. CASE Having("queued") # {} /\ ClaimNothing /\ UNCHANGED worker
  <2>1. \A q \in Runs : Same(q) \/ SweptAway(q)
    BY <1>5, ClaimNothingEffect
  <2>2. \A q \in Runs : SweptAway(q) => rows'[q].status = "cancelled"
    BY DEF SweptAway, StoreTypeOK, Row
  <2>3. WorkerTypeOK'
    BY <1>1, <1>3, <1>5 DEF WorkerTypeOK
  <2>4. RunsInv'
    <3>1. OneRunAtATime' /\ CompletedIsPublished'
      BY <1>1, <1>3, <1>4, <2>1, <2>2 DEF Same, RunsInv, OneRunAtATime,
         CompletedIsPublished, Having
    <3>2. UnclaimedIsUntouched'
      BY <1>1, <1>3, <2>1, <2>2 DEF Same, RunsInv, UnclaimedIsUntouched
    <3>3. EndedIsOver'
      BY <1>1, <1>3, <2>1, <2>2 DEF Same, SweptAway, RunsInv, UnclaimedIsUntouched,
         EndedIsOver, Alive, Terminal
    <3>4. StagedIsBeingPublished' /\ PublishesFirst'
      BY <1>1, <1>3 DEF RunsInv, StagedIsBeingPublished, PublishesFirst
    <3>. QED  BY <3>1, <3>2, <3>3, <3>4 DEF RunsInv
  <2>5. PlaceInv'
    BY <1>1, <1>2, <1>3, <1>4, <1>5, <2>1, <2>2 DEF Same, PlaceInv, RunningIsSupervised,
       WorkerNeverRaises, HeldWasClaimed, EndedByWorkerAlone, Having, Holding, WorkerAt
  <2>. QED  BY <2>3, <2>4, <2>5 DEF WorkerInv
<1>6. ASSUME NEW r \in Runs, ClaimNext(r), worker' = [worker EXCEPT !.at = "claimed", !.run = r]
      PROVE  WorkerInv'
  <2>1. /\ rows[r].status = "queued" /\ rows'[r].status = "running"
        /\ \A q \in Runs \ {r} : Same(q) \/ SweptAway(q)
    BY <1>6, ClaimEffect DEF StoreTypeOK, Row
  <2>2. \A q \in Runs : SweptAway(q) => rows'[q].status = "cancelled"
    BY DEF SweptAway, StoreTypeOK, Row
  <2>3. /\ worker' \in [at : WorkerAt, run : Runs \cup {NoArtifact}, why : Reasons]
        /\ worker'.at = "claimed" /\ worker'.run = r
    BY <1>1, <1>6, PointsOfWorker DEF WorkerTypeOK
  <2>4. WorkerTypeOK'
    BY <1>1, <1>3, <2>3 DEF WorkerTypeOK
  <2>5. RunsInv'
    <3>1. OneRunAtATime' /\ CompletedIsPublished'
      BY <1>1, <1>3, <1>4, <2>1, <2>2 DEF Same, RunsInv, OneRunAtATime,
         CompletedIsPublished, Having
    <3>2. UnclaimedIsUntouched'
      BY <1>1, <1>3, <2>1, <2>2 DEF Same, RunsInv, UnclaimedIsUntouched
    <3>3. EndedIsOver'
      BY <1>1, <1>3, <2>1, <2>2 DEF Same, SweptAway, RunsInv, UnclaimedIsUntouched,
         EndedIsOver, Alive, Terminal
    <3>4. StagedIsBeingPublished' /\ PublishesFirst'
      BY <1>1, <1>3 DEF RunsInv, StagedIsBeingPublished, PublishesFirst
    <3>. QED  BY <3>1, <3>2, <3>3, <3>4 DEF RunsInv
  <2>6. PlaceInv'
    BY <1>1, <1>3, <1>4, <2>1, <2>2, <2>3 DEF Same, UnclaimedIsUntouched, RunsInv,
        PlaceInv, RunningIsSupervised, WorkerNeverRaises, HeldWasClaimed,
        EndedByWorkerAlone, Having, Holding, WorkerAt
  <2>. QED  BY <2>4, <2>5, <2>6 DEF WorkerInv
<1>7. \/ \E r \in Runs : ClaimNext(r) /\ worker' = [worker EXCEPT !.at = "claimed", !.run = r]
      \/ Having("queued") # {} /\ ClaimNothing /\ UNCHANGED worker
  BY DEF Claims
<1>. QED  BY <1>5, <1>6, <1>7

\* The worker's last transition is never refused: the run it recorded is running.
LEMMA RecordKeepsInv ==
    ASSUME StoreTypeOK, StoreTypeOK', WorkerInv, RecordsEnd
    PROVE  WorkerInv'
<1>1. WorkerTypeOK /\ RunsInv /\ PlaceInv
  BY DEF WorkerInv
<1>2. worker.at = "recording"
  BY DEF RecordsEnd
<1>3. /\ worker.run \in Runs /\ rows[worker.run].status = "running"
      /\ executor[worker.run] = "exited" /\ worker.run \notin staging
  BY <1>1, <1>2 DEF PlaceInv, HeldWasClaimed, EndedByWorkerAlone, Holding, WorkerAt
<1>4. CanTransition(worker.run, Active)
  BY <1>3 DEF CanTransition, Active
<1>5. worker.why \in Reasons
  BY <1>1 DEF WorkerTypeOK
<1>6. /\ Goes("idle") /\ UNCHANGED <<processVars, stopping>>
      /\ \/ Cancel(worker.run) \/ Fail(worker.run, "worker-stopped")
         \/ Fail(worker.run, "worker-process-failed")
  BY <1>4, <1>5 DEF RecordsEnd, Reasons
<1>7. /\ rows'[worker.run].status \in {"cancelled", "failed"}
      /\ \A q \in Runs \ {worker.run} : Same(q)
  <2>1. CASE Cancel(worker.run)
    BY <1>3, <2>1, FinishEffect DEF Cancel
  <2>2. CASE Fail(worker.run, "worker-stopped")
    BY <1>3, <2>2, FinishEffect DEF Fail
  <2>3. CASE Fail(worker.run, "worker-process-failed")
    BY <1>3, <2>3, FinishEffect DEF Fail
  <2>. QED  BY <1>6, <2>1, <2>2, <2>3
<1>8. /\ worker' \in [at : WorkerAt, run : Runs \cup {NoArtifact}, why : Reasons]
      /\ worker'.at = "idle" /\ worker'.run = worker.run
  BY <1>1, <1>6, GoesFields, PointsOfWorker
<1>9. UNCHANGED <<executor, signalled, tools, staging, published, stopping>>
  BY <1>6 DEF processVars
<1>10. WorkerTypeOK'
  BY <1>1, <1>8, <1>9 DEF WorkerTypeOK
<1>11. RunsInv'
  <2>1. OneRunAtATime' /\ CompletedIsPublished'
    BY <1>1, <1>3, <1>7, <1>9 DEF Same, RunsInv, OneRunAtATime, CompletedIsPublished, Having
  <2>2. UnclaimedIsUntouched' /\ EndedIsOver'
    BY <1>1, <1>3, <1>7, <1>9 DEF Same, RunsInv, UnclaimedIsUntouched, EndedIsOver, Alive
  <2>3. StagedIsBeingPublished' /\ PublishesFirst'
    BY <1>1, <1>9 DEF RunsInv, StagedIsBeingPublished, PublishesFirst
  <2>. QED  BY <2>1, <2>2, <2>3 DEF RunsInv
<1>12. PlaceInv'
  BY <1>1, <1>2, <1>3, <1>7, <1>8, <1>9 DEF Same, PlaceInv, RunningIsSupervised,
     WorkerNeverRaises, HeldWasClaimed, EndedByWorkerAlone, Having, Holding, WorkerAt
<1>. QED  BY <1>10, <1>11, <1>12 DEF WorkerInv

-----------------------------------------------------------------------------
(* The executors.                                                          *)

\* The shape of a step of r's executor: an executor that is alive moves on, or ends;
\* it ends its run only as its last step, with nothing staged, and completes it
\* only with a published artifact.
ExecutorMove(r) ==
    /\ executor[r] \in Alive
    /\ executor' \in [Runs -> ExecutorAt] /\ executor'[r] # "none"
    /\ \A q \in Runs \ {r} : executor'[q] = executor[q] /\ Same(q)
    /\ staging' \subseteq staging \cup {r}
    /\ published \subseteq published' /\ published' \subseteq Runs
    /\ signalled' \subseteq Runs /\ tools' \subseteq Runs
    /\ UNCHANGED <<worker, stopping>>
    /\ executor'[r] \in {"published", "deciding", "completing"} => r \in published'
    /\ r \in staging' => executor'[r] \in {"staged", "exited"}
    /\ \/ Same(r)
       \/ /\ executor'[r] = "exited" /\ r \notin staging'
          /\ \/ rows'[r].status = "failed"
             \/ rows'[r].status = "completed" /\ rows'[r].artifact = r /\ r \in published'

LEMMA ExecutorMoveKeepsInv ==
    ASSUME WorkerInv, NEW r \in Runs, ExecutorMove(r)
    PROVE  WorkerInv'
<1>1. WorkerTypeOK /\ RunsInv /\ PlaceInv
  BY DEF WorkerInv
<1>2. executor[r] \notin {"none", "exited"}
  BY DEF ExecutorMove, Alive
<1>3. /\ rows[r].status \notin {"absent", "queued"}
      /\ rows[r].status \in Terminal => rows[r].diagnostic = "worker-restarted"
  BY <1>1 DEF ExecutorMove, Alive, RunsInv, UnclaimedIsUntouched, EndedIsOver
<1>4. WorkerTypeOK'
  BY <1>1 DEF ExecutorMove, WorkerTypeOK
<1>5. OneRunAtATime' /\ CompletedIsPublished'
  BY <1>1 DEF ExecutorMove, Same, RunsInv, OneRunAtATime, CompletedIsPublished, Having
<1>6. UnclaimedIsUntouched'
  BY <1>1, <1>3 DEF ExecutorMove, Same, RunsInv, UnclaimedIsUntouched
<1>7. EndedIsOver'
  BY <1>1, <1>3 DEF ExecutorMove, Same, RunsInv, EndedIsOver, Alive
<1>8. StagedIsBeingPublished' /\ PublishesFirst'
  BY <1>1 DEF ExecutorMove, RunsInv, StagedIsBeingPublished, PublishesFirst, WorkerTypeOK
<1>9. RunningIsSupervised' /\ WorkerNeverRaises'
  BY <1>1 DEF ExecutorMove, Same, PlaceInv, RunningIsSupervised, WorkerNeverRaises, Having
<1>10. HeldWasClaimed'
  BY <1>1, <1>2, <1>3 DEF ExecutorMove, Same, PlaceInv, HeldWasClaimed
<1>11. EndedByWorkerAlone'
  BY <1>1, <1>2 DEF ExecutorMove, Same, PlaceInv, HeldWasClaimed, EndedByWorkerAlone,
     Holding, WorkerAt
<1>. QED
  BY <1>4, <1>5, <1>6, <1>7, <1>8, <1>9, <1>10, <1>11 DEF WorkerInv, RunsInv, PlaceInv

\* An executor goes from one program point to another.
LEMMA ExecutorGoesFields ==
    ASSUME WorkerTypeOK, NEW r \in Runs, NEW from, NEW to \in ExecutorAt, ExecutorGoes(r, from, to)
    PROVE  /\ executor[r] = from
           /\ executor' \in [Runs -> ExecutorAt] /\ executor'[r] = to
           /\ \A q \in Runs \ {r} : executor'[q] = executor[q]
  BY DEF WorkerTypeOK, ExecutorGoes

\* A step of the executor that writes no row and no directory.
LEMMA QuietMove ==
    ASSUME WorkerInv, NEW r \in Runs, NEW from \in Alive,
           NEW to \in ExecutorAt \ {"none", "staged", "published"},
           ExecutorGoes(r, from, to),
           UNCHANGED <<rows, worker, signalled, staging, published, stopping>>,
           tools' \subseteq Runs,
           from = "staged" => to = "exited",
           to = "deciding" => from = "published",
           to = "completing" => from = "deciding"
    PROVE  ExecutorMove(r)
<1>1. WorkerTypeOK /\ StagedIsBeingPublished /\ PublishesFirst
  BY DEF WorkerInv, RunsInv
<1>2. /\ executor[r] = from /\ from \in Alive
      /\ executor' \in [Runs -> ExecutorAt] /\ executor'[r] = to /\ to # "none"
      /\ \A q \in Runs \ {r} : executor'[q] = executor[q]
  BY <1>1, ExecutorGoesFields
<1>3. r \in staging => executor'[r] = "exited"
  BY <1>1, <1>2 DEF StagedIsBeingPublished, Alive
<1>4. to \in {"published", "deciding", "completing"} => r \in published
  BY <1>1, <1>2 DEF PublishesFirst
<1>. QED
  BY <1>1, <1>2, <1>3, <1>4 DEF ExecutorMove, Same, WorkerTypeOK

\* Every step of an executor, and its death, has that shape.
LEMMA ExecutorStepMoves ==
    ASSUME StoreTypeOK, WorkerInv, NEW r \in Runs, ExecutorStep(r) \/ ExecutorDies(r)
    PROVE  ExecutorMove(r)
<1>1. WorkerTypeOK /\ StagedIsBeingPublished /\ PublishesFirst
  BY DEF WorkerInv, RunsInv
<1>2. tools \subseteq Runs /\ tools \cup {r} \subseteq Runs
  BY <1>1 DEF WorkerTypeOK
<1>3. CASE ExecutorStarts(r)
  <2>1. \E to \in {"exited", "regenerating"} :
           /\ ExecutorGoes(r, "booting", to)
           /\ UNCHANGED <<rows, worker, signalled, tools, staging, published, stopping>>
    BY <1>3 DEF ExecutorStarts, storeVars
  <2>. QED  BY <1>2, <2>1, QuietMove DEF Alive, ExecutorAt
<1>4. ASSUME NEW from \in {"regenerating", "materialized", "published"},
             NEW to \in {"materializing", "building", "deciding"},
             to = "deciding" => from = "published",
             ReportsProgress(r, from, to)
      PROVE  ExecutorMove(r)
  <2>1. /\ rows' = rows
        /\ ExecutorGoes(r, from, to) \/ ExecutorGoes(r, from, "failing")
        /\ tools' \in {tools, tools \cup {r}}
        /\ UNCHANGED <<worker, signalled, staging, published, stopping>>
    BY <1>4 DEF ReportsProgress, AppendProgress, storeVars
  <2>. QED  BY <1>2, <1>4, <2>1, QuietMove DEF Alive, ExecutorAt
<1>5. CASE Materializes(r)
  <2>1. \E to \in {"materialized", "failing"} :
           /\ ExecutorGoes(r, "materializing", to)
           /\ UNCHANGED <<rows, worker, signalled, tools, staging, published, stopping>>
    BY <1>5 DEF Materializes, storeVars
  <2>. QED  BY <1>2, <2>1, QuietMove DEF Alive, ExecutorAt
<1>6. CASE StagesArtifact(r)
  <2>1. CASE ExecutorGoes(r, "building", "failing") /\ UNCHANGED staging
    <3>1. UNCHANGED <<rows, worker, signalled, tools, staging, published, stopping>>
      BY <1>6, <2>1 DEF StagesArtifact, storeVars
    <3>. QED  BY <1>2, <2>1, <3>1, QuietMove DEF Alive, ExecutorAt
  <2>2. CASE ExecutorGoes(r, "building", "staged") /\ staging' = staging \cup {r}
    <3>1. /\ executor[r] = "building"
          /\ executor' \in [Runs -> ExecutorAt] /\ executor'[r] = "staged"
          /\ \A q \in Runs \ {r} : executor'[q] = executor[q]
      BY <1>1, <2>2, ExecutorGoesFields DEF ExecutorAt
    <3>2. UNCHANGED <<rows, worker, signalled, tools, published, stopping>>
      BY <1>6 DEF StagesArtifact, storeVars
    <3>. QED
      BY <1>1, <2>2, <3>1, <3>2 DEF ExecutorMove, Same, WorkerTypeOK, Alive, ExecutorAt
  <2>. QED  BY <1>6, <2>1, <2>2 DEF StagesArtifact
<1>7. CASE PublishesArtifact(r)
  <2>1. PICK to \in {"published", "failing"} :
           /\ ExecutorGoes(r, "staged", to)
           /\ published' = IF to = "published" THEN published \cup {r} ELSE published
           /\ staging' = staging \ {r}
           /\ UNCHANGED <<rows, worker, signalled, tools, stopping>>
    BY <1>7 DEF PublishesArtifact, storeVars
  <2>2. /\ executor[r] = "staged"
        /\ executor' \in [Runs -> ExecutorAt] /\ executor'[r] = to
        /\ \A q \in Runs \ {r} : executor'[q] = executor[q]
    BY <1>1, <2>1, ExecutorGoesFields DEF ExecutorAt
  <2>. QED
    BY <1>1, <2>1, <2>2 DEF ExecutorMove, Same, WorkerTypeOK, Alive, ExecutorAt
<1>8. CASE ExecutorDecides(r)
  <2>1. \E to \in {"exited", "completing"} :
           /\ ExecutorGoes(r, "deciding", to)
           /\ UNCHANGED <<rows, worker, signalled, tools, staging, published, stopping>>
    BY <1>8 DEF ExecutorDecides, storeVars
  <2>. QED  BY <1>2, <2>1, QuietMove DEF Alive, ExecutorAt
<1>9. CASE ExecutorCompletes(r)
  <2>1. UNCHANGED <<worker, signalled, tools, staging, published, stopping>>
    BY <1>9 DEF ExecutorCompletes
  <2>2. CASE CanComplete(r)
    <3>1. Complete(r, r) /\ ExecutorGoes(r, "completing", "exited")
      BY <1>9, <2>2 DEF ExecutorCompletes
    <3>2. /\ rows'[r].status = "completed" /\ rows'[r].artifact = r
          /\ \A q \in Runs \ {r} : Same(q)
      BY <3>1, FinishEffect DEF Complete
    <3>3. /\ executor[r] = "completing"
          /\ executor' \in [Runs -> ExecutorAt] /\ executor'[r] = "exited"
          /\ \A q \in Runs \ {r} : executor'[q] = executor[q]
      BY <1>1, <3>1, ExecutorGoesFields DEF ExecutorAt
    <3>4. r \in published /\ r \notin staging
      BY <1>1, <3>3 DEF PublishesFirst, StagedIsBeingPublished
    <3>. QED
      BY <1>1, <2>1, <3>2, <3>3, <3>4 DEF ExecutorMove, WorkerTypeOK, Alive, ExecutorAt
  <2>3. CASE ~CanComplete(r)
    <3>1. UNCHANGED rows /\ ExecutorGoes(r, "completing", "failing")
      BY <1>9, <2>3 DEF ExecutorCompletes, storeVars
    <3>. QED  BY <1>2, <2>1, <3>1, QuietMove DEF Alive, ExecutorAt
  <2>. QED  BY <2>2, <2>3
<1>10. CASE ExecutorHandlesFailure(r)
  <2>1. \E to \in {"exited", "reporting"} :
           /\ ExecutorGoes(r, "failing", to)
           /\ UNCHANGED <<rows, worker, signalled, tools, staging, published, stopping>>
    BY <1>10 DEF ExecutorHandlesFailure, storeVars
  <2>. QED  BY <1>2, <2>1, QuietMove DEF Alive, ExecutorAt
<1>11. CASE ExecutorReportsFailure(r)
  <2>1. /\ ExecutorGoes(r, "reporting", "exited")
        /\ UNCHANGED <<worker, signalled, tools, staging, published, stopping>>
    BY <1>11 DEF ExecutorReportsFailure
  <2>2. CASE CanTransition(r, Active)
    <3>1. Fail(r, "build-failed")
      BY <1>11, <2>2 DEF ExecutorReportsFailure
    <3>2. rows'[r].status = "failed" /\ \A q \in Runs \ {r} : Same(q)
      BY <3>1, FinishEffect DEF Fail
    <3>3. /\ executor[r] = "reporting"
          /\ executor' \in [Runs -> ExecutorAt] /\ executor'[r] = "exited"
          /\ \A q \in Runs \ {r} : executor'[q] = executor[q]
      BY <1>1, <2>1, ExecutorGoesFields DEF ExecutorAt
    <3>4. r \notin staging
      BY <1>1, <3>3 DEF StagedIsBeingPublished
    <3>. QED
      BY <1>1, <2>1, <3>2, <3>3, <3>4 DEF ExecutorMove, WorkerTypeOK, Alive, ExecutorAt
  <2>3. CASE ~CanTransition(r, Active)
    <3>1. UNCHANGED rows
      BY <1>11, <2>3 DEF ExecutorReportsFailure, storeVars
    <3>. QED  BY <1>2, <2>1, <3>1, QuietMove DEF Alive, ExecutorAt
  <2>. QED  BY <2>2, <2>3
<1>12. CASE ExecutorIsTerminated(r) \/ ExecutorDies(r)
  <2>1. /\ executor[r] \in Alive /\ executor' = [executor EXCEPT ![r] = "exited"]
        /\ staging' \in {staging, staging \ {r}}
        /\ UNCHANGED <<rows, worker, signalled, tools, published, stopping>>
    BY <1>12 DEF ExecutorIsTerminated, ExecutorDies, storeVars
  <2>2. /\ executor' \in [Runs -> ExecutorAt] /\ executor'[r] = "exited"
        /\ \A q \in Runs \ {r} : executor'[q] = executor[q]
    BY <1>1, <2>1 DEF WorkerTypeOK, ExecutorAt
  <2>. QED
    BY <1>1, <2>1, <2>2 DEF ExecutorMove, Same, WorkerTypeOK
<1>. QED
  BY <1>3, <1>4, <1>5, <1>6, <1>7, <1>8, <1>9, <1>10, <1>11, <1>12 DEF ExecutorStep

-----------------------------------------------------------------------------
(* Web clients, native commands, and the whole system.                     *)

\* A client's transaction: it inserts a queued run or raises a cancellation flag.
LEMMA ClientKeepsInv ==
    ASSUME StoreTypeOK, WorkerInv, NEW r \in Runs, Submit(r) \/ RequestsCancellation(r)
    PROVE  WorkerInv'
<1>1. WorkerTypeOK /\ RunsInv /\ PlaceInv
  BY DEF WorkerInv
<1>2. UNCHANGED <<worker, executor, signalled, tools, staging, published, stopping>>
  BY DEF Submit, RequestsCancellation, processVars
<1>3. \A q \in Runs :
         \/ rows[q].status = "absent" /\ rows'[q].status = "queued"
         \/ /\ rows'[q].status = rows[q].status
            /\ rows'[q].artifact = rows[q].artifact
            /\ rows'[q].diagnostic = rows[q].diagnostic
  <2>1. CASE Submit(r)
    <3>1. PICK f \in Fingerprints, excluded \in SUBSET Having("completed") :
             AcquireNew(r, f, excluded)
      BY <2>1 DEF Submit
    <3>. QED  BY <3>1, InsertEffect DEF Same
  <2>2. CASE RequestsCancellation(r)
    BY <2>2, AskEffect DEF RequestsCancellation
  <2>. QED  BY <2>1, <2>2
<1>4. WorkerTypeOK'
  BY <1>1, <1>2 DEF WorkerTypeOK
<1>5. OneRunAtATime' /\ CompletedIsPublished'
  BY <1>1, <1>2, <1>3 DEF RunsInv, OneRunAtATime, CompletedIsPublished, Having
<1>6. UnclaimedIsUntouched' /\ EndedIsOver'
  BY <1>1, <1>2, <1>3 DEF RunsInv, UnclaimedIsUntouched, EndedIsOver, Terminal
<1>7. StagedIsBeingPublished' /\ PublishesFirst'
  BY <1>1, <1>2 DEF RunsInv, StagedIsBeingPublished, PublishesFirst
<1>8. RunningIsSupervised' /\ WorkerNeverRaises'
  BY <1>1, <1>2, <1>3 DEF PlaceInv, RunningIsSupervised, WorkerNeverRaises, Having
<1>9. HeldWasClaimed'
  BY <1>1, <1>2, <1>3 DEF PlaceInv, HeldWasClaimed
<1>10. EndedByWorkerAlone'
  BY <1>1, <1>2, <1>3 DEF PlaceInv, HeldWasClaimed, EndedByWorkerAlone, Holding, WorkerAt
<1>. QED
  BY <1>4, <1>5, <1>6, <1>7, <1>8, <1>9, <1>10 DEF WorkerInv, RunsInv, PlaceInv

\* A native command that ends touches nothing the invariant speaks of.
LEMMA ToolKeepsInv ==
    ASSUME WorkerInv, NEW r \in Runs, ToolEnds(r)
    PROVE  WorkerInv'
<1>1. UNCHANGED <<rows, worker, executor, signalled, staging, published, stopping>>
      /\ tools' \subseteq tools
  BY DEF ToolEnds, storeVars
<1>2. RunsInv'
  BY <1>1, RunsInvFrame DEF WorkerInv
<1>3. WorkerTypeOK'
  BY <1>1 DEF WorkerInv, WorkerTypeOK
<1>4. PlaceInv'
  BY <1>1 DEF WorkerInv, PlaceInv, RunningIsSupervised, WorkerNeverRaises, HeldWasClaimed,
     EndedByWorkerAlone, Having
<1>. QED  BY <1>2, <1>3, <1>4 DEF WorkerInv

\* The system starts with nothing submitted and no worker.
LEMMA WorkerInitEstablishesInv ==
    ASSUME WorkerInit
    PROVE  StoreInv /\ WorkerInv
<1>1. StoreInv
  BY StoreInitEstablishesInv DEF WorkerInit
<1>2. /\ \A r \in Runs : rows[r].status = "absent" /\ executor[r] = "none"
      /\ worker = [at |-> "down", run |-> NoArtifact, why |-> "died"]
      /\ signalled = {} /\ tools = {} /\ staging = {} /\ published = {} /\ stopping = FALSE
  BY DEF WorkerInit, StoreInit, AbsentRow, RowOf
<1>3. WorkerTypeOK
  <2>1. executor \in [Runs -> ExecutorAt]
    BY DEF WorkerInit, ExecutorAt
  <2>2. worker \in [at : WorkerAt, run : Runs \cup {NoArtifact}, why : Reasons]
    BY <1>2, PointsOfWorker DEF Reasons
  <2>. QED  BY <1>2, <2>1, <2>2 DEF WorkerTypeOK
<1>4. RunsInv
  BY <1>2 DEF RunsInv, OneRunAtATime, Having, CompletedIsPublished, UnclaimedIsUntouched,
     EndedIsOver, StagedIsBeingPublished, PublishesFirst, Terminal
<1>5. PlaceInv
  BY <1>2 DEF PlaceInv, RunningIsSupervised, WorkerNeverRaises, HeldWasClaimed,
     EndedByWorkerAlone, Having, Holding
<1>. QED  BY <1>1, <1>3, <1>4, <1>5 DEF WorkerInv

\* Both invariants together are inductive.
LEMMA WorkerStepKeepsInv ==
    ASSUME StoreInv, WorkerInv, [WorkerNext]_workerVars
    PROVE  StoreInv' /\ WorkerInv'
<1>1. [StoreNext]_storeVars
  BY StepOfStore DEF WorkerInv, PlaceInv
<1>2. StoreInv'
  BY <1>1, StoreStepKeepsInv
<1>3. StoreTypeOK /\ StoreTypeOK'
  BY <1>2 DEF StoreInv
<1>4. CASE WorkerStarts
  BY <1>2, <1>3, <1>4, RecoveryKeepsInv
<1>5. CASE \/ WorkerCrashes \/ WorkerIsStopped \/ WorkerExits \/ FindsExecutorAlive
           \/ LooksAtRun \/ ReapsExecutor \/ RereadsRun \/ FindsExecutorExited
  <2>1. UNCHANGED storeVars
    BY <1>5 DEF WorkerCrashes, WorkerIsStopped, WorkerExits, FindsExecutorAlive, LooksAtRun,
       ReapsExecutor, RereadsRun, FindsExecutorExited
  <2>. QED  BY <1>2, <1>3, <1>5, <2>1, WorkerMovesKeepInv
<1>6. CASE SpawnsExecutor \/ SendsSigterm \/ KillsGroup \/ RemovesStaging
  <2>1. UNCHANGED storeVars
    BY <1>6 DEF SpawnsExecutor, SendsSigterm, KillsGroup, RemovesStaging
  <2>. QED  BY <1>2, <1>3, <1>6, <2>1, WorkerHandlesKeepInv
<1>7. CASE Claims
  BY <1>2, <1>3, <1>7, ClaimKeepsInv
<1>8. CASE RecordsEnd
  BY <1>2, <1>3, <1>8, RecordKeepsInv
<1>9. ASSUME NEW r \in Runs, ExecutorStep(r) \/ ExecutorDies(r)
      PROVE  WorkerInv'
  BY <1>3, <1>9, ExecutorStepMoves, ExecutorMoveKeepsInv
<1>10. ASSUME NEW r \in Runs, Submit(r) \/ RequestsCancellation(r) \/ ToolEnds(r)
       PROVE  WorkerInv'
  BY <1>3, <1>10, ClientKeepsInv, ToolKeepsInv
<1>11. CASE UNCHANGED workerVars
  <2>1. UNCHANGED <<rows, worker, executor, signalled, tools, staging, published, stopping>>
    BY <1>11 DEF workerVars
  <2>2. RunsInv'
    BY <2>1, RunsInvFrame DEF WorkerInv
  <2>3. WorkerTypeOK' /\ PlaceInv'
    BY <2>1 DEF WorkerInv, WorkerTypeOK, PlaceInv, RunningIsSupervised, WorkerNeverRaises,
       HeldWasClaimed, EndedByWorkerAlone, Having
  <2>. QED  BY <1>2, <2>2, <2>3 DEF WorkerInv
<1>. QED
  BY <1>2, <1>4, <1>5, <1>6, <1>7, <1>8, <1>9, <1>10, <1>11 DEF WorkerNext, WorkerStep

-----------------------------------------------------------------------------
(* What follows for every behaviour.                                       *)

\* The invariant holds throughout: crashes, restarts, cancellations and dying
\* executors in any order.
THEOREM WorkerInvariant == WorkerSpec => [](StoreInv /\ WorkerInv)
<1>. QED
  BY WorkerInitEstablishesInv, WorkerStepKeepsInv, PTL DEF WorkerSpec

\* The composed system is a client of the store like any other: every behaviour of
\* worker, executors and web threads is one the store allows, so whatever is proved
\* of StoreSpec holds here as well.
THEOREM WorkerImplementsStore == WorkerSpec => StoreSpec
<1>1. WorkerInit => StoreInit
  BY DEF WorkerInit
<1>2. StoreInv /\ WorkerInv /\ [WorkerNext]_workerVars => [StoreNext]_storeVars
  BY StepOfStore DEF WorkerInv, PlaceInv
<1>. QED
  BY <1>1, <1>2, WorkerInvariant, PTL DEF WorkerSpec, StoreSpec

\* Clients of a served system see the documented lifecycle of every run.
THEOREM WorkerImplementsLifecycle == WorkerSpec => ImplementsLifecycle
<1>. QED  BY WorkerImplementsStore, StoreImplementsLifecycle, PTL

\* Type correctness of the processes' state.
THEOREM WorkerTypeCorrect == WorkerSpec => []WorkerTypeOK
<1>1. WorkerInv => WorkerTypeOK
  BY DEF WorkerInv
<1>. QED  BY <1>1, WorkerInvariant, PTL

\* Two runs are never running at once.
THEOREM WorkerRunsOneAtATime == WorkerSpec => []OneRunAtATime
<1>1. WorkerInv => OneRunAtATime
  BY DEF WorkerInv, RunsInv
<1>. QED  BY <1>1, WorkerInvariant, PTL

\* While the worker is up, the running run is the one it holds.
THEOREM WorkerSupervisesRunning == WorkerSpec => []RunningIsSupervised
<1>1. WorkerInv => RunningIsSupervised
  BY DEF WorkerInv, PlaceInv
<1>. QED  BY <1>1, WorkerInvariant, PTL

\* The store never refuses the worker's own transition.
THEOREM WorkerIsNeverRefused == WorkerSpec => []WorkerNeverRaises
<1>1. WorkerInv => WorkerNeverRaises
  BY DEF WorkerInv, PlaceInv
<1>. QED  BY <1>1, WorkerInvariant, PTL

\* A completed run has its artifact in place.
THEOREM WorkerCompletesPublished == WorkerSpec => []CompletedIsPublished
<1>1. WorkerInv => CompletedIsPublished
  BY DEF WorkerInv, RunsInv
<1>. QED  BY <1>1, WorkerInvariant, PTL

\* A cancelled run has no executor and no unpublished data.
THEOREM WorkerCancelsForGood == WorkerSpec => []CancelledIsOver
<1>1. StoreInv /\ WorkerInv => CancelledIsOver
  <2> SUFFICES ASSUME StoreInv, WorkerInv, NEW r \in Runs, rows[r].status = "cancelled"
               PROVE  executor[r] \notin Alive /\ r \notin staging
    BY DEF CancelledIsOver, Having
  <2>1. rows[r].diagnostic = NoCode
    BY DEF StoreInv, RowsMeetChecks
  <2>2. rows[r].diagnostic # "worker-restarted"
    BY <2>1, NullsAreDistinct, CodesOfWorker
  <2>. QED  BY <2>2 DEF WorkerInv, RunsInv, EndedIsOver, Terminal
<1>. QED  BY <1>1, WorkerInvariant, PTL

\* Unpublished data is left behind by recovery alone.
THEOREM WorkerLeavesNoStaging == WorkerSpec => []OnlyRecoveryLeavesStaging
<1>1. WorkerInv => OnlyRecoveryLeavesStaging
  BY DEF WorkerInv, RunsInv, WorkerTypeOK, EndedIsOver, OnlyRecoveryLeavesStaging
<1>. QED  BY <1>1, WorkerInvariant, PTL

\* An accepted cancellation leaves the run without a result, in every interleaving.
THEOREM WorkerHonoursCancellation == WorkerSpec => CancelledHasNoResult
<1>1. ASSUME StoreInv, WorkerInv, [WorkerNext]_workerVars
      PROVE  [\A r \in Runs : rows[r].cancelRequested /\ rows[r].status \in Active
                => rows'[r].artifact = NoArtifact]_workerVars
  <2> SUFFICES ASSUME NEW r \in Runs, rows[r].cancelRequested, rows[r].status \in Active
               PROVE  rows'[r].artifact = NoArtifact
    OBVIOUS
  <2>1. [StoreNext]_storeVars /\ StoreInv'
    BY <1>1, StepOfStore, WorkerStepKeepsInv DEF WorkerInv, PlaceInv
  <2>2. rows'[r].cancelRequested
    <3>1. CASE UNCHANGED storeVars
      BY <3>1 DEF storeVars
    <3>2. CASE StoreNext
      <4>1. RunStep(r) /\ rows[r] \in Row
        BY <1>1, <3>2, StepHasShape DEF StoreInv, StepShape, StoreTypeOK
      <4>. QED
        BY <4>1 DEF RunStep, Kept, Inserted, Started, Ended, Progressed, Asked, SameRequest,
           Active, Row
    <3>. QED  BY <2>1, <3>1, <3>2
  <2>3. rows'[r].status # "completed"
    BY <2>1, <2>2 DEF StoreInv, CancellationIsHonoured
  <2>. QED  BY <2>1, <2>3 DEF StoreInv, RowsMeetChecks
<1>. QED
  BY <1>1, WorkerInvariant, PTL DEF WorkerSpec, CancelledHasNoResult

=============================================================================
