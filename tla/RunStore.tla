------------------------------ MODULE RunStore ------------------------------
(***************************************************************************)
(* The durable run table and event log of srcdiffvisual/runs/store.py.     *)
(*                                                                         *)
(* Every public operation of RunStore is one BEGIN IMMEDIATE transaction   *)
(* on runs.sqlite3, so each is one atomic action here; an operation that   *)
(* raises rolls back and is a stuttering step.  The callers (web threads,  *)
(* the queue worker, run executors) are separate processes, so at this     *)
(* level any operation may come at any time: StoreSpec is the store     *)
(* under an arbitrary client.                                              *)
(*                                                                         *)
(* Run identifiers are random (uuid4), hence any unused identifier may be  *)
(* taken by an insertion; they are numbers because ties in the millisecond *)
(* timestamps are broken by ORDER BY run_id.  Column started_at, the kind, *)
(* repository and pair number and the message texts are left out: no       *)
(* operation reads them back.                                              *)
(***************************************************************************)
EXTENDS Naturals, Sequences

CONSTANTS
    Runs,           \* the run identifiers that may be drawn
    Fingerprints,   \* fingerprints of a pair and its artifact configuration
    NoFingerprint,  \* the NULL fingerprint of runs made by create_history_run
    Artifacts,      \* artifact identifiers
    NoArtifact,     \* the NULL artifact_id
    Codes,          \* diagnostic codes
    NoCode,         \* the NULL diagnostic_code
    MaxClock,       \* bound on the millisecond clock
    MaxEvents       \* bound on the log of one run when progress is appended

ASSUME RunsAreOrdered == Runs \subseteq Nat
ASSUME BoundsAreNatural == MaxClock \in Nat /\ MaxEvents \in Nat
ASSUME NullsAreDistinct ==
    /\ NoFingerprint \notin Fingerprints
    /\ NoArtifact \notin Artifacts
    /\ NoCode \notin Codes

VARIABLES
    rows,    \* the runs table: one row per identifier, "absent" when not inserted
    events,  \* the run_events table: per run, the event of sequence i at index i
    now      \* the wall clock, in ticks of the timestamp resolution

storeVars == <<rows, events, now>>

Active == {"queued", "running"}
Terminal == {"completed", "failed", "cancelled"}
Statuses == {"absent"} \cup Active \cup Terminal
NoStamp == MaxClock + 1

Row == [status : Statuses, fingerprint : Fingerprints \cup {NoFingerprint},
        artifact : Artifacts \cup {NoArtifact}, cancelRequested : BOOLEAN,
        diagnostic : Codes \cup {NoCode}, created : Nat, finished : Nat]

Event == [type : {"status", "progress", "cancellation-requested"},
          status : Active \cup Terminal]

RowOf(status, f, stamp) ==
    [status |-> status, fingerprint |-> f, artifact |-> NoArtifact,
     cancelRequested |-> FALSE, diagnostic |-> NoCode, created |-> stamp,
     finished |-> NoStamp]

AbsentRow == RowOf("absent", NoFingerprint, 0)

QueuedRow(f, stamp) == RowOf("queued", f, stamp)

StoreInit ==
    /\ rows = [r \in Runs |-> AbsentRow]
    /\ events = [r \in Runs |-> <<>>]
    /\ now = 0

-----------------------------------------------------------------------------
(* Reading the table.                                                      *)

Having(s) == {r \in Runs : rows[r].status = s}

\* ORDER BY created_at, run_id.
Before(q, r) == \/ rows[q].created < rows[r].created
                \/ rows[q].created = rows[r].created /\ q < r

\* ORDER BY finished_at DESC, run_id.
FresherThan(q, r) == \/ rows[q].finished > rows[r].finished
                     \/ rows[q].finished = rows[r].finished /\ q < r

\* The active run acquire_history_run follows, if any.
ActiveRuns(f) == {r \in Runs : rows[r].fingerprint = f /\ rows[r].status \in Active}

\* The completed run acquire_history_run offers: the freshest one not excluded.
ReusableRuns(f, excluded) ==
    LET candidates == {r \in Having("completed") \ excluded : rows[r].fingerprint = f}
    IN  {r \in candidates : \A q \in candidates \ {r} : FresherThan(r, q)}

ReferencedArtifacts == {rows[r].artifact : r \in Having("completed")}

\* read_run's latest_event_sequence.
LatestSequence(r) == Len(events[r])

-----------------------------------------------------------------------------
(* Writing the table.                                                      *)

\* Mutant: the columns of the insertion swapped.
LoggedSwapped(r, type, status) == Append(events[r], [type |-> status, status |-> type])

\* _insert_event gives the event the sequence number MAX(sequence) + 1.
Logged(r, type, status) == Append(events[r], [type |-> type, status |-> status])

InsertRun(r, f, stamp) ==
    /\ rows[r].status = "absent"
    /\ rows' = [rows EXCEPT ![r] = QueuedRow(f, stamp)]
    /\ events' = [events EXCEPT ![r] = Logged(r, "status", "queued")]
    /\ UNCHANGED now

\* create_history_run takes its timestamp before its transaction begins.
CreateHistoryRun(r) == \E stamp \in 0 .. now : InsertRun(r, NoFingerprint, stamp)

\* Mutant: the search for an active run left out.
AcquireNewBlindly(r, f, excluded) ==
    ReusableRuns(f, excluded) = {} /\ InsertRun(r, f, now)

\* acquire_history_run when it neither follows nor offers a run.
AcquireNew(r, f, excluded) ==
    /\ ActiveRuns(f) = {}
    /\ ReusableRuns(f, excluded) = {}
    /\ InsertRun(r, f, now)

\* Mutant: the status is not compared with the expected ones.
CanAlwaysTransition(r, expected) == rows[r].status # "absent"

CanTransition(r, expected) == rows[r].status \in expected

Transition(r, expected, status, artifact, code, stamp) ==
    /\ CanTransition(r, expected)
    /\ rows' = [rows EXCEPT ![r] = [@ EXCEPT !.status = status, !.artifact = artifact,
                                             !.diagnostic = code, !.finished = stamp]]
    /\ events' = [events EXCEPT ![r] = Logged(r, "status", status)]
    /\ UNCHANGED now

\* _transition takes its timestamp before its transaction begins.
Finish(r, expected, status, artifact, code) ==
    \E stamp \in rows[r].created .. now :
        Transition(r, expected, status, artifact, code, stamp)

MarkRunning(r) == Transition(r, {"queued"}, "running", NoArtifact, NoCode, NoStamp)

\* Mutant: reject_cancellation not passed.
CanCompleteAnyway(r) == CanTransition(r, {"running"})

\* Complete is refused once cancellation was requested.
CanComplete(r) == CanTransition(r, {"running"}) /\ ~rows[r].cancelRequested

Complete(r, a) ==
    /\ CanComplete(r)
    /\ Finish(r, {"running"}, "completed", a, NoCode)

Fail(r, code) == Finish(r, Active, "failed", NoArtifact, code)

Cancel(r) == Finish(r, Active, "cancelled", NoArtifact, NoCode)

\* claim_next walks the queue in order: it cancels every run whose cancellation
\* was requested and starts the first one whose cancellation was not.
Wanted == {r \in Having("queued") : ~rows[r].cancelRequested}

ClaimNext(r) ==
    LET skipped == {q \in Having("queued") \ Wanted : Before(q, r)}
    IN  /\ r \in Wanted
        /\ \A q \in Wanted \ {r} : Before(r, q)
        /\ rows' = [q \in Runs |->
              IF q \in skipped THEN [rows[q] EXCEPT !.status = "cancelled", !.finished = now]
              ELSE IF q = r THEN [rows[q] EXCEPT !.status = "running"]
              ELSE rows[q]]
        /\ events' = [q \in Runs |->
              IF q \in skipped THEN Logged(q, "status", "cancelled")
              ELSE IF q = r THEN Logged(q, "status", "running")
              ELSE events[q]]
        /\ UNCHANGED now

\* claim_next returns None, after cancelling whatever was left in the queue.
ClaimNothing ==
    /\ Wanted = {}
    /\ rows' = [q \in Runs |->
          IF q \in Having("queued")
          THEN [rows[q] EXCEPT !.status = "cancelled", !.finished = now] ELSE rows[q]]
    /\ events' = [q \in Runs |->
          IF q \in Having("queued") THEN Logged(q, "status", "cancelled") ELSE events[q]]
    /\ UNCHANGED now

\* Mutant: recovery updates the rows without logging it.
FailAbandonedSilently(code) ==
    /\ rows' = [r \in Runs |->
          IF r \in Having("running")
          THEN [rows[r] EXCEPT !.status = "failed", !.diagnostic = code, !.finished = now]
          ELSE rows[r]]
    /\ UNCHANGED <<events, now>>

FailAbandonedRuns(code) ==
    /\ rows' = [r \in Runs |->
          IF r \in Having("running")
          THEN [rows[r] EXCEPT !.status = "failed", !.diagnostic = code, !.finished = now]
          ELSE rows[r]]
    /\ events' = [r \in Runs |->
          IF r \in Having("running") THEN Logged(r, "status", "failed") ELSE events[r]]
    /\ UNCHANGED now

CanProgress(r) == CanTransition(r, {"running"})

AppendProgress(r) ==
    /\ CanProgress(r)
    /\ Len(events[r]) < MaxEvents
    /\ events' = [events EXCEPT ![r] = Logged(r, "progress", "running")]
    /\ UNCHANGED <<rows, now>>

\* Idempotent while the run is active: a repeated request changes nothing, so
\* only the first one is a step.  A finished run refuses it (409).
RequestCancellation(r) ==
    /\ rows[r].status \in Active
    /\ ~rows[r].cancelRequested
    /\ rows' = [rows EXCEPT ![r] = [@ EXCEPT !.cancelRequested = TRUE]]
    /\ events' = [events EXCEPT ![r] = Logged(r, "cancellation-requested", rows[r].status)]
    /\ UNCHANGED now

Tick ==
    /\ now < MaxClock
    /\ now' = now + 1
    /\ UNCHANGED <<rows, events>>

StoreNext ==
    \/ \E r \in Runs :
          \/ CreateHistoryRun(r)
          \/ \E f \in Fingerprints, excluded \in SUBSET Having("completed") :
                AcquireNew(r, f, excluded)
          \/ MarkRunning(r)
          \/ ClaimNext(r)
          \/ AppendProgress(r)
          \/ RequestCancellation(r)
          \/ \E a \in Artifacts : Complete(r, a)
          \/ \E code \in Codes : Fail(r, code)
          \/ Cancel(r)
    \/ ClaimNothing
    \/ \E code \in Codes : FailAbandonedRuns(code)
    \/ Tick

StoreSpec == StoreInit /\ [][StoreNext]_storeVars

-----------------------------------------------------------------------------
(* Properties.                                                             *)

\* The tables hold rows and events of the declared columns.
StoreTypeOK ==
    /\ rows \in [Runs -> Row]
    /\ events \in [Runs -> Seq(Event)]
    /\ now \in 0 .. MaxClock

\* Single flight: however requests, claims and failures interleave, at most one
\* queued or running run exists per fingerprint, so the partial unique index
\* active_run_fingerprint never rejects an insertion.
SingleFlight ==
    \A q, r \in Runs :
        /\ rows[q].status \in Active
        /\ rows[r].status \in Active
        /\ rows[q].fingerprint = rows[r].fingerprint
        /\ rows[q].fingerprint # NoFingerprint
        => q = r

\* The CHECK constraints of the runs table are never what stops an operation:
\* an artifact exactly when completed, a diagnostic exactly when failed, a
\* finishing time exactly when terminal.
RowsMeetChecks ==
    \A r \in Runs :
        /\ rows[r].status = "completed" <=> rows[r].artifact # NoArtifact
        /\ rows[r].status = "failed" <=> rows[r].diagnostic # NoCode
        /\ rows[r].status \in Terminal <=> rows[r].finished # NoStamp

\* A run whose cancellation was accepted is never reported as completed.
CancellationIsHonoured ==
    \A r \in Runs : rows[r].cancelRequested => rows[r].status # "completed"

\* What a log must be to explain a status: it starts when the run is queued,
\* each status event changes the status and no other event does, nothing follows
\* a terminal event, and the last event carries the status.
LogTells(log, status) ==
    /\ log = <<>> <=> status = "absent"
    /\ log # <<>> => /\ log[1] = [type |-> "status", status |-> "queued"]
                     /\ log[Len(log)].status = status
    /\ \A i \in 1 .. Len(log) : i < Len(log) =>
          /\ log[i].status \notin Terminal
          /\ log[i + 1].type = "status" <=> log[i].status # log[i + 1].status

\* The log and the row tell the same story, in every order of operations: a
\* reader that only follows the events (the SSE stream) knows the run.
LogTellsStatus == \A r \in Runs : LogTells(events[r], rows[r].status)

\* Terminal runs cannot transition again: neither the row nor the log of a
\* finished run ever changes, whichever process calls whichever operation.
TerminalIsFinal ==
    [][\A r \in Runs : rows[r].status \in Terminal
          => rows'[r] = rows[r] /\ events'[r] = events[r]]_storeVars

\* The log is append-only and grows by at most one event per transaction, so a
\* reader's cursor stays valid for ever.
LogIsAppendOnly ==
    [][\A r \in Runs :
          /\ Len(events'[r]) \in {Len(events[r]), Len(events[r]) + 1}
          /\ \A i \in 1 .. Len(events[r]) : events'[r][i] = events[r][i]]_storeVars

\* The store implements the lifecycle its contract documents: RunLifecycle.
Lifecycle == INSTANCE RunLifecycle WITH
    status <- [r \in Runs |-> rows[r].status],
    artifact <- [r \in Runs |-> rows[r].artifact],
    cancelRequested <- [r \in Runs |-> rows[r].cancelRequested]

\* Every transaction of the store is a step of the documented lifecycle or
\* leaves all runs alone.
ImplementsLifecycle == Lifecycle!LifecycleSpec

=============================================================================
