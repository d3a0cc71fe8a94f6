--------------------------- MODULE RunStore_proofs --------------------------
(***************************************************************************)
(* Proofs, for any sets of runs, fingerprints, artifacts and codes, of the *)
(* safety properties of RunStore.  StoreInv is the inductive invariant; the *)
(* worker's proofs reuse StoreStepKeepsInv.                                *)
(***************************************************************************)
EXTENDS RunStore, TLAPS

\* An identifier that was never inserted has no columns set.
AbsentIsBlank == \A r \in Runs : rows[r].status = "absent" => ~rows[r].cancelRequested

\* Each conjunct is needed by another: completing a run reads its status and
\* flag, an insertion relies on an absent row's log being empty, a row finishes
\* with a stamp only because the clock is bounded below NoStamp.
StoreInv ==
    /\ StoreTypeOK
    /\ SingleFlight
    /\ RowsMeetChecks
    /\ CancellationIsHonoured
    /\ LogTellsStatus
    /\ AbsentIsBlank

-----------------------------------------------------------------------------
(* The effect of appending one event.                                      *)

\* Appending an event keeps a log telling the status the event carries, when
\* the run had not finished and the event's type says whether that is a change.
LEMMA AppendTells ==
    ASSUME NEW log \in Seq(Event), NEW status \in Statuses, NEW e \in Event,
           LogTells(log, status), status \notin Terminal,
           e.type = "status" <=> status # e.status,
           status = "absent" => e = [type |-> "status", status |-> "queued"]
    PROVE  LogTells(Append(log, e), e.status)
<1> DEFINE longer == Append(log, e)
<1>1. /\ longer \in Seq(Event) /\ Len(longer) = Len(log) + 1 /\ Len(log) \in Nat
      /\ longer[Len(log) + 1] = e
      /\ \A i \in 1 .. Len(log) : longer[i] = log[i]
  OBVIOUS
<1>2. longer # <<>> /\ longer[Len(longer)].status = e.status
  BY <1>1
<1>3. longer[1] = [type |-> "status", status |-> "queued"]
  <2>1. CASE log = <<>>
    BY <1>1, <2>1 DEF LogTells
  <2>2. CASE log # <<>>
    BY <1>1, <2>2 DEF LogTells
  <2>. QED  BY <2>1, <2>2
<1>4. ASSUME NEW i \in 1 .. Len(longer), i < Len(longer)
      PROVE  /\ longer[i].status \notin Terminal
             /\ longer[i + 1].type = "status" <=> longer[i].status # longer[i + 1].status
  <2>1. i \in 1 .. Len(log) /\ longer[i] = log[i]
    BY <1>1, <1>4
  <2>2. CASE i < Len(log)
    BY <1>1, <2>1, <2>2 DEF LogTells
  <2>3. CASE i = Len(log)
    BY <1>1, <2>1, <2>3 DEF LogTells
  <2>. QED  BY <1>1, <2>1, <2>2, <2>3
<1>5. e.status # "absent"
  BY DEF Event, Active, Terminal
<1>. QED
  BY <1>2, <1>3, <1>4, <1>5 DEF LogTells

-----------------------------------------------------------------------------
(* What one transaction does to one run.  Every operation is, for each run, *)
(* one of these six things; each invariant is then proved from the shape    *)
(* alone, run by run, instead of operation by operation.                    *)

Kept(r) == rows'[r] = rows[r] /\ events'[r] = events[r]

Inserted(r) ==
    \E f \in Fingerprints \cup {NoFingerprint}, stamp \in 0 .. now :
        /\ rows[r].status = "absent"
        /\ f # NoFingerprint => ActiveRuns(f) = {}
        /\ rows'[r] = QueuedRow(f, stamp)
        /\ events'[r] = Logged(r, "status", "queued")
        /\ \A q \in Runs \ {r} : Kept(q)

\* The columns no operation rewrites once the run exists.
SameRequest(r) ==
    /\ rows'[r].fingerprint = rows[r].fingerprint
    /\ rows'[r].cancelRequested = rows[r].cancelRequested

Started(r) ==
    /\ rows[r].status = "queued"
    /\ rows'[r].status = "running"
    /\ SameRequest(r)
    /\ rows'[r].artifact = NoArtifact
    /\ rows'[r].diagnostic = NoCode
    /\ rows'[r].finished = NoStamp
    /\ events'[r] = Logged(r, "status", "running")

Ended(r) ==
    /\ rows[r].status \in Active
    /\ rows'[r].status \in Terminal
    /\ SameRequest(r)
    /\ rows'[r].status = "completed" <=> rows'[r].artifact # NoArtifact
    /\ rows'[r].status = "failed" <=> rows'[r].diagnostic # NoCode
    /\ rows'[r].finished # NoStamp
    /\ rows'[r].status = "completed" =>
          rows[r].status = "running" /\ ~rows[r].cancelRequested
    /\ events'[r] = Logged(r, "status", rows'[r].status)

Progressed(r) ==
    /\ rows[r].status = "running"
    /\ rows'[r] = rows[r]
    /\ events'[r] = Logged(r, "progress", "running")

Asked(r) ==
    /\ rows[r].status \in Active
    /\ ~rows[r].cancelRequested
    /\ rows'[r] = [rows[r] EXCEPT !.cancelRequested = TRUE]
    /\ events'[r] = Logged(r, "cancellation-requested", rows[r].status)
    /\ \A q \in Runs \ {r} : Kept(q)

RunStep(r) ==
    \/ Kept(r) \/ Inserted(r) \/ Started(r)
    \/ Ended(r) \/ Progressed(r) \/ Asked(r)

\* A transaction's shape: the tables stay typed and each run takes a RunStep.
StepShape == StoreTypeOK' /\ \A r \in Runs : RunStep(r)

\* Appending an event to a run's log gives a log.
LEMMA LoggedIsLog ==
    ASSUME StoreTypeOK, NEW r \in Runs,
           NEW type \in {"status", "progress", "cancellation-requested"},
           NEW s \in Active \cup Terminal
    PROVE  Logged(r, type, s) \in Seq(Event)
<1>1. [type |-> type, status |-> s] \in Event
  BY DEF Event
<1>2. events[r] \in Seq(Event)
  BY DEF StoreTypeOK
<1>. QED  BY <1>1, <1>2 DEF Logged

\* An inserted row has the columns' types.
LEMMA QueuedRowIsRow ==
    ASSUME NEW f \in Fingerprints \cup {NoFingerprint}, NEW stamp \in Nat
    PROVE  /\ QueuedRow(f, stamp) \in Row
           /\ QueuedRow(f, stamp).status = "queued"
           /\ QueuedRow(f, stamp).fingerprint = f
           /\ QueuedRow(f, stamp).artifact = NoArtifact
           /\ QueuedRow(f, stamp).diagnostic = NoCode
           /\ QueuedRow(f, stamp).finished = NoStamp
           /\ ~QueuedRow(f, stamp).cancelRequested
<1>1. NoStamp \in Nat
  BY BoundsAreNatural DEF NoStamp
<1>. QED
  BY <1>1 DEF QueuedRow, RowOf, Row, Statuses, Active

\* Updating the entry of one run, and nothing else, keeps the tables typed.
LEMMA OneRunTyped ==
    ASSUME StoreTypeOK, NEW r \in Runs, NEW row \in Row, NEW log \in Seq(Event),
           rows' = [rows EXCEPT ![r] = row], events' = [events EXCEPT ![r] = log],
           UNCHANGED now
    PROVE  /\ StoreTypeOK'
           /\ rows'[r] = row /\ events'[r] = log
           /\ \A q \in Runs \ {r} : Kept(q)
  BY DEF StoreTypeOK, Kept

\* An insertion has the shape of a step.
LEMMA InsertShape ==
    ASSUME StoreTypeOK, NEW r \in Runs, NEW f \in Fingerprints \cup {NoFingerprint},
           NEW stamp \in 0 .. now, InsertRun(r, f, stamp),
           f # NoFingerprint => ActiveRuns(f) = {}
    PROVE  StepShape
<1>1. stamp \in Nat
  OBVIOUS
<1>2. Logged(r, "status", "queued") \in Seq(Event)
  BY LoggedIsLog DEF Active
<1>3. /\ StoreTypeOK'
      /\ rows'[r] = QueuedRow(f, stamp) /\ events'[r] = Logged(r, "status", "queued")
      /\ \A q \in Runs \ {r} : Kept(q)
  BY <1>1, <1>2, QueuedRowIsRow, OneRunTyped DEF InsertRun
<1>4. Inserted(r)
  BY <1>3 DEF Inserted, InsertRun
<1>. QED
  BY <1>3, <1>4 DEF StepShape, RunStep

\* A transition of one run into a terminal state has the shape of a step.
LEMMA FinishShape ==
    ASSUME StoreTypeOK, NEW r \in Runs, NEW expected \in SUBSET Active, NEW s \in Terminal,
           NEW a \in Artifacts \cup {NoArtifact}, NEW c \in Codes \cup {NoCode},
           Finish(r, expected, s, a, c),
           s = "completed" <=> a # NoArtifact, s = "failed" <=> c # NoCode,
           s = "completed" => rows[r].status = "running" /\ ~rows[r].cancelRequested
    PROVE  StepShape
<1>1. rows[r] \in Row /\ rows[r].created \in Nat
  BY DEF StoreTypeOK, Row
<1>2. PICK stamp \in rows[r].created .. now : Transition(r, expected, s, a, c, stamp)
  BY DEF Finish
<1>3. stamp \in Nat /\ stamp # NoStamp
  BY <1>1, BoundsAreNatural DEF NoStamp, StoreTypeOK
<1>4. s \in Statuses /\ Logged(r, "status", s) \in Seq(Event)
  BY LoggedIsLog DEF Statuses
<1> DEFINE moved == [rows[r] EXCEPT !.status = s, !.artifact = a,
                                    !.diagnostic = c, !.finished = stamp]
<1>5. /\ moved \in Row
      /\ moved.status = s /\ moved.artifact = a /\ moved.diagnostic = c
      /\ moved.finished = stamp
      /\ moved.fingerprint = rows[r].fingerprint
      /\ moved.cancelRequested = rows[r].cancelRequested
  BY <1>1, <1>3, <1>4 DEF Row
<1>6. /\ rows' = [rows EXCEPT ![r] = moved]
      /\ events' = [events EXCEPT ![r] = Logged(r, "status", s)]
      /\ UNCHANGED now /\ rows[r].status \in expected
  BY <1>2 DEF Transition, CanTransition
<1> HIDE DEF moved
<1>7. /\ StoreTypeOK'
      /\ rows'[r] = moved /\ events'[r] = Logged(r, "status", s)
      /\ \A q \in Runs \ {r} : Kept(q)
  BY <1>4, <1>5, <1>6, OneRunTyped
<1>8. Ended(r)
  BY <1>3, <1>5, <1>6, <1>7 DEF Ended, SameRequest
<1>. QED
  BY <1>7, <1>8 DEF StepShape, RunStep

\* claim_next, fail_abandoned_runs and the emptying of the queue rewrite several
\* runs at once; each of them is still typed and takes a step of its own.
LEMMA TableShape ==
    ASSUME StoreTypeOK, NEW table \in [Runs -> Row], NEW logs \in [Runs -> Seq(Event)],
           rows' = table, events' = logs, UNCHANGED now,
           \A r \in Runs : Kept(r) \/ Started(r) \/ Ended(r)
    PROVE  StepShape
  BY DEF StoreTypeOK, StepShape, RunStep

\* claim_next has the shape of a step.
LEMMA ClaimShape ==
    ASSUME StoreTypeOK, RowsMeetChecks, NEW r \in Runs, ClaimNext(r)
    PROVE  StepShape
<1> DEFINE skipped == {q \in Having("queued") \ Wanted : Before(q, r)}
           table == [q \in Runs |->
              IF q \in skipped THEN [rows[q] EXCEPT !.status = "cancelled", !.finished = now]
              ELSE IF q = r THEN [rows[q] EXCEPT !.status = "running"]
              ELSE rows[q]]
           logs == [q \in Runs |->
              IF q \in skipped THEN Logged(q, "status", "cancelled")
              ELSE IF q = r THEN Logged(q, "status", "running")
              ELSE events[q]]
<1>1. rows' = table /\ events' = logs /\ UNCHANGED now /\ r \in Wanted
  BY DEF ClaimNext
<1>2. \A q \in Runs : rows[q] \in Row /\ events[q] \in Seq(Event)
  BY DEF StoreTypeOK
<1>3. now \in Nat /\ now # NoStamp
  BY BoundsAreNatural DEF StoreTypeOK, NoStamp
<1>4. \A q \in Runs : /\ Logged(q, "status", "cancelled") \in Seq(Event)
                      /\ Logged(q, "status", "running") \in Seq(Event)
  BY LoggedIsLog DEF Active, Terminal
<1>5. table \in [Runs -> Row]
  BY <1>2, <1>3 DEF Row, Statuses, Active, Terminal
<1>6. logs \in [Runs -> Seq(Event)]
  BY <1>2, <1>4
<1>7. ASSUME NEW q \in Runs PROVE Kept(q) \/ Started(q) \/ Ended(q)
  <2>1. CASE q \in skipped
    <3>1. rows[q].status = "queued" /\ rows[q] \in Row
      BY <1>2, <2>1 DEF Having
    <3>2. rows'[q] = [rows[q] EXCEPT !.status = "cancelled", !.finished = now]
          /\ events'[q] = Logged(q, "status", "cancelled")
      BY <1>1, <2>1
    <3>3. rows[q].artifact = NoArtifact /\ rows[q].diagnostic = NoCode
      BY <3>1 DEF RowsMeetChecks
    <3>4. /\ rows'[q].status = "cancelled" /\ rows'[q].finished = now
          /\ rows'[q].artifact = NoArtifact /\ rows'[q].diagnostic = NoCode
          /\ SameRequest(q)
      BY <3>1, <3>2, <3>3 DEF Row, SameRequest
    <3>. QED
      BY <1>3, <3>1, <3>2, <3>4 DEF Ended, Active, Terminal
  <2>2. CASE q \notin skipped /\ q = r
    <3>1. rows[q].status = "queued" /\ rows[q] \in Row
      BY <1>1, <1>2, <2>2 DEF Wanted, Having
    <3>2. rows'[q] = [rows[q] EXCEPT !.status = "running"]
          /\ events'[q] = Logged(q, "status", "running")
      BY <1>1, <2>2
    <3>3. /\ rows[q].artifact = NoArtifact /\ rows[q].diagnostic = NoCode
          /\ rows[q].finished = NoStamp
      BY <3>1 DEF RowsMeetChecks, Terminal
    <3>. QED
      BY <3>1, <3>2, <3>3 DEF Started, SameRequest, Row
  <2>3. CASE q \notin skipped /\ q # r
    BY <1>1, <2>3 DEF Kept
  <2>. QED  BY <2>1, <2>2, <2>3
<1>. QED
  <2> HIDE DEF table, logs
  <2>. QED  BY <1>1, <1>5, <1>6, <1>7, TableShape

\* Emptying a queue of cancelled runs has the shape of a step.
LEMMA ClaimNothingShape ==
    ASSUME StoreTypeOK, RowsMeetChecks, ClaimNothing
    PROVE  StepShape
<1> DEFINE table == [q \in Runs |->
              IF q \in Having("queued")
              THEN [rows[q] EXCEPT !.status = "cancelled", !.finished = now] ELSE rows[q]]
           logs == [q \in Runs |->
              IF q \in Having("queued") THEN Logged(q, "status", "cancelled") ELSE events[q]]
<1>1. rows' = table /\ events' = logs /\ UNCHANGED now
  BY DEF ClaimNothing
<1>2. \A q \in Runs : rows[q] \in Row /\ events[q] \in Seq(Event)
  BY DEF StoreTypeOK
<1>3. now \in Nat /\ now # NoStamp
  BY BoundsAreNatural DEF StoreTypeOK, NoStamp
<1>4. \A q \in Runs : Logged(q, "status", "cancelled") \in Seq(Event)
  BY LoggedIsLog DEF Terminal
<1>5. table \in [Runs -> Row] /\ logs \in [Runs -> Seq(Event)]
  BY <1>2, <1>3, <1>4 DEF Row, Statuses, Terminal
<1>6. ASSUME NEW q \in Runs PROVE Kept(q) \/ Started(q) \/ Ended(q)
  <2>1. CASE q \in Having("queued")
    <3>1. /\ rows[q].status = "queued" /\ rows[q] \in Row
          /\ rows[q].artifact = NoArtifact /\ rows[q].diagnostic = NoCode
      BY <1>2, <2>1 DEF Having, RowsMeetChecks
    <3>2. rows'[q] = [rows[q] EXCEPT !.status = "cancelled", !.finished = now]
          /\ events'[q] = Logged(q, "status", "cancelled")
      BY <1>1, <2>1
    <3>3. /\ rows'[q].status = "cancelled" /\ rows'[q].finished = now
          /\ rows'[q].artifact = NoArtifact /\ rows'[q].diagnostic = NoCode
          /\ SameRequest(q)
      BY <3>1, <3>2 DEF Row, SameRequest
    <3>. QED
      BY <1>3, <3>1, <3>2, <3>3 DEF Ended, Active, Terminal
  <2>2. CASE q \notin Having("queued")
    BY <1>1, <2>2 DEF Kept
  <2>. QED  BY <2>1, <2>2
<1>. QED
  <2> HIDE DEF table, logs
  <2>. QED  BY <1>1, <1>5, <1>6, TableShape

\* Recovery's failing of every running run has the shape of a step.
LEMMA AbandonShape ==
    ASSUME StoreTypeOK, RowsMeetChecks, NEW code \in Codes, FailAbandonedRuns(code)
    PROVE  StepShape
<1> DEFINE table == [q \in Runs |->
              IF q \in Having("running")
              THEN [rows[q] EXCEPT !.status = "failed", !.diagnostic = code, !.finished = now]
              ELSE rows[q]]
           logs == [q \in Runs |->
              IF q \in Having("running") THEN Logged(q, "status", "failed") ELSE events[q]]
<1>1. rows' = table /\ events' = logs /\ UNCHANGED now
  BY DEF FailAbandonedRuns
<1>2. \A q \in Runs : rows[q] \in Row /\ events[q] \in Seq(Event)
  BY DEF StoreTypeOK
<1>3. now \in Nat /\ now # NoStamp
  BY BoundsAreNatural DEF StoreTypeOK, NoStamp
<1>4. \A q \in Runs : Logged(q, "status", "failed") \in Seq(Event)
  BY LoggedIsLog DEF Terminal
<1>5. table \in [Runs -> Row] /\ logs \in [Runs -> Seq(Event)]
  BY <1>2, <1>3, <1>4 DEF Row, Statuses, Terminal
<1>6. ASSUME NEW q \in Runs PROVE Kept(q) \/ Started(q) \/ Ended(q)
  <2>1. CASE q \in Having("running")
    <3>1. /\ rows[q].status = "running" /\ rows[q] \in Row
          /\ rows[q].artifact = NoArtifact
      BY <1>2, <2>1 DEF Having, RowsMeetChecks
    <3>2. /\ rows'[q] = [rows[q] EXCEPT !.status = "failed", !.diagnostic = code,
                                        !.finished = now]
          /\ events'[q] = Logged(q, "status", "failed")
      BY <1>1, <2>1
    <3>3. /\ rows'[q].status = "failed" /\ rows'[q].finished = now
          /\ rows'[q].artifact = NoArtifact /\ rows'[q].diagnostic = code
          /\ SameRequest(q)
      BY <3>1, <3>2 DEF Row, SameRequest
    <3>. QED
      BY <1>3, <3>1, <3>2, <3>3, NullsAreDistinct DEF Ended, Active, Terminal
  <2>2. CASE q \notin Having("running")
    BY <1>1, <2>2 DEF Kept
  <2>. QED  BY <2>1, <2>2
<1>. QED
  <2> HIDE DEF table, logs
  <2>. QED  BY <1>1, <1>5, <1>6, TableShape

\* Every operation of the store has the shape of a step.
LEMMA StepHasShape ==
    ASSUME StoreTypeOK, RowsMeetChecks, StoreNext
    PROVE  StepShape
<1>1. ASSUME NEW r \in Runs, CreateHistoryRun(r) PROVE StepShape
  BY <1>1, InsertShape DEF CreateHistoryRun
<1>2. ASSUME NEW r \in Runs, NEW f \in Fingerprints, NEW excluded, AcquireNew(r, f, excluded)
      PROVE  StepShape
  <2>1. now \in 0 .. now
    BY DEF StoreTypeOK
  <2>. QED  BY <1>2, <2>1, InsertShape DEF AcquireNew
<1>3. ASSUME NEW r \in Runs, MarkRunning(r) PROVE StepShape
  <2> DEFINE moved == [rows[r] EXCEPT !.status = "running", !.artifact = NoArtifact,
                                      !.diagnostic = NoCode, !.finished = NoStamp]
  <2>1. rows[r] \in Row /\ NoStamp \in Nat
    BY BoundsAreNatural DEF StoreTypeOK, NoStamp
  <2>2. /\ moved \in Row
        /\ moved.status = "running" /\ moved.artifact = NoArtifact
        /\ moved.diagnostic = NoCode /\ moved.finished = NoStamp
        /\ moved.fingerprint = rows[r].fingerprint
        /\ moved.cancelRequested = rows[r].cancelRequested
    BY <2>1 DEF Row, Statuses, Active
  <2>3. /\ rows' = [rows EXCEPT ![r] = moved]
        /\ events' = [events EXCEPT ![r] = Logged(r, "status", "running")]
        /\ UNCHANGED now /\ rows[r].status = "queued"
    BY <1>3 DEF MarkRunning, Transition, CanTransition
  <2>4. Logged(r, "status", "running") \in Seq(Event)
    BY LoggedIsLog DEF Active
  <2> HIDE DEF moved
  <2>5. /\ StoreTypeOK'
        /\ rows'[r] = moved /\ events'[r] = Logged(r, "status", "running")
        /\ \A q \in Runs \ {r} : Kept(q)
    BY <2>2, <2>3, <2>4, OneRunTyped
  <2>. QED
    BY <2>2, <2>3, <2>5 DEF StepShape, RunStep, Started, SameRequest
<1>4. ASSUME NEW r \in Runs, ClaimNext(r) PROVE StepShape
  BY <1>4, ClaimShape
<1>5. ASSUME NEW r \in Runs, AppendProgress(r) PROVE StepShape
  <2>1. /\ rows' = rows /\ now' = now /\ rows[r].status = "running"
        /\ events' = [events EXCEPT ![r] = Logged(r, "progress", "running")]
    BY <1>5 DEF AppendProgress, CanProgress, CanTransition
  <2>2. Logged(r, "progress", "running") \in Seq(Event)
    BY LoggedIsLog DEF Active
  <2>3. /\ StoreTypeOK'
        /\ events'[r] = Logged(r, "progress", "running")
        /\ \A q \in Runs \ {r} : Kept(q)
    BY <2>1, <2>2 DEF StoreTypeOK, Kept
  <2>. QED
    BY <2>1, <2>3 DEF StepShape, RunStep, Progressed
<1>6. ASSUME NEW r \in Runs, RequestCancellation(r) PROVE StepShape
  <2> DEFINE asked == [rows[r] EXCEPT !.cancelRequested = TRUE]
             log == Logged(r, "cancellation-requested", rows[r].status)
  <2>1. /\ rows' = [rows EXCEPT ![r] = asked] /\ UNCHANGED now
        /\ events' = [events EXCEPT ![r] = log]
        /\ rows[r].status \in Active /\ ~rows[r].cancelRequested
    BY <1>6 DEF RequestCancellation
  <2>2. log \in Seq(Event)
    BY <2>1, LoggedIsLog
  <2>3. asked \in Row
    BY DEF StoreTypeOK, Row
  <2> HIDE DEF asked, log
  <2>4. /\ StoreTypeOK'
        /\ rows'[r] = asked /\ events'[r] = log
        /\ \A q \in Runs \ {r} : Kept(q)
    BY <2>1, <2>2, <2>3, OneRunTyped
  <2>. QED
    BY <2>1, <2>4 DEF StepShape, RunStep, Asked, asked, log
<1>7. ASSUME NEW r \in Runs, NEW a \in Artifacts, Complete(r, a) PROVE StepShape
  <2>1. rows[r].status = "running" /\ ~rows[r].cancelRequested
    BY <1>7 DEF Complete, CanComplete, CanTransition
  <2>. QED
    BY <1>7, <2>1, FinishShape, NullsAreDistinct DEF Complete, Active, Terminal
<1>8. ASSUME NEW r \in Runs, NEW code \in Codes, Fail(r, code) PROVE StepShape
  BY <1>8, FinishShape, NullsAreDistinct DEF Fail, Terminal
<1>9. ASSUME NEW r \in Runs, Cancel(r) PROVE StepShape
  BY <1>9, FinishShape DEF Cancel, Terminal
<1>10. CASE ClaimNothing
  BY <1>10, ClaimNothingShape
<1>11. ASSUME NEW code \in Codes, FailAbandonedRuns(code) PROVE StepShape
  BY <1>11, AbandonShape
<1>12. CASE Tick
  <2>1. rows' = rows /\ events' = events /\ now' = now + 1 /\ now < MaxClock
    BY <1>12 DEF Tick
  <2>2. StoreTypeOK'
    BY <2>1, BoundsAreNatural DEF StoreTypeOK
  <2>. QED
    BY <2>1, <2>2 DEF StepShape, RunStep, Kept
<1>. QED
  BY <1>1, <1>2, <1>3, <1>4, <1>5, <1>6, <1>7, <1>8, <1>9, <1>10, <1>11, <1>12
  DEF StoreNext

-----------------------------------------------------------------------------
(* The invariants, each from the shape of a step.                          *)

\* A step keeps at most one active run per fingerprint: a run becomes active
\* only when it is inserted, and an insertion finds no active run to follow.
LEMMA KeepsSingleFlight ==
    ASSUME StoreTypeOK, SingleFlight, StepShape
    PROVE  SingleFlight'
<1>1. ASSUME NEW r \in Runs, rows'[r].status \in Active
      PROVE  \/ rows[r].status \in Active /\ rows'[r].fingerprint = rows[r].fingerprint
             \/ Inserted(r)
  <2>1. rows[r] \in Row
    BY DEF StoreTypeOK
  <2>. QED
    BY <1>1, <2>1 DEF StepShape, RunStep, Kept, Started, Ended, Progressed, Asked,
       SameRequest, Active, Terminal, Row
<1>2. ASSUME NEW q \in Runs, NEW r \in Runs, Inserted(q), q # r,
             rows'[q].fingerprint = rows'[r].fingerprint,
             rows'[q].fingerprint # NoFingerprint,
             rows'[r].status \in Active
      PROVE  FALSE
  <2>1. PICK f \in Fingerprints \cup {NoFingerprint}, stamp \in 0 .. now :
           /\ f # NoFingerprint => ActiveRuns(f) = {}
           /\ rows'[q] = QueuedRow(f, stamp)
           /\ \A p \in Runs \ {q} : Kept(p)
    BY <1>2 DEF Inserted
  <2>2. rows'[q].fingerprint = f
    BY <2>1 DEF QueuedRow, RowOf
  <2>3. rows'[r] = rows[r]
    BY <1>2, <2>1 DEF Kept
  <2>4. r \in ActiveRuns(f)
    BY <1>2, <2>2, <2>3 DEF ActiveRuns
  <2>. QED
    BY <1>2, <2>1, <2>2, <2>4
<1>3. ASSUME NEW q \in Runs, NEW r \in Runs,
             rows'[q].status \in Active, rows'[r].status \in Active,
             rows'[q].fingerprint = rows'[r].fingerprint,
             rows'[q].fingerprint # NoFingerprint
      PROVE  q = r
  <2>1. CASE Inserted(q) \/ Inserted(r)
    BY <1>2, <1>3, <2>1
  <2>2. CASE ~Inserted(q) /\ ~Inserted(r)
    BY <1>1, <1>3, <2>2 DEF SingleFlight
  <2>. QED  BY <2>1, <2>2
<1>. QED
  BY <1>3 DEF SingleFlight

\* A step keeps each row within the CHECK constraints.
LEMMA KeepsChecks ==
    ASSUME StoreTypeOK, RowsMeetChecks, StepShape
    PROVE  RowsMeetChecks'
<1> SUFFICES ASSUME NEW r \in Runs
             PROVE  /\ rows'[r].status = "completed" <=> rows'[r].artifact # NoArtifact
                    /\ rows'[r].status = "failed" <=> rows'[r].diagnostic # NoCode
                    /\ rows'[r].status \in Terminal <=> rows'[r].finished # NoStamp
  BY DEF RowsMeetChecks
<1>1. CASE Kept(r) \/ Progressed(r)
  BY <1>1 DEF Kept, Progressed, RowsMeetChecks
<1>2. CASE Inserted(r)
  BY <1>2 DEF Inserted, QueuedRow, RowOf, Terminal
<1>3. CASE Started(r)
  BY <1>3 DEF Started, Terminal
<1>4. CASE Ended(r)
  BY <1>4 DEF Ended
<1>5. CASE Asked(r)
  <2>1. /\ rows'[r].status = rows[r].status /\ rows'[r].artifact = rows[r].artifact
        /\ rows'[r].diagnostic = rows[r].diagnostic
        /\ rows'[r].finished = rows[r].finished
    BY <1>5 DEF Asked, StoreTypeOK, Row
  <2>. QED
    BY <2>1 DEF RowsMeetChecks
<1>. QED
  BY <1>1, <1>2, <1>3, <1>4, <1>5 DEF StepShape, RunStep

\* A step never completes a run whose cancellation was requested, and a request
\* is never accepted for a completed run.
LEMMA KeepsCancellation ==
    ASSUME StoreTypeOK, CancellationIsHonoured, StepShape
    PROVE  CancellationIsHonoured'
<1> SUFFICES ASSUME NEW r \in Runs, rows'[r].cancelRequested
             PROVE  rows'[r].status # "completed"
  BY DEF CancellationIsHonoured
<1>1. rows[r] \in Row
  BY DEF StoreTypeOK
<1>2. CASE Kept(r) \/ Progressed(r)
  BY <1>2 DEF Kept, Progressed, CancellationIsHonoured
<1>3. CASE Inserted(r)
  BY <1>3 DEF Inserted, QueuedRow, RowOf
<1>4. CASE Started(r) \/ Ended(r)
  BY <1>4 DEF Started, Ended, SameRequest
<1>5. CASE Asked(r)
  BY <1>1, <1>5 DEF Asked, Active, Row
<1>. QED
  BY <1>2, <1>3, <1>4, <1>5 DEF StepShape, RunStep

\* A step keeps every log telling the status of its run.
LEMMA KeepsLogs ==
    ASSUME StoreTypeOK, LogTellsStatus, StepShape
    PROVE  LogTellsStatus'
<1> SUFFICES ASSUME NEW r \in Runs PROVE LogTells(events'[r], rows'[r].status)
  BY DEF LogTellsStatus
<1>1. /\ rows[r] \in Row /\ rows[r].status \in Statuses /\ events[r] \in Seq(Event)
      /\ LogTells(events[r], rows[r].status)
  BY DEF StoreTypeOK, Row, LogTellsStatus
<1>2. ASSUME NEW type \in {"status", "progress", "cancellation-requested"},
             NEW s \in Active \cup Terminal,
             rows'[r].status = s, events'[r] = Logged(r, type, s),
             rows[r].status \notin Terminal,
             type = "status" <=> rows[r].status # s,
             rows[r].status = "absent" => type = "status" /\ s = "queued"
      PROVE  LogTells(events'[r], rows'[r].status)
  <2> DEFINE e == [type |-> type, status |-> s]
  <2>1. e \in Event /\ e.type = type /\ e.status = s
    BY DEF Event
  <2>2. LogTells(Append(events[r], e), e.status)
    BY <1>1, <1>2, <2>1, AppendTells
  <2>. QED
    BY <1>2, <2>1, <2>2 DEF Logged
<1>3. CASE Kept(r)
  BY <1>1, <1>3 DEF Kept
<1>4. CASE Inserted(r)
  <2>1. /\ rows[r].status = "absent" /\ rows'[r].status = "queued"
        /\ events'[r] = Logged(r, "status", "queued")
    BY <1>4 DEF Inserted, QueuedRow, RowOf
  <2>. QED  BY <1>2, <2>1 DEF Active, Terminal
<1>5. CASE Started(r)
  BY <1>2, <1>5 DEF Started, Active, Terminal
<1>6. CASE Ended(r)
  BY <1>2, <1>6 DEF Ended, Active, Terminal
<1>7. CASE Progressed(r)
  BY <1>2, <1>7 DEF Progressed, Active, Terminal
<1>8. CASE Asked(r)
  <2>1. rows'[r].status = rows[r].status
    BY <1>1, <1>8 DEF Asked, Row
  <2>. QED  BY <1>2, <1>8, <2>1 DEF Asked, Active, Terminal
<1>. QED
  BY <1>3, <1>4, <1>5, <1>6, <1>7, <1>8 DEF StepShape, RunStep

\* A step sets no column of an identifier it does not insert.
LEMMA KeepsBlank ==
    ASSUME StoreTypeOK, AbsentIsBlank, StepShape
    PROVE  AbsentIsBlank'
<1> SUFFICES ASSUME NEW r \in Runs, rows'[r].status = "absent"
             PROVE  ~rows'[r].cancelRequested
  BY DEF AbsentIsBlank
<1>1. rows[r] \in Row /\ RunStep(r)
  BY DEF StoreTypeOK, StepShape
<1>2. CASE Asked(r)
  BY <1>1, <1>2 DEF Asked, Active, Row
<1>3. CASE Inserted(r)
  BY <1>3 DEF Inserted, QueuedRow, RowOf
<1>4. CASE Started(r) \/ Ended(r)
  BY <1>4 DEF Started, Ended, Terminal
<1>5. CASE Kept(r) \/ Progressed(r)
  BY <1>5 DEF Kept, Progressed, AbsentIsBlank
<1>. QED  BY <1>1, <1>2, <1>3, <1>4, <1>5 DEF RunStep

\* StoreInv is inductive.  A module that composes the store with its callers
\* cites this for every step of its own that is a step of the store.
LEMMA StoreStepKeepsInv ==
    ASSUME StoreInv, [StoreNext]_storeVars
    PROVE  StoreInv'
<1>1. CASE StoreNext
  BY <1>1, StepHasShape, KeepsSingleFlight, KeepsChecks, KeepsCancellation, KeepsLogs,
     KeepsBlank
  DEF StoreInv, StepShape
<1>2. CASE UNCHANGED storeVars
  BY <1>2 DEF StoreInv, storeVars, StoreTypeOK, SingleFlight, RowsMeetChecks,
     CancellationIsHonoured, LogTellsStatus, AbsentIsBlank
<1>. QED  BY <1>1, <1>2

\* An empty database satisfies the invariant.
LEMMA StoreInitEstablishesInv ==
    ASSUME StoreInit
    PROVE  StoreInv
<1>1. /\ AbsentRow \in Row /\ AbsentRow.status = "absent"
      /\ AbsentRow.artifact = NoArtifact /\ AbsentRow.diagnostic = NoCode
      /\ AbsentRow.finished = NoStamp /\ ~AbsentRow.cancelRequested
  BY BoundsAreNatural DEF AbsentRow, RowOf, Row, Statuses, NoStamp
<1>2. \A r \in Runs : rows[r] = AbsentRow /\ events[r] = <<>>
  BY DEF StoreInit
<1>3. StoreTypeOK
  BY <1>1, BoundsAreNatural DEF StoreInit, StoreTypeOK
<1>4. SingleFlight /\ RowsMeetChecks /\ CancellationIsHonoured
  BY <1>1, <1>2 DEF SingleFlight, RowsMeetChecks, CancellationIsHonoured, Active, Terminal
<1>6. AbsentIsBlank
  BY <1>1, <1>2 DEF AbsentIsBlank
<1>5. LogTellsStatus
  <2>1. LogTells(<<>>, "absent")
    BY DEF LogTells
  <2>. QED  BY <1>1, <1>2, <2>1 DEF LogTellsStatus
<1>. QED
  BY <1>3, <1>4, <1>5, <1>6 DEF StoreInv

\* The invariant holds throughout, whatever the callers do.
THEOREM StoreInvariant == StoreSpec => []StoreInv
<1>. QED
  BY StoreInitEstablishesInv, StoreStepKeepsInv, PTL DEF StoreSpec

\* Type correctness of the run table and the event log.
THEOREM StoreTypeCorrect == StoreSpec => []StoreTypeOK
<1>1. StoreInv => StoreTypeOK
  BY DEF StoreInv
<1>. QED  BY <1>1, StoreInvariant, PTL

\* Single flight holds for any number of runs, fingerprints and callers.
THEOREM StoreSingleFlight == StoreSpec => []SingleFlight
<1>1. StoreInv => SingleFlight
  BY DEF StoreInv
<1>. QED  BY <1>1, StoreInvariant, PTL

\* No operation ever trips over a CHECK constraint.
THEOREM StoreMeetsChecks == StoreSpec => []RowsMeetChecks
<1>1. StoreInv => RowsMeetChecks
  BY DEF StoreInv
<1>. QED  BY <1>1, StoreInvariant, PTL

\* An accepted cancellation excludes completion.
THEOREM StoreHonoursCancellation == StoreSpec => []CancellationIsHonoured
<1>1. StoreInv => CancellationIsHonoured
  BY DEF StoreInv
<1>. QED  BY <1>1, StoreInvariant, PTL

\* The event log explains the row.
THEOREM StoreLogTellsStatus == StoreSpec => []LogTellsStatus
<1>1. StoreInv => LogTellsStatus
  BY DEF StoreInv
<1>. QED  BY <1>1, StoreInvariant, PTL

\* A step leaves the row and the log of a finished run alone.
LEMMA FinishedIsKept ==
    ASSUME StoreInv, [StoreNext]_storeVars, NEW r \in Runs, rows[r].status \in Terminal
    PROVE  Kept(r)
<1>1. CASE StoreNext
  <2>1. RunStep(r)
    BY <1>1, StepHasShape DEF StoreInv, StepShape
  <2>. QED
    BY <2>1 DEF RunStep, Inserted, Started, Ended, Progressed, Asked, Active, Terminal
<1>2. CASE UNCHANGED storeVars
  BY <1>2 DEF storeVars, Kept
<1>. QED  BY <1>1, <1>2

\* A step adds one event at most to a log, at its end.
LEMMA LogGrows ==
    ASSUME StoreInv, [StoreNext]_storeVars, NEW r \in Runs
    PROVE  /\ Len(events'[r]) \in {Len(events[r]), Len(events[r]) + 1}
           /\ \A i \in 1 .. Len(events[r]) : events'[r][i] = events[r][i]
<1>1. CASE StoreNext
  <2>1. RunStep(r) /\ events[r] \in Seq(Event) /\ rows[r].status \in Statuses
    BY <1>1, StepHasShape DEF StoreInv, StepShape, StoreTypeOK, Row
  <2>2. \/ events'[r] = events[r]
        \/ \E e : e \in Event /\ events'[r] = Append(events[r], e)
    <3>1. ASSUME NEW type \in {"status", "progress", "cancellation-requested"},
                 NEW s \in Active \cup Terminal, events'[r] = Logged(r, type, s)
          PROVE  \E e : e \in Event /\ events'[r] = Append(events[r], e)
      <4>1. [type |-> type, status |-> s] \in Event
        BY DEF Event
      <4>. QED  BY <3>1, <4>1 DEF Logged
    <3>2. CASE Kept(r)
      BY <3>2 DEF Kept
    <3>3. CASE Inserted(r) \/ Started(r) \/ Ended(r)
      BY <3>1, <3>3 DEF Inserted, Started, Ended, Active, Terminal
    <3>4. CASE Progressed(r) \/ Asked(r)
      BY <3>1, <3>4 DEF Progressed, Asked, Active, Terminal
    <3>. QED  BY <2>1, <3>2, <3>3, <3>4 DEF RunStep
  <2>. QED  BY <2>1, <2>2
<1>2. CASE UNCHANGED storeVars
  BY <1>2 DEF storeVars, StoreInv, StoreTypeOK
<1>. QED  BY <1>1, <1>2

\* A finished run's row and log are frozen.
THEOREM StoreTerminalIsFinal == StoreSpec => TerminalIsFinal
<1>1. ASSUME StoreInv, [StoreNext]_storeVars
      PROVE  [\A r \in Runs : rows[r].status \in Terminal
                => rows'[r] = rows[r] /\ events'[r] = events[r]]_storeVars
  BY <1>1, FinishedIsKept DEF Kept
<1>. QED
  BY <1>1, StoreInvariant, PTL DEF StoreSpec, TerminalIsFinal

\* The log only grows, at its end, by one event per transaction.
THEOREM StoreLogIsAppendOnly == StoreSpec => LogIsAppendOnly
<1>1. ASSUME StoreInv, [StoreNext]_storeVars
      PROVE  [\A r \in Runs :
                /\ Len(events'[r]) \in {Len(events[r]), Len(events[r]) + 1}
                /\ \A i \in 1 .. Len(events[r]) : events'[r][i] = events[r][i]]_storeVars
  BY <1>1, LogGrows
<1>. QED
  BY <1>1, StoreInvariant, PTL DEF StoreSpec, LogIsAppendOnly

-----------------------------------------------------------------------------
(* The store implements RunLifecycle.                                      *)

\* One run's part in a step, seen through the refinement mapping.
LEMMA LifecycleStep ==
    ASSUME StoreInv, [StoreNext]_storeVars
    PROVE  [Lifecycle!LifecycleNext]_(Lifecycle!lifecycleVars)
<1> USE DEF Lifecycle!lifecycleVars
<1>1. CASE UNCHANGED storeVars
  BY <1>1 DEF storeVars
<1>2. CASE StoreNext
  <2>1. StepShape
    BY <1>2, StepHasShape DEF StoreInv
  <2>2. \A r \in Runs : rows[r] \in Row /\ rows'[r] \in Row
    BY <2>1 DEF StoreInv, StoreTypeOK, StepShape
  <2>3. ASSUME NEW r \in Runs, Inserted(r)
        PROVE  Lifecycle!Create(r)
    <3>1. /\ rows[r].status = "absent" /\ rows'[r].status = "queued"
          /\ rows'[r].artifact = NoArtifact /\ ~rows'[r].cancelRequested
          /\ \A q \in Runs \ {r} : rows'[q] = rows[q]
      BY <2>3 DEF Inserted, QueuedRow, RowOf, Kept
    <3>2. rows[r].artifact = NoArtifact
      BY <3>1 DEF StoreInv, RowsMeetChecks
    <3>3. ~rows[r].cancelRequested
      BY <2>3, <3>1 DEF StoreInv, AbsentIsBlank
    <3>. QED
      BY <2>2, <3>1, <3>2, <3>3 DEF Lifecycle!Create, Row
  <2>4. ASSUME NEW r \in Runs, Asked(r)
        PROVE  Lifecycle!AskToCancel(r)
    <3>1. /\ rows[r].status \in Active /\ rows'[r].status = rows[r].status
          /\ rows'[r].artifact = rows[r].artifact /\ rows'[r].cancelRequested = TRUE
          /\ \A q \in Runs \ {r} : rows'[q] = rows[q]
      BY <2>2, <2>4 DEF Asked, Kept, Row
    <3>. QED
      BY <3>1 DEF Lifecycle!AskToCancel, Active
  <2>5. ASSUME \A r \in Runs : ~Inserted(r) /\ ~Asked(r), NEW moving \in SUBSET Runs,
               moving = {r \in Runs : Started(r) \/ Ended(r)}
        PROVE  Lifecycle!Advance(moving)
    <3>1. ASSUME NEW r \in Runs, r \notin moving
          PROVE  rows'[r] = rows[r]
      BY <2>1, <2>5, <3>1 DEF StepShape, RunStep, Kept, Progressed
    <3>2. ASSUME NEW r \in moving
          PROVE  /\ rows'[r].cancelRequested = rows[r].cancelRequested
                 /\ <<rows[r].status, rows'[r].status>> \in Lifecycle!Moves
                 /\ IF rows'[r].status = "completed"
                    THEN rows'[r].artifact \in Artifacts /\ ~rows[r].cancelRequested
                    ELSE rows'[r].artifact = NoArtifact
      <4>1. CASE Started(r)
        BY <4>1 DEF Started, SameRequest, Lifecycle!Moves
      <4>2. CASE Ended(r)
        <5>1. /\ rows'[r].artifact \in Artifacts \cup {NoArtifact}
              /\ rows'[r].status = "completed" =>
                    rows[r].status = "running" /\ ~rows[r].cancelRequested
              /\ rows'[r].status = "completed" <=> rows'[r].artifact # NoArtifact
              /\ rows[r].status \in Active /\ rows'[r].status \in Terminal
              /\ rows'[r].cancelRequested = rows[r].cancelRequested
          BY <2>2, <4>2 DEF Row, Ended, SameRequest
        <5>. QED
          BY <5>1 DEF Active, Terminal, Lifecycle!Moves
      <4>. QED  BY <2>5, <3>2, <4>1, <4>2
    <3>4. \A r \in Runs : rows'[r].cancelRequested = rows[r].cancelRequested
      BY <3>1, <3>2
    <3>5. Lifecycle!Advance(moving)
      <4>1. ASSUME NEW r \in Runs
            PROVE  /\ rows'[r].status = IF r \in moving THEN rows'[r].status
                                        ELSE rows[r].status
                   /\ rows'[r].artifact = IF r \in moving THEN rows'[r].artifact
                                          ELSE rows[r].artifact
        BY <3>1
      <4>. QED
        BY <3>2, <3>4, <4>1 DEF Lifecycle!Advance
    <3>. QED  BY <3>5
  <2>6. CASE \E r \in Runs : Inserted(r) \/ Asked(r)
    BY <2>3, <2>4, <2>6 DEF Lifecycle!LifecycleNext
  <2>7. CASE \A r \in Runs : ~Inserted(r) /\ ~Asked(r)
    BY <2>5, <2>7 DEF Lifecycle!LifecycleNext
  <2>. QED  BY <2>6, <2>7
<1>. QED  BY <1>1, <1>2

\* Whatever its callers do, the store only ever shows clients the lifecycle the
\* run contract documents.
THEOREM StoreImplementsLifecycle == StoreSpec => ImplementsLifecycle
<1>1. StoreInit => Lifecycle!LifecycleInit
  BY DEF StoreInit, Lifecycle!LifecycleInit, AbsentRow, RowOf
<1>2. StoreInv /\ [StoreNext]_storeVars => [Lifecycle!LifecycleNext]_(Lifecycle!lifecycleVars)
  BY LifecycleStep
<1>. QED
  BY <1>1, <1>2, StoreInvariant, PTL
  DEF StoreSpec, ImplementsLifecycle, Lifecycle!LifecycleSpec

=============================================================================
