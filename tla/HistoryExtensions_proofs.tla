---------------------- MODULE HistoryExtensions_proofs ----------------------
(***************************************************************************)
(* Proofs about HistoryExtensions, for any repositories, clients and       *)
(* bounds: whatever crashes, survivors of a crash and requests meet, a     *)
(* repository has one active extension, a running one is in the worker's   *)
(* hands, and a completed one has the snapshot it was asked for.           *)
(***************************************************************************)
EXTENDS HistoryExtensions, TLAPS

\* A repository, or what an unused row and an idle request hold in its place.
Places == Repositories \cup {CHOOSE p \in Repositories : TRUE}

ClientAt == {"idle", "asking", "identifying", "queueing"}
WorkerAt == {"down", "idle", "checking", "spawning", "watching", "snapshotting",
             "completing", "failing"}
Snapshot == [definition : Nat, covered : Nat]

ExtensionsTypeOK ==
    /\ extensions \in [Identifiers ->
          [state : States, repository : Places, definition : Nat, target : Nat]]
    /\ analysis \in [Repositories -> Snapshot]
    /\ snapshots \in [Repositories -> SUBSET Snapshot]
    /\ writers \subseteq Identifiers
    /\ client \in [Clients ->
          [at : ClientAt, repository : Places, covered : Nat, definition : Nat]]
    /\ worker \in [at : WorkerAt, extension : Identifiers \cup {NoExtension}]
    /\ stopping \in BOOLEAN

\* Requests and extensions are about allow-listed repositories.
AllowListed ==
    /\ \A x \in Identifiers :
          extensions[x].state # "absent" => extensions[x].repository \in Repositories
    /\ \A c \in Clients : client[c].at # "idle" => client[c].repository \in Repositories

\* Between its claim and the last update of its row, the extension the worker
\* carries out is running.
HeldIsRunning ==
    /\ worker.at \notin {"down", "idle"} =>
          worker.extension \in Identifiers /\ Mine.state = "running"
    /\ worker.at = "idle" => worker.extension = NoExtension

\* An extension is covered by an analysis, or by a snapshot of one.
Covers(made, x) ==
    /\ made.definition = extensions[x].definition
    /\ made.covered >= extensions[x].target \/ Exhausted(made.covered)

\* What the worker compared before it went on stays true until it records its
\* result: the definition from the check on, the coverage from the exit of the
\* process on, and then the snapshot.
ComparedStaysTrue ==
    /\ worker.at \in {"spawning", "watching", "snapshotting"} =>
          MyAnalysis.definition = Mine.definition
    /\ worker.at = "snapshotting" => Covers(MyAnalysis, worker.extension)
    /\ worker.at = "completing" =>
          \E made \in snapshots[Mine.repository] : Covers(made, worker.extension)

ExtensionsInv ==
    /\ ExtensionsTypeOK
    /\ AllowListed
    /\ HeldIsRunning
    /\ OneActiveExtension
    /\ RunningIsHeld
    /\ ComparedStaysTrue
    /\ CompletedIsSnapshotted

-----------------------------------------------------------------------------
(* Every step keeps the invariant.                                         *)

\* No extension is numbered zero.
LEMMA NoExtensionIsNone == NoExtension \notin Identifiers
  BY AmountsArePositive DEF NoExtension, Identifiers

\* The first state satisfies the invariant.
LEMMA ExtensionsInvInit == ExtensionsInit => ExtensionsInv
<1>. SUFFICES ASSUME ExtensionsInit PROVE ExtensionsInv
  OBVIOUS
<1>1. ExtensionsTypeOK
  BY DEF ExtensionsInit, ExtensionsTypeOK, Places, States, ClientAt, WorkerAt, Snapshot,
         NoExtension
<1>2. AllowListed /\ HeldIsRunning
  BY DEF ExtensionsInit, AllowListed, HeldIsRunning
<1>3. OneActiveExtension /\ RunningIsHeld /\ CompletedIsSnapshotted
  BY DEF ExtensionsInit, OneActiveExtension, RunningIsHeld, CompletedIsSnapshotted, Active
<1>4. ComparedStaysTrue
  BY DEF ExtensionsInit, ComparedStaysTrue
<1>. QED BY <1>1, <1>2, <1>3, <1>4 DEF ExtensionsInv

\* What is said of the extensions and the worker does not depend on the requests,
\* the processes that are alive or the stop event.
LEMMA ElsewhereIsIrrelevant ==
    ASSUME ExtensionsInv, UNCHANGED <<extensions, analysis, snapshots, worker>>
    PROVE  (HeldIsRunning /\ OneActiveExtension /\ RunningIsHeld /\ ComparedStaysTrue
            /\ CompletedIsSnapshotted)'
<1>1. (HeldIsRunning /\ OneActiveExtension /\ RunningIsHeld)'
  BY DEF ExtensionsInv, HeldIsRunning, OneActiveExtension, RunningIsHeld, Mine
<1>2. (ComparedStaysTrue /\ CompletedIsSnapshotted)'
  BY DEF ExtensionsInv, ComparedStaysTrue, CompletedIsSnapshotted, Covers, Mine, MyAnalysis
<1>. QED BY <1>1, <1>2

\* A request keeps the invariant; one that inserts an extension found no other.
LEMMA RequestKeeps == ExtensionsInv /\ RequestStep => ExtensionsInv'
<1>. SUFFICES ASSUME ExtensionsInv, RequestStep PROVE ExtensionsInv'
  OBVIOUS
<1>. USE DEF ExtensionsInv
<1>. PICK c \in Clients : \/ \E p \in Repositories : Asks(c, p)
                          \/ ReadsStatus(c) \/ ReadsDefinition(c)
                          \/ FailsToRead(c) \/ Queues(c)
  BY DEF RequestStep
<1>1. CASE \E p \in Repositories : Asks(c, p)
  <2>1. PICK p \in Repositories : Asks(c, p)
    BY <1>1
  <2>2. ExtensionsTypeOK'
    <3>. DEFINE moved == [client EXCEPT ![c].at = "asking"]
    <3>1. moved \in [Clients -> [at : ClientAt, repository : Places, covered : Nat,
                                 definition : Nat]]
      BY DEF ExtensionsTypeOK, ClientAt
    <3>2. client' = [moved EXCEPT ![c].repository = p]
      BY <2>1 DEF Asks
    <3>3. p \in Places
      BY DEF Places
    <3>. HIDE DEF moved
    <3>4. client' \in [Clients -> [at : ClientAt, repository : Places, covered : Nat,
                                   definition : Nat]]
      BY <3>1, <3>2, <3>3
    <3>. QED BY <2>1, <3>4 DEF Asks, ExtensionsTypeOK
  <2>3. AllowListed'
    BY <2>1 DEF Asks, ExtensionsTypeOK, AllowListed
  <2>. QED BY <2>1, <2>2, <2>3, ElsewhereIsIrrelevant DEF Asks
<1>2. CASE ReadsStatus(c)
  <2>1. analysis[client[c].repository].covered \in Nat
    BY <1>2 DEF ReadsStatus, ExtensionsTypeOK, AllowListed, Snapshot
  <2>2. ExtensionsTypeOK'
    BY <1>2, <2>1 DEF ReadsStatus, ExtensionsTypeOK, ClientAt
  <2>3. AllowListed'
    BY <1>2 DEF ReadsStatus, ExtensionsTypeOK, AllowListed
  <2>. QED BY <1>2, <2>2, <2>3, ElsewhereIsIrrelevant DEF ReadsStatus
<1>3. CASE FailsToRead(c)
  <2>1. (ExtensionsTypeOK /\ AllowListed)'
    BY <1>3 DEF FailsToRead, ExtensionsTypeOK, AllowListed, ClientAt
  <2>. QED BY <1>3, <2>1, ElsewhereIsIrrelevant DEF FailsToRead
<1>4. CASE ReadsDefinition(c)
  <2>1. analysis[client[c].repository].definition \in Nat
    BY <1>4 DEF ReadsDefinition, ExtensionsTypeOK, AllowListed, Snapshot
  <2>2. ExtensionsTypeOK'
    <3>. DEFINE next == IF Exhausted(client[c].covered) THEN "idle" ELSE "queueing"
               moved == [client EXCEPT ![c].at = next]
    <3>1. moved \in [Clients -> [at : ClientAt, repository : Places, covered : Nat,
                                 definition : Nat]]
      BY DEF ExtensionsTypeOK, ClientAt
    <3>2. client' = [moved EXCEPT
                       ![c].definition = analysis[client[c].repository].definition]
      BY <1>4 DEF ReadsDefinition
    <3>. HIDE DEF moved
    <3>3. client' \in [Clients -> [at : ClientAt, repository : Places, covered : Nat,
                                   definition : Nat]]
      BY <2>1, <3>1, <3>2
    <3>. QED BY <1>4, <3>3 DEF ReadsDefinition, ExtensionsTypeOK
  <2>3. AllowListed'
    BY <1>4 DEF ReadsDefinition, ExtensionsTypeOK, AllowListed
  <2>. QED BY <1>4, <2>2, <2>3, ElsewhereIsIrrelevant DEF ReadsDefinition
<1>5. CASE Queues(c) /\ UNCHANGED extensions
  <2>1. (ExtensionsTypeOK /\ AllowListed)'
    BY <1>5 DEF Queues, ExtensionsTypeOK, AllowListed, ClientAt
  <2>. QED BY <1>5, <2>1, ElsewhereIsIrrelevant DEF Queues
<1>6. CASE Queues(c) /\ extensions' # extensions
  <2>. DEFINE row == [state |-> "queued", repository |-> client[c].repository,
                     definition |-> client[c].definition,
                     target |-> Target(client[c].covered)]
  <2>1. PICK x \in Identifiers :
           /\ extensions[x].state = "absent"
           /\ extensions' = [extensions EXCEPT ![x] = row]
    BY <1>6 DEF Queues
  <2>2. /\ ActiveOf(client[c].repository) = {}
        /\ client[c].at = "queueing"
        /\ client' = [client EXCEPT ![c].at = "idle"]
        /\ UNCHANGED <<analysis, snapshots, writers, worker, stopping>>
    BY <1>6 DEF Queues
  <2>3. row \in [state : States, repository : Places, definition : Nat, target : Nat]
    BY AmountsArePositive DEF ExtensionsTypeOK, States, Active, Target
  <2>4. /\ extensions'[x] = row
        /\ \A y \in Identifiers : y # x => extensions'[y] = extensions[y]
    BY <2>1 DEF ExtensionsTypeOK
  <2>. HIDE DEF row
  <2>5. row.state = "queued" /\ row.repository = client[c].repository
    BY DEF row
  <2>6. ExtensionsTypeOK'
    BY <2>1, <2>2, <2>3 DEF ExtensionsTypeOK, ClientAt
  <2>7. AllowListed'
    <3>1. row.repository \in Repositories
      BY <2>2, <2>5 DEF AllowListed
    <3>2. \A y \in Identifiers : extensions'[y].state # "absent"
                                => extensions'[y].repository \in Repositories
      BY <2>4, <3>1 DEF AllowListed
    <3>3. \A d \in Clients : client'[d].at # "idle" => client'[d].repository \in Repositories
      BY <2>2 DEF AllowListed, ExtensionsTypeOK
    <3>. QED BY <3>2, <3>3 DEF AllowListed
  <2>8. (HeldIsRunning /\ RunningIsHeld)'
    BY <2>1, <2>2, <2>4, <2>5 DEF HeldIsRunning, RunningIsHeld, Mine
  <2>9. OneActiveExtension'
    <3>1. \A y \in Identifiers : extensions[y].state \in Active =>
             extensions[y].repository # row.repository
      BY <2>2, <2>5 DEF ActiveOf
    <3>. QED BY <3>1, <2>4 DEF OneActiveExtension
  <2>10. (ComparedStaysTrue /\ CompletedIsSnapshotted)'
    BY <2>1, <2>2, <2>4, <2>5
       DEF ComparedStaysTrue, CompletedIsSnapshotted, HeldIsRunning, Covers, Mine, MyAnalysis
  <2>. QED BY <2>6, <2>7, <2>8, <2>9, <2>10
<1>. QED BY <1>1, <1>2, <1>3, <1>4, <1>5, <1>6 DEF Queues

\* When only the worker's place changes, what is said of the table and the
\* snapshots stays as it is.
LEMMA TableIsUntouched ==
    ASSUME ExtensionsInv, UNCHANGED <<extensions, analysis, snapshots>>
    PROVE  /\ OneActiveExtension' /\ CompletedIsSnapshotted'
           /\ UNCHANGED client => AllowListed'
  BY DEF ExtensionsInv, OneActiveExtension, CompletedIsSnapshotted, AllowListed, Covers

\* The worker holds an extension of an allow-listed repository.
LEMMA HeldIsAllowListed ==
    ASSUME ExtensionsInv, worker.at \notin {"down", "idle"}
    PROVE  /\ worker.extension \in Identifiers
           /\ Mine.state = "running" /\ Mine.repository \in Repositories
           /\ Mine.definition \in Nat /\ Mine.target \in Nat
           /\ MyAnalysis \in Snapshot
           /\ \A x \in Identifiers :
                 extensions[x].state = "running" => x = worker.extension
<1>1. worker.extension \in Identifiers /\ Mine.state = "running"
  BY DEF ExtensionsInv, HeldIsRunning
<1>2. Mine.repository \in Repositories
  BY <1>1 DEF ExtensionsInv, AllowListed, Mine
<1>3. Mine.definition \in Nat /\ Mine.target \in Nat /\ MyAnalysis \in Snapshot
  BY <1>1, <1>2 DEF ExtensionsInv, ExtensionsTypeOK, Mine, MyAnalysis
<1>. QED BY <1>1, <1>2, <1>3 DEF ExtensionsInv, RunningIsHeld

\* A worker that starts finds nothing in its hands and fails what was running.
LEMMA StartKeeps == ExtensionsInv /\ WorkerStarts => ExtensionsInv'
<1>. SUFFICES ASSUME ExtensionsInv, WorkerStarts PROVE ExtensionsInv'
  OBVIOUS
<1>1. \A x \in Identifiers :
         /\ extensions'[x] = IF extensions[x].state = "running"
                            THEN [extensions[x] EXCEPT !.state = "failed"]
                            ELSE extensions[x]
         /\ extensions'[x].repository = extensions[x].repository
         /\ extensions'[x].definition = extensions[x].definition
         /\ extensions'[x].target = extensions[x].target
         /\ extensions'[x].state # "running"
         /\ extensions[x].state # "running" => extensions'[x].state = extensions[x].state
         /\ extensions[x].state = "running" => extensions'[x].state = "failed"
         /\ extensions'[x] \in
               [state : States, repository : Places, definition : Nat, target : Nat]
  BY DEF WorkerStarts, ExtensionsInv, ExtensionsTypeOK, States
<1>2. ExtensionsTypeOK'
  BY <1>1 DEF WorkerStarts, ExtensionsInv, ExtensionsTypeOK, WorkerAt, NoExtension
<1>3. AllowListed'
  BY <1>1 DEF WorkerStarts, ExtensionsInv, AllowListed
<1>4. (HeldIsRunning /\ RunningIsHeld)'
  BY <1>1 DEF WorkerStarts, HeldIsRunning, RunningIsHeld
<1>5. OneActiveExtension'
  BY <1>1 DEF WorkerStarts, ExtensionsInv, OneActiveExtension, Active
<1>6. (ComparedStaysTrue /\ CompletedIsSnapshotted)'
  BY <1>1 DEF WorkerStarts, ExtensionsInv, ComparedStaysTrue, CompletedIsSnapshotted, Covers
<1>. QED BY <1>2, <1>3, <1>4, <1>5, <1>6 DEF ExtensionsInv

\* A crash, a stop request and an exit lose nothing the invariant speaks of.
LEMMA LeavingKeeps ==
    ExtensionsInv /\ (WorkerCrashes \/ WorkerIsStopped \/ WorkerExits) => ExtensionsInv'
<1>. SUFFICES ASSUME ExtensionsInv, WorkerCrashes \/ WorkerIsStopped \/ WorkerExits
              PROVE  ExtensionsInv'
  OBVIOUS
<1>1. UNCHANGED <<extensions, analysis, snapshots, writers, client>>
  BY DEF WorkerCrashes, WorkerIsStopped, WorkerExits
<1>2. CASE WorkerIsStopped
  <2>1. ExtensionsTypeOK'
    BY <1>1, <1>2 DEF WorkerIsStopped, ExtensionsInv, ExtensionsTypeOK
  <2>. QED BY <1>1, <1>2, <2>1, TableIsUntouched, ElsewhereIsIrrelevant
           DEF WorkerIsStopped, ExtensionsInv
<1>3. CASE WorkerCrashes \/ WorkerExits
  <2>1. worker'.at = "down" /\ worker'.extension = worker.extension /\ UNCHANGED stopping
    BY <1>3 DEF WorkerCrashes, WorkerExits, Goes, ExtensionsInv, ExtensionsTypeOK
  <2>2. ExtensionsTypeOK'
    BY <1>1, <1>3, <2>1
       DEF WorkerCrashes, WorkerExits, Goes, ExtensionsInv, ExtensionsTypeOK, WorkerAt
  <2>3. (HeldIsRunning /\ RunningIsHeld /\ ComparedStaysTrue)'
    BY <2>1 DEF HeldIsRunning, RunningIsHeld, ComparedStaysTrue
  <2>. QED BY <1>1, <2>2, <2>3, TableIsUntouched DEF ExtensionsInv
<1>. QED BY <1>2, <1>3

\* A claim takes a queued extension; nothing was running.
LEMMA ClaimKeeps == ExtensionsInv /\ Claims => ExtensionsInv'
<1>. SUFFICES ASSUME ExtensionsInv, Claims PROVE ExtensionsInv'
  OBVIOUS
<1>. PICK x \in Identifiers :
        /\ extensions[x].state = "queued"
        /\ extensions' = [extensions EXCEPT ![x].state = "running"]
        /\ worker' = [at |-> "checking", extension |-> x]
  BY DEF Claims
<1>1. /\ worker.at = "idle"
      /\ UNCHANGED <<analysis, snapshots, writers, client, stopping>>
  BY DEF Claims
<1>2. /\ extensions'[x] = [extensions[x] EXCEPT !.state = "running"]
      /\ extensions'[x].state = "running"
      /\ \A y \in Identifiers : y # x => extensions'[y] = extensions[y]
      /\ \A y \in Identifiers :
            /\ extensions'[y].repository = extensions[y].repository
            /\ extensions'[y].definition = extensions[y].definition
            /\ extensions'[y].target = extensions[y].target
  BY DEF ExtensionsInv, ExtensionsTypeOK
<1>3. ExtensionsTypeOK'
  BY <1>1, <1>2 DEF ExtensionsInv, ExtensionsTypeOK, States, Active, WorkerAt
<1>4. AllowListed'
  BY <1>1, <1>2 DEF ExtensionsInv, AllowListed
<1>5. HeldIsRunning'
  BY <1>2 DEF HeldIsRunning, Mine
<1>6. RunningIsHeld'
  BY <1>1, <1>2 DEF ExtensionsInv, RunningIsHeld
<1>7. OneActiveExtension'
  BY <1>2 DEF ExtensionsInv, OneActiveExtension, Active
<1>8. (ComparedStaysTrue /\ CompletedIsSnapshotted)'
  BY <1>1, <1>2 DEF ExtensionsInv, ComparedStaysTrue, CompletedIsSnapshotted, Covers
<1>. QED BY <1>3, <1>4, <1>5, <1>6, <1>7, <1>8 DEF ExtensionsInv

\* The steps that only move the worker on: the check of the definition, the start
\* of the process, its end.
MovesOn == ChecksDefinition \/ SpawnsWriter \/ TerminatesWriter \/ FindsWriterExited

\* What the worker compares when it moves on is what the invariant needs there.
LEMMA MovingOnKeeps == ExtensionsInv /\ MovesOn => ExtensionsInv'
<1>. SUFFICES ASSUME ExtensionsInv, MovesOn PROVE ExtensionsInv'
  OBVIOUS
<1>1. /\ UNCHANGED <<extensions, analysis, snapshots, client, stopping>>
      /\ worker.at \in {"checking", "spawning", "watching"}
  BY DEF MovesOn, ChecksDefinition, SpawnsWriter, TerminatesWriter, FindsWriterExited
<1>2. /\ worker'.extension = worker.extension
      /\ worker'.at \in {"spawning", "watching", "snapshotting", "failing"}
  BY DEF MovesOn, ChecksDefinition, SpawnsWriter, TerminatesWriter, FindsWriterExited, Goes,
         ExtensionsInv, ExtensionsTypeOK
<1>3. worker.extension \in Identifiers /\ Mine.state = "running"
  BY <1>1, HeldIsAllowListed
<1>4. worker' \in [at : WorkerAt, extension : Identifiers \cup {NoExtension}]
  <2>1. \E at \in WorkerAt : worker' = [worker EXCEPT !.at = at]
    BY DEF MovesOn, ChecksDefinition, SpawnsWriter, TerminatesWriter, FindsWriterExited, Goes,
           WorkerAt
  <2>. QED BY <2>1 DEF ExtensionsInv, ExtensionsTypeOK
<1>5. writers' \subseteq Identifiers
  BY <1>3 DEF MovesOn, ChecksDefinition, SpawnsWriter, TerminatesWriter, FindsWriterExited,
              ExtensionsInv, ExtensionsTypeOK
<1>6. ExtensionsTypeOK'
  BY <1>1, <1>4, <1>5 DEF ExtensionsInv, ExtensionsTypeOK
<1>7. (HeldIsRunning /\ RunningIsHeld)'
  BY <1>1, <1>2, <1>3 DEF ExtensionsInv, HeldIsRunning, RunningIsHeld, Mine
<1>8. ComparedStaysTrue'
  <2>1. UNCHANGED Mine /\ UNCHANGED MyAnalysis
    BY <1>1, <1>2 DEF Mine, MyAnalysis
  <2>2. worker'.at # "failing" => MyAnalysis.definition = Mine.definition
    BY <1>2 DEF MovesOn, ChecksDefinition, SpawnsWriter, TerminatesWriter, FindsWriterExited,
                Goes, ExtensionsInv, ExtensionsTypeOK, ComparedStaysTrue
  <2>3. worker'.at = "snapshotting" =>
           MyAnalysis.covered >= Mine.target \/ Exhausted(MyAnalysis.covered)
    BY DEF MovesOn, ChecksDefinition, SpawnsWriter, TerminatesWriter, FindsWriterExited,
           Goes, ExtensionsInv, ExtensionsTypeOK
  <2>4. worker'.at = "snapshotting" => Covers(MyAnalysis, worker.extension)
    BY <2>2, <2>3 DEF Covers, Mine
  <2>5. worker'.at = "snapshotting" => Covers(MyAnalysis, worker.extension)'
    BY <1>1, <1>2, <2>1, <2>4 DEF Covers, Exhausted
  <2>. QED BY <1>2, <2>1, <2>2, <2>5 DEF ComparedStaysTrue
<1>. QED BY <1>1, <1>6, <1>7, <1>8, TableIsUntouched DEF ExtensionsInv

\* The row that is set to running is running already.
LEMMA WatchingKeeps == ExtensionsInv /\ Watches => ExtensionsInv' /\ UNCHANGED extensions
<1>. SUFFICES ASSUME ExtensionsInv, Watches PROVE ExtensionsInv' /\ UNCHANGED extensions
  OBVIOUS
<1>1. /\ worker.at = "watching" /\ Becomes("running")
      /\ UNCHANGED <<analysis, snapshots, writers, client, worker, stopping>>
  BY DEF Watches
<1>2. worker.extension \in Identifiers /\ extensions[worker.extension].state = "running"
  BY <1>1, HeldIsAllowListed DEF Mine
<1>3. UNCHANGED extensions
  <2>1. [extensions[worker.extension] EXCEPT !.state = "running"]
           = extensions[worker.extension]
    BY <1>2 DEF ExtensionsInv, ExtensionsTypeOK
  <2>. QED BY <1>1, <1>2, <2>1 DEF Becomes, ExtensionsInv, ExtensionsTypeOK
<1>4. (ExtensionsTypeOK /\ AllowListed)'
  BY <1>1, <1>3 DEF ExtensionsInv, ExtensionsTypeOK, AllowListed
<1>. QED BY <1>1, <1>3, <1>4, ElsewhereIsIrrelevant DEF ExtensionsInv

\* The snapshot is made of the analysis the extension is covered by.
LEMMA SnapshotKeeps == ExtensionsInv /\ MakesSnapshot => ExtensionsInv'
<1>. SUFFICES ASSUME ExtensionsInv, MakesSnapshot PROVE ExtensionsInv'
  OBVIOUS
<1>1. /\ worker.at = "snapshotting"
      /\ UNCHANGED <<extensions, analysis, writers, client, stopping>>
  BY DEF MakesSnapshot
<1>2. /\ worker.extension \in Identifiers /\ Mine.state = "running"
      /\ Mine.repository \in Repositories /\ MyAnalysis \in Snapshot
  BY <1>1, HeldIsAllowListed
<1>3. /\ worker'.extension = worker.extension
      /\ worker' \in [at : WorkerAt, extension : Identifiers \cup {NoExtension}]
      /\ worker'.at \in {"completing", "failing"}
  BY DEF MakesSnapshot, Goes, ExtensionsInv, ExtensionsTypeOK, WorkerAt
<1>4. /\ \A p \in Repositories : snapshots[p] \subseteq snapshots'[p]
      /\ snapshots' \in [Repositories -> SUBSET Snapshot]
      /\ worker'.at = "completing" => MyAnalysis \in snapshots'[Mine.repository]
  <2>1. snapshots \in [Repositories -> SUBSET Snapshot] /\ worker \in [at : WorkerAt,
          extension : Identifiers \cup {NoExtension}]
    BY DEF ExtensionsInv, ExtensionsTypeOK
  <2>2. \/ snapshots' = [snapshots EXCEPT ![Mine.repository] = @ \cup {MyAnalysis}]
        \/ snapshots' = snapshots /\ worker'.at # "completing"
    BY <2>1 DEF MakesSnapshot, Goes
  <2>. QED BY <1>2, <2>1, <2>2
<1>5. (ExtensionsTypeOK /\ AllowListed)'
  BY <1>1, <1>3, <1>4 DEF ExtensionsInv, ExtensionsTypeOK, AllowListed
<1>6. (HeldIsRunning /\ OneActiveExtension /\ RunningIsHeld)'
  BY <1>1, <1>2, <1>3 DEF ExtensionsInv, HeldIsRunning, OneActiveExtension, RunningIsHeld, Mine
<1>7. ComparedStaysTrue'
  <2>1. Covers(MyAnalysis, worker.extension)
    BY <1>1 DEF ExtensionsInv, ComparedStaysTrue
  <2>2. UNCHANGED Mine
    BY <1>1, <1>3 DEF Mine
  <2>3. worker'.at = "completing" =>
           \E made \in snapshots'[Mine.repository] : Covers(made, worker.extension)
    BY <1>4, <2>1
  <2>. QED BY <1>1, <1>3, <2>2, <2>3 DEF ComparedStaysTrue, Covers
<1>8. CompletedIsSnapshotted'
  <2>. SUFFICES ASSUME NEW x \in Identifiers, extensions[x].state = "completed"
                PROVE  \E made \in snapshots'[extensions[x].repository] : Covers(made, x)
    BY <1>1 DEF CompletedIsSnapshotted, Covers
  <2>1. \E made \in snapshots[extensions[x].repository] : Covers(made, x)
    BY DEF ExtensionsInv, CompletedIsSnapshotted, Covers
  <2>2. extensions[x].repository \in Repositories
    BY DEF ExtensionsInv, AllowListed
  <2>. QED BY <2>1, <2>2, <1>4
<1>. QED BY <1>5, <1>6, <1>7, <1>8 DEF ExtensionsInv

\* The last update of the row completes an extension only after its snapshot.
LEMMA ResultKeeps == ExtensionsInv /\ RecordsResult => ExtensionsInv'
<1>. SUFFICES ASSUME ExtensionsInv, RecordsResult PROVE ExtensionsInv'
  OBVIOUS
<1>. DEFINE x == worker.extension
           end == IF worker.at = "completing" THEN "completed" ELSE "failed"
<1>1. /\ worker.at \in {"completing", "failing"}
      /\ extensions' = [extensions EXCEPT ![x].state = end]
      /\ worker' = [at |-> "idle", extension |-> NoExtension]
      /\ UNCHANGED <<analysis, snapshots, writers, client, stopping>>
  BY DEF RecordsResult, Becomes
<1>2. /\ x \in Identifiers /\ extensions[x].state = "running"
      /\ \A y \in Identifiers : extensions[y].state = "running" => y = x
  BY <1>1, HeldIsAllowListed DEF Mine
<1>3. end \in {"completed", "failed"} /\ (end = "completed" <=> worker.at = "completing")
  OBVIOUS
<1>. HIDE DEF x, end
<1>4. /\ extensions'[x] = [extensions[x] EXCEPT !.state = end]
      /\ extensions'[x].state = end
      /\ \A y \in Identifiers : y # x => extensions'[y] = extensions[y]
      /\ \A y \in Identifiers :
            /\ extensions'[y].repository = extensions[y].repository
            /\ extensions'[y].definition = extensions[y].definition
            /\ extensions'[y].target = extensions[y].target
  BY <1>1, <1>2 DEF ExtensionsInv, ExtensionsTypeOK
<1>5. ExtensionsTypeOK'
  BY <1>1, <1>2, <1>3, <1>4 DEF ExtensionsInv, ExtensionsTypeOK, States, WorkerAt
<1>6. AllowListed'
  BY <1>1, <1>2, <1>4 DEF ExtensionsInv, AllowListed
<1>7. (HeldIsRunning /\ ComparedStaysTrue)'
  BY <1>1 DEF HeldIsRunning, ComparedStaysTrue
<1>8. RunningIsHeld'
  BY <1>2, <1>3, <1>4 DEF RunningIsHeld
<1>9. OneActiveExtension'
  BY <1>2, <1>3, <1>4 DEF ExtensionsInv, OneActiveExtension, Active
<1>10. CompletedIsSnapshotted'
  <2>. SUFFICES ASSUME NEW y \in Identifiers, extensions'[y].state = "completed"
                PROVE  \E made \in snapshots[extensions[y].repository] : Covers(made, y)
    BY <1>1, <1>4 DEF CompletedIsSnapshotted, Covers
  <2>1. CASE y = x
    BY <2>1, <1>3, <1>4 DEF ExtensionsInv, ComparedStaysTrue, Mine, x
  <2>2. CASE y # x
    BY <2>2, <1>4 DEF ExtensionsInv, CompletedIsSnapshotted, Covers
  <2>. QED BY <2>1, <2>2
<1>. QED BY <1>5, <1>6, <1>7, <1>8, <1>9, <1>10 DEF ExtensionsInv

\* A process that commits or exits undoes no comparison of the worker: coverage
\* only grows, and an exhausted history stays so.
LEMMA WriterKeeps ==
    ExtensionsInv /\ (\E x \in Identifiers : WriterStep(x)) => ExtensionsInv'
<1>. SUFFICES ASSUME ExtensionsInv, NEW x \in Identifiers, WriterStep(x)
              PROVE  ExtensionsInv'
  OBVIOUS
<1>1. CASE WriterExits(x)
  <2>1. (ExtensionsTypeOK /\ AllowListed)'
    BY <1>1 DEF WriterExits, ExtensionsInv, ExtensionsTypeOK, AllowListed
  <2>. QED BY <1>1, <2>1, ElsewhereIsIrrelevant DEF WriterExits, ExtensionsInv
<1>2. CASE WriterCommits(x)
  <2>. DEFINE p == extensions[x].repository
  <2>1. /\ analysis[p].covered < extensions[x].target /\ ~Exhausted(analysis[p].covered)
        /\ analysis' = [analysis EXCEPT ![p].covered = @ + 1]
        /\ UNCHANGED <<extensions, snapshots, writers, client, worker, stopping>>
    BY <1>2 DEF WriterCommits
  <2>. HIDE DEF p
  <2>2. \A q \in Repositories :
           /\ analysis'[q] \in Snapshot
           /\ analysis'[q].definition = analysis[q].definition
           /\ analysis'[q].covered >= analysis[q].covered
           /\ Exhausted(analysis[q].covered) => analysis'[q].covered = analysis[q].covered
    BY <2>1 DEF ExtensionsInv, ExtensionsTypeOK, Snapshot
  <2>3. analysis' \in [Repositories -> Snapshot]
    BY <2>1, <2>2 DEF ExtensionsInv, ExtensionsTypeOK
  <2>4. (ExtensionsTypeOK /\ AllowListed)'
    BY <2>1, <2>3 DEF ExtensionsInv, ExtensionsTypeOK, AllowListed
  <2>5. (HeldIsRunning /\ OneActiveExtension /\ RunningIsHeld /\ CompletedIsSnapshotted)'
    BY <2>1 DEF ExtensionsInv, HeldIsRunning, OneActiveExtension, RunningIsHeld,
                CompletedIsSnapshotted, Mine
  <2>6. ComparedStaysTrue'
    <3>1. UNCHANGED Mine
      BY <2>1 DEF Mine
    <3>2. CASE worker.at \in {"spawning", "watching", "snapshotting"}
      <4>1. /\ Mine.repository \in Repositories /\ MyAnalysis \in Snapshot
            /\ Mine.target \in Nat
        BY <3>2, HeldIsAllowListed
      <4>2. /\ MyAnalysis' \in Snapshot /\ MyAnalysis'.definition = MyAnalysis.definition
            /\ MyAnalysis'.covered >= MyAnalysis.covered
            /\ Exhausted(MyAnalysis.covered) => MyAnalysis'.covered = MyAnalysis.covered
        BY <3>1, <4>1, <2>2 DEF MyAnalysis
      <4>3. worker.at = "snapshotting" => Covers(MyAnalysis', worker.extension)
        BY <4>1, <4>2 DEF ExtensionsInv, ComparedStaysTrue, Covers, Mine, Snapshot, Exhausted
      <4>. QED BY <2>1, <3>1, <3>2, <4>2, <4>3
               DEF ExtensionsInv, ComparedStaysTrue, Covers, Exhausted
    <3>3. CASE worker.at \notin {"spawning", "watching", "snapshotting"}
      BY <2>1, <3>1, <3>3 DEF ExtensionsInv, ComparedStaysTrue, Covers
    <3>. QED BY <3>2, <3>3
  <2>. QED BY <2>4, <2>5, <2>6 DEF ExtensionsInv
<1>. QED BY <1>1, <1>2 DEF WriterStep

\* An analysis is recreated only while the worker holds no extension of it.
LEMMA RecreationKeeps ==
    ExtensionsInv /\ (\E p \in Repositories : RecreateInPeace(p)) => ExtensionsInv'
<1>. SUFFICES ASSUME ExtensionsInv, NEW p \in Repositories, RecreateInPeace(p)
              PROVE  ExtensionsInv'
  OBVIOUS
<1>1. /\ worker.extension # NoExtension => Mine.repository # p
      /\ analysis' = [analysis EXCEPT ![p].definition = @ + 1, ![p].covered = 0]
      /\ UNCHANGED <<extensions, snapshots, writers, client, worker, stopping>>
  BY DEF RecreateInPeace, Recreate
<1>2. /\ analysis' \in [Repositories -> Snapshot]
      /\ \A q \in Repositories : q # p => analysis'[q] = analysis[q]
  <2>. DEFINE once == [analysis EXCEPT ![p].definition = @ + 1]
  <2>1. /\ analysis \in [Repositories -> Snapshot]
        /\ analysis' = [once EXCEPT ![p].covered = 0]
    BY <1>1 DEF ExtensionsInv, ExtensionsTypeOK
  <2>2. once \in [Repositories -> Snapshot] /\ \A q \in Repositories : q # p => once[q] = analysis[q]
    BY <2>1 DEF Snapshot
  <2>. HIDE DEF once
  <2>. QED BY <2>1, <2>2 DEF Snapshot
<1>3. (ExtensionsTypeOK /\ AllowListed)'
  BY <1>1, <1>2 DEF ExtensionsInv, ExtensionsTypeOK, AllowListed
<1>4. (HeldIsRunning /\ OneActiveExtension /\ RunningIsHeld /\ CompletedIsSnapshotted)'
  BY <1>1 DEF ExtensionsInv, HeldIsRunning, OneActiveExtension, RunningIsHeld,
              CompletedIsSnapshotted, Mine
<1>5. ComparedStaysTrue'
  <2>1. UNCHANGED Mine
    BY <1>1 DEF Mine
  <2>2. CASE worker.at \notin {"down", "idle"}
    <3>1. UNCHANGED MyAnalysis
      BY <2>1, <2>2, <1>1, <1>2, HeldIsAllowListed, NoExtensionIsNone DEF MyAnalysis
    <3>. QED BY <1>1, <2>1, <3>1 DEF ExtensionsInv, ComparedStaysTrue, Covers
  <2>3. CASE worker.at \in {"down", "idle"}
    BY <1>1, <2>3 DEF ComparedStaysTrue
  <2>. QED BY <2>2, <2>3
<1>. QED BY <1>3, <1>4, <1>5 DEF ExtensionsInv

\* The invariant is inductive.
LEMMA ExtensionsInvStep == ExtensionsInv /\ [PeacefulNext]_extensionVars => ExtensionsInv'
<1>. SUFFICES ASSUME ExtensionsInv, [PeacefulNext]_extensionVars PROVE ExtensionsInv'
  OBVIOUS
<1>1. CASE WorkerStep
  BY <1>1, ClaimKeeps, MovingOnKeeps, WatchingKeeps, SnapshotKeeps, ResultKeeps, LeavingKeeps
     DEF WorkerStep, MovesOn
<1>2. CASE CommonNext
  BY <1>1, <1>2, RequestKeeps, StartKeeps, LeavingKeeps, WriterKeeps DEF CommonNext
<1>3. CASE UNCHANGED extensionVars
  <2>1. (ExtensionsTypeOK /\ AllowListed)'
    BY <1>3 DEF extensionVars, ExtensionsInv, ExtensionsTypeOK, AllowListed
  <2>. QED BY <1>3, <2>1, ElsewhereIsIrrelevant DEF extensionVars, ExtensionsInv
<1>. QED BY <1>2, <1>3, RecreationKeeps DEF PeacefulNext

-----------------------------------------------------------------------------
(* The theorems.                                                           *)

\* Every state of the extensions satisfies the invariant, whatever order requests,
\* the worker, crashes and processes that survive them come in.
THEOREM ExtensionsAlwaysInv == PeacefulSpec => []ExtensionsInv
  BY ExtensionsInvInit, ExtensionsInvStep, PTL DEF PeacefulSpec

\* Rows, requests and the worker keep to their types (the CHECKs of the table).
THEOREM ExtensionsTypeCorrect == PeacefulSpec => []ExtensionsTypeOK
<1>1. ExtensionsInv => ExtensionsTypeOK
  BY DEF ExtensionsInv
<1>. QED BY <1>1, ExtensionsAlwaysInv, PTL

\* Duplicate requests reuse the active extension: the unique index of the table
\* never rejects an insertion, and the worker's update never makes two active.
THEOREM AlwaysOneActiveExtension == PeacefulSpec => []OneActiveExtension
<1>1. ExtensionsInv => OneActiveExtension
  BY DEF ExtensionsInv
<1>. QED BY <1>1, ExtensionsAlwaysInv, PTL

\* While the worker is up, a running extension is the one it holds, so recovery at
\* start-up is the only recovery needed.
THEOREM RunningIsAlwaysHeld == PeacefulSpec => []RunningIsHeld
<1>1. ExtensionsInv => RunningIsHeld
  BY DEF ExtensionsInv
<1>. QED BY <1>1, ExtensionsAlwaysInv, PTL

\* A completed extension has a snapshot of the analysis it was queued for that
\* covers its target, or the whole history.
THEOREM CompletedIsAlwaysSnapshotted == PeacefulSpec => []CompletedIsSnapshotted
<1>1. ExtensionsInv => CompletedIsSnapshotted
  BY DEF ExtensionsInv
<1>. QED BY <1>1, ExtensionsAlwaysInv, PTL

\* The end of an extension is final, although the worker writes "running" to its
\* row every second without looking at it.
FinishedStays ==
    \A x \in Identifiers : extensions[x].state \in {"completed", "failed"} =>
        extensions'[x] = extensions[x]

\* A completed or failed extension never changes again.
THEOREM FinishedAlwaysStays == PeacefulSpec => [][FinishedStays]_extensionVars
<1>1. ExtensionsInv /\ [PeacefulNext]_extensionVars => [FinishedStays]_extensionVars
  <2>. SUFFICES ASSUME ExtensionsInv, PeacefulNext, NEW x \in Identifiers,
                       extensions[x].state \in {"completed", "failed"}
                PROVE  extensions'[x] = extensions[x]
    BY DEF FinishedStays
  <2>1. CASE RequestStep
    BY <2>1 DEF RequestStep, Asks, ReadsStatus, ReadsDefinition, FailsToRead, Queues,
                ExtensionsInv, ExtensionsTypeOK
  <2>2. CASE WorkerStarts
    BY <2>2 DEF WorkerStarts
  <2>3. CASE Claims
    BY <2>3 DEF Claims, ExtensionsInv, ExtensionsTypeOK
  <2>4. CASE RecordsResult
    <3>1. worker.extension \in Identifiers /\ extensions[worker.extension].state = "running"
      BY <2>4, HeldIsAllowListed DEF RecordsResult, Mine
    <3>. QED BY <2>4, <3>1 DEF RecordsResult, Becomes, ExtensionsInv, ExtensionsTypeOK
  <2>5. CASE Watches
    BY <2>5, WatchingKeeps
  <2>6. CASE ChecksDefinition \/ SpawnsWriter \/ TerminatesWriter \/ FindsWriterExited
             \/ MakesSnapshot \/ WorkerExits \/ WorkerCrashes \/ WorkerIsStopped
    BY <2>6 DEF ChecksDefinition, SpawnsWriter, TerminatesWriter, FindsWriterExited,
                MakesSnapshot, WorkerExits, WorkerCrashes, WorkerIsStopped
  <2>7. CASE (\E y \in Identifiers : WriterStep(y)) \/ \E p \in Repositories : RecreateInPeace(p)
    BY <2>7 DEF WriterStep, WriterCommits, WriterExits, RecreateInPeace, Recreate
  <2>. QED BY <2>1, <2>2, <2>3, <2>4, <2>5, <2>6, <2>7 DEF PeacefulNext, CommonNext, WorkerStep
<1>. QED BY <1>1, ExtensionsAlwaysInv, PTL DEF PeacefulSpec

=============================================================================
