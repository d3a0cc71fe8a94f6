------------------------- MODULE HistoryExtensions --------------------------
(***************************************************************************)
(* Requests to extend a saved analysis: srcdiffvisual/history/extensions.py *)
(* queues them in the run database, and the history worker carries them    *)
(* out one at a time by running srcmove-history, which is a process of its *)
(* own session and checkpoints each comparison it makes.                   *)
(*                                                                         *)
(* A web request reads the status and the definition of the analysis from  *)
(* srcmove-history before its transaction begins; the worker reads them    *)
(* again before it starts the process and after it ended.  The worker may  *)
(* be stopped, may crash, and may be started again while the process of    *)
(* its previous life runs on.  An operator may recreate an analysis, but   *)
(* not while a request about it is under way or the worker carries an      *)
(* extension of it out: the code compares definitions for that case, and   *)
(* between its comparison and the start of the process nothing guards it.  *)
(*                                                                         *)
(* srcMove itself is outside the repository: its coverage counter and its  *)
(* rule that a snapshot cannot be made beside a writer are modelled from   *)
(* how the code uses them.  Extensions are numbered in the order of their  *)
(* creation times.                                                         *)
(***************************************************************************)
EXTENDS Naturals

CONSTANTS
    Repositories,    \* the allow-listed repositories
    Clients,         \* web requests
    MaxExtensions,   \* bound on the requests that insert an extension
    Count,           \* how many more comparisons a request asks for
    HistoryLength,   \* comparisons in the frozen history
    MaxDefinition    \* bound on the recreations of an analysis

ASSUME AmountsArePositive ==
    /\ Count \in Nat \ {0} /\ HistoryLength \in Nat \ {0}
    /\ MaxExtensions \in Nat /\ MaxDefinition \in Nat

VARIABLES
    extensions,  \* the history_extensions table
    analysis,    \* per repository, its frozen definition and committed comparisons
    snapshots,   \* per repository, the definitions and coverages snapshots were made of
    writers,     \* extensions whose srcmove-history process is alive
    client,      \* per request, where queue_extension is and what it read
    worker,      \* where process_extension is and the extension it holds
    stopping     \* the worker's stop event

extensionVars == <<extensions, analysis, snapshots, writers, client, worker, stopping>>

Identifiers == 1 .. MaxExtensions
NoExtension == 0
Active == {"queued", "running"}
States == {"absent"} \cup Active \cup {"completed", "failed"}

ExtensionsInit ==
    /\ extensions = [x \in Identifiers |->
          [state |-> "absent", repository |-> CHOOSE p \in Repositories : TRUE,
           definition |-> 0, target |-> 0]]
    /\ analysis = [p \in Repositories |-> [definition |-> 0, covered |-> 0]]
    /\ snapshots = [p \in Repositories |-> {}]
    /\ writers = {}
    /\ client = [c \in Clients |->
          [at |-> "idle", repository |-> CHOOSE p \in Repositories : TRUE,
           covered |-> 0, definition |-> 0]]
    /\ worker = [at |-> "down", extension |-> NoExtension]
    /\ stopping = FALSE

Exhausted(covered) == covered = HistoryLength

\* Mutant: a running extension does not answer a request.
QueuedOf(p) ==
    {x \in Identifiers : extensions[x].repository = p /\ extensions[x].state = "queued"}

\* The active extensions of a repository.
ActiveOf(p) ==
    {x \in Identifiers : extensions[x].repository = p /\ extensions[x].state \in Active}

-----------------------------------------------------------------------------
(* queue_extension.                                                        *)

Asks(c, p) ==
    /\ client[c].at = "idle"
    /\ client' = [client EXCEPT ![c].at = "asking", ![c].repository = p]
    /\ UNCHANGED <<extensions, analysis, snapshots, writers, worker, stopping>>

ReadsStatus(c) ==
    /\ client[c].at = "asking"
    /\ client' = [client EXCEPT ![c].at = "identifying",
                                ![c].covered = analysis[client[c].repository].covered]
    /\ UNCHANGED <<extensions, analysis, snapshots, writers, worker, stopping>>

\* srcmove-history reports an error: the request ends.
FailsToRead(c) ==
    /\ client[c].at \in {"asking", "identifying"}
    /\ client' = [client EXCEPT ![c].at = "idle"]
    /\ UNCHANGED <<extensions, analysis, snapshots, writers, worker, stopping>>

\* The definition is read second; an exhausted history ends the request.
ReadsDefinition(c) ==
    /\ client[c].at = "identifying"
    /\ client' = [client EXCEPT
          ![c].at = IF Exhausted(client[c].covered) THEN "idle" ELSE "queueing",
          ![c].definition = analysis[client[c].repository].definition]
    /\ UNCHANGED <<extensions, analysis, snapshots, writers, worker, stopping>>

\* The absolute target.
Target(covered) == covered + Count

\* The transaction: an active extension answers the request, or one is inserted.
Queues(c) ==
    /\ client[c].at = "queueing"
    /\ client' = [client EXCEPT ![c].at = "idle"]
    /\ IF ActiveOf(client[c].repository) # {} THEN UNCHANGED extensions
       ELSE \E x \in Identifiers :
               /\ extensions[x].state = "absent"
               /\ \A y \in Identifiers : y < x => extensions[y].state # "absent"
               /\ extensions' = [extensions EXCEPT ![x] =
                     [state |-> "queued", repository |-> client[c].repository,
                      definition |-> client[c].definition,
                      target |-> Target(client[c].covered)]]
    /\ UNCHANGED <<analysis, snapshots, writers, worker, stopping>>

-----------------------------------------------------------------------------
(* The worker: recovery, the loop, process_extension.                      *)

Mine == extensions[worker.extension]
MyAnalysis == analysis[Mine.repository]
Goes(at) == worker' = [worker EXCEPT !.at = at]
Becomes(state) == extensions' = [extensions EXCEPT ![worker.extension].state = state]

\* Mutant: extensions are not recovered at start-up.
WorkerStartsOver ==
    /\ worker.at = "down"
    /\ worker' = [at |-> "idle", extension |-> NoExtension]
    /\ stopping' = FALSE
    /\ UNCHANGED <<extensions, analysis, snapshots, writers, client>>

\* main: take the lock and recover the extensions left running.
WorkerStarts ==
    /\ worker.at = "down"
    /\ extensions' = [x \in Identifiers |->
          IF extensions[x].state = "running"
          THEN [extensions[x] EXCEPT !.state = "failed"] ELSE extensions[x]]
    /\ worker' = [at |-> "idle", extension |-> NoExtension]
    /\ stopping' = FALSE
    /\ UNCHANGED <<analysis, snapshots, writers, client>>

WorkerCrashes ==
    /\ worker.at # "down"
    /\ Goes("down")
    /\ UNCHANGED <<extensions, analysis, snapshots, writers, client, stopping>>

WorkerIsStopped ==
    /\ worker.at # "down" /\ ~stopping
    /\ stopping' = TRUE
    /\ UNCHANGED <<extensions, analysis, snapshots, writers, client, worker>>

WorkerExits ==
    /\ worker.at = "idle" /\ stopping
    /\ Goes("down")
    /\ UNCHANGED <<extensions, analysis, snapshots, writers, client, stopping>>

\* The oldest queued extension becomes running.
Claims ==
    /\ worker.at = "idle" /\ ~stopping
    /\ \E x \in Identifiers :
          /\ extensions[x].state = "queued"
          /\ \A y \in Identifiers : extensions[y].state = "queued" => x <= y
          /\ extensions' = [extensions EXCEPT ![x].state = "running"]
          /\ worker' = [at |-> "checking", extension |-> x]
    /\ UNCHANGED <<analysis, snapshots, writers, client, stopping>>

\* The definition must be the one the extension was queued for, and readable.
ChecksDefinition ==
    /\ worker.at = "checking"
    /\ \/ MyAnalysis.definition = Mine.definition /\ Goes("spawning")
       \/ Goes("failing")
    /\ UNCHANGED <<extensions, analysis, snapshots, writers, client, stopping>>

SpawnsWriter ==
    /\ worker.at = "spawning"
    /\ \/ Goes("watching") /\ writers' = writers \cup {worker.extension}
       \/ Goes("failing") /\ UNCHANGED writers
    /\ UNCHANGED <<extensions, analysis, snapshots, client, stopping>>

\* Every second the row is set to running again, whatever it says.
Watches ==
    /\ worker.at = "watching" /\ worker.extension \in writers /\ ~stopping
    /\ Becomes("running")
    /\ UNCHANGED <<analysis, snapshots, writers, client, worker, stopping>>

\* The stop event: SIGTERM, then SIGKILL, and the process is waited for.
TerminatesWriter ==
    /\ worker.at = "watching" /\ worker.extension \in writers /\ stopping
    /\ writers' = writers \ {worker.extension}
    /\ Goes("failing")
    /\ UNCHANGED <<extensions, analysis, snapshots, client, stopping>>

\* Mutant: a process that exited is taken to have reached its target.
FindsWriterDone ==
    /\ worker.at = "watching" /\ worker.extension \notin writers
    /\ Goes("snapshotting")
    /\ UNCHANGED <<extensions, analysis, snapshots, writers, client, stopping>>

\* The process exited; the coverage, if it can be read, says whether it reached
\* its target.
FindsWriterExited ==
    /\ worker.at = "watching" /\ worker.extension \notin writers
    /\ \/ /\ MyAnalysis.covered >= Mine.target \/ Exhausted(MyAnalysis.covered)
          /\ Goes("snapshotting")
       \/ Goes("failing")
    /\ UNCHANGED <<extensions, analysis, snapshots, writers, client, stopping>>

\* srcmove-history snapshot, which a writer on the repository excludes.
MakesSnapshot ==
    /\ worker.at = "snapshotting"
    /\ \/ /\ \A x \in writers : extensions[x].repository # Mine.repository
          /\ snapshots' = [snapshots EXCEPT ![Mine.repository] = @ \cup {MyAnalysis}]
          /\ Goes("completing")
       \/ Goes("failing") /\ UNCHANGED snapshots
    /\ UNCHANGED <<extensions, analysis, writers, client, stopping>>

\* Mutant: a failed extension is queued again.
RequeuesFailed ==
    /\ worker.at \in {"completing", "failing"}
    /\ Becomes(IF worker.at = "completing" THEN "completed" ELSE "queued")
    /\ worker' = [at |-> "idle", extension |-> NoExtension]
    /\ UNCHANGED <<analysis, snapshots, writers, client, stopping>>

\* The last update of the row.
RecordsResult ==
    /\ worker.at \in {"completing", "failing"}
    /\ Becomes(IF worker.at = "completing" THEN "completed" ELSE "failed")
    /\ worker' = [at |-> "idle", extension |-> NoExtension]
    /\ UNCHANGED <<analysis, snapshots, writers, client, stopping>>

-----------------------------------------------------------------------------
(* srcMove and its operator.                                               *)

\* A writer commits one more comparison, up to its target.
WriterCommits(x) ==
    /\ x \in writers
    /\ LET p == extensions[x].repository
       IN  /\ analysis[p].covered < extensions[x].target
           /\ ~Exhausted(analysis[p].covered)
           /\ analysis' = [analysis EXCEPT ![p].covered = @ + 1]
    /\ UNCHANGED <<extensions, snapshots, writers, client, worker, stopping>>

WriterExits(x) ==
    /\ x \in writers
    /\ writers' = writers \ {x}
    /\ UNCHANGED <<extensions, analysis, snapshots, client, worker, stopping>>

\* The analysis is recreated from the start with another definition.
Recreate(p) ==
    /\ analysis[p].definition < MaxDefinition
    /\ \A x \in writers : extensions[x].repository # p
    /\ analysis' = [analysis EXCEPT ![p].definition = @ + 1, ![p].covered = 0]
    /\ UNCHANGED <<extensions, snapshots, writers, client, worker, stopping>>

\* An operator who recreates an analysis while no request about it is under way
\* and the worker is not carrying an extension of it out; at other times Recreate
\* is left out of the specification.
RecreateInPeace(p) ==
    /\ \A c \in Clients : client[c].at # "idle" => client[c].repository # p
    /\ worker.extension # NoExtension => Mine.repository # p
    /\ Recreate(p)

-----------------------------------------------------------------------------

WorkerStep ==
    \/ Claims \/ ChecksDefinition \/ SpawnsWriter \/ Watches \/ TerminatesWriter
    \/ FindsWriterExited \/ MakesSnapshot \/ RecordsResult \/ WorkerExits

RequestStep == \E c \in Clients :
    \/ \E p \in Repositories : Asks(c, p)
    \/ ReadsStatus(c) \/ ReadsDefinition(c) \/ FailsToRead(c) \/ Queues(c)

WriterStep(x) == WriterCommits(x) \/ WriterExits(x)

CommonNext ==
    \/ RequestStep \/ WorkerStarts \/ WorkerStep \/ WorkerCrashes \/ WorkerIsStopped
    \/ \E x \in Identifiers : WriterStep(x)

PeacefulNext == CommonNext \/ \E p \in Repositories : RecreateInPeace(p)

\* The worker is scheduled, and srcmove-history ends.  (The worker has no timeout
\* for it: without that assumption an extension could block every other job.)
Fairness ==
    /\ WF_extensionVars(WorkerStarts)
    /\ WF_extensionVars(WorkerStep)
    /\ \A x \in Identifiers : WF_extensionVars(WriterExits(x))

PeacefulSpec == ExtensionsInit /\ [][PeacefulNext]_extensionVars /\ Fairness

-----------------------------------------------------------------------------
(* Properties.                                                             *)

\* Duplicate requests reuse the active extension: however requests and the
\* worker interleave, a repository has one at most, so the unique index never
\* rejects an insertion.
OneActiveExtension ==
    \A x, y \in Identifiers :
        /\ extensions[x].state \in Active /\ extensions[y].state \in Active
        /\ extensions[x].repository = extensions[y].repository
        => x = y

\* While the worker is up, an extension that is running is the one it holds: none
\* blocks the requests for its repository for ever.
RunningIsHeld ==
    \A x \in Identifiers : extensions[x].state = "running" =>
        worker.at = "down" \/ (worker.at # "idle" /\ worker.extension = x)

\* A completed extension has a snapshot that covers what it was asked for, of the
\* analysis it was queued for, even if another writer survives a crash.
CompletedIsSnapshotted ==
    \A x \in Identifiers : extensions[x].state = "completed" =>
        \E made \in snapshots[extensions[x].repository] :
            /\ made.definition = extensions[x].definition
            /\ made.covered >= extensions[x].target \/ Exhausted(made.covered)

\* If the worker stays up from some time on, every queued extension ends, what a
\* crash left behind included.
ExtensionsEnd ==
    <>[](worker.at # "down" /\ ~stopping) =>
        \A x \in Identifiers :
            (extensions[x].state \in Active)
                ~> (extensions[x].state \in {"completed", "failed"})

=============================================================================
