# A verification project for srcDiffVisual

srcDiffVisual renders a srcDiff comparison with the moves srcMove finds in it. A
Flask application accepts uploads and requests for pairs of a saved history
analysis, a queue worker builds the requested artifacts in child processes, and a
React frontend follows and shows the results. This directory models the program's
concurrency, its data path from an uploaded document to what a browser shows, and
the races of the frontend: TLA+ modules, TLC runs on small instances, and TLAPS
proofs for any instance. Paths below are relative to the repository.

## The system

| Component | State | Operations | What is hard about it |
|---|---|---|---|
| run store, `srcdiffvisual/runs/store.py` | `runs.sqlite3`: tables `runs` and `run_events` | create, acquire (single flight), claim, progress, cancel request, complete, fail, cancel, recovery | several processes call it in any order |
| history worker, `runs/worker.py` | which run it holds and where its loop is; the stop event; the executor's process group | claim, spawn, monitor, terminate, recover | reads the run, waits, then transitions it; dies and is restarted |
| run executor, `runs/worker.py`, `workflow/payload.py` | where the build is; staging directory | report progress, build, publish, complete, fail | may die, hang, be signalled, or outlive its worker |
| artifact directory, `artifacts/store.py` | published, staged and quarantined directories; the index of an artifact | publish by rename, validate, quarantine, store and read back trees | shared by executors, web requests and an operator without a lock |
| artifact collection, `artifacts/lifecycle.py` | a reviewed plan identifier | inventory, plan, apply | time passes between review, recheck and removal |
| event stream, `runs/events.py`, `frontend/src/api.ts` | a cursor per connection; the browser's connection | read events, read run, yield; reconnect, poll | two transactions per turn; broken connections |
| history extensions, `history/extensions.py` | table `history_extensions`; the `srcmove-history` process | queue, claim, watch, recover | reads before its transaction; orphaned processes |
| upload progress, `web/_progress.py`, `useSrcDiffData.ts` | a channel (queue) per token | get or create, put, take, expire | two handlers meet through a channel that may be replaced |
| history client and snapshots, `history/client.py`, `history/snapshots.py` | files of srcMove's analysis | run `srcmove-history`, publish a snapshot | two publishers of one file |
| build pipeline, `workflow/`, `srcmove/`, `srcdiff/`, `annotated_srcdiff/`, `files/` | the document, its sources, trees and moves as they are made | parse, regenerate positions, detect, enrich, render, validate, publish | one thing is known by five names (id, path, span, node, offset) that must stay in step |
| projections and correspondences, `artifacts/projections.py`, `artifacts/correspondences.py` | none | align, focus, gaps, windows, pages, search | boundaries |
| benchmark browser, `bigmovebench/` | none | read bundles, visualize a case | nothing concurrent |
| frontend, `frontend/src` | the selection and what was loaded for it | fetch, merge, show | answers that arrive late |

They meet in five places. The web threads, the worker and the executors share the
run database, where every operation is one `BEGIN IMMEDIATE` transaction. The
worker and the executor share a process group and signals. Executors, requests and
the operator share the artifact directory, where renames are atomic and removals
are not. The browser and the server share connections that break. And the views of a
published artifact are computed from what the build stored in its index.

What makes each part correct, and the hazard at its line, is the `hazards` list of
`PROJECT.json`; the properties below answer it.

## The modules

| Module | Models | Extends or instantiates |
|---|---|---|
| `RunLifecycle` | the documented life of a run, the abstract specification | |
| `RunStore` | `runs/store.py` under any client | refines `RunLifecycle` |
| `RunStore_proofs` | the proofs about it | `RunStore` |
| `HistoryWorker` | `runs/worker.py`: worker, monitor, executors, crashes | `RunStore` |
| `HistoryWorker_proofs` | the proofs about it | `HistoryWorker`, `RunStore_proofs` |
| `RunEventStream` | `runs/events.py` and its follower in `api.ts` | `RunStore` |
| `UploadProgress` | `web/_progress.py`, its handlers and the browser | |
| `Streams_proofs` | the proofs about both streams | `RunEventStream`, `UploadProgress`, `RunStore_proofs` |
| `Sorting` | what is sorted, wherever the program sorts | |
| `CollectionPlan` | `plan_artifact_collection` as a function, and a reference for it | `Sorting` |
| `ArtifactCollection` | the artifact directory, its users and a collection | `RunStore`, `CollectionPlan` |
| `ArtifactCollection_proofs` | the proofs about both | `ArtifactCollection`, `RunStore_proofs`, `SourceText_proofs` |
| `HistoryExtensions` | `history/extensions.py` and srcmove-history as it relies on it | |
| `HistoryExtensions_proofs` | the proofs about it | `HistoryExtensions` |
| `SourceText` | texts, their lines and what a span names of them (`core/`) | `Sorting` |
| `SourceText_proofs` | the proofs about it, and lemmas on sequences and sorting | `SourceText` |
| `SrcDiffDocument` | a document, its walk, its paths and XML spans (`srcdiff/xml_spans.py`, `core/units.py`) | `SourceText` |
| `SourceRenderer` | the two sources and every element's spans in them (`workflow/_source_renderer.py`) | `SrcDiffDocument` |
| `AnnotatedTree` | trees, kinds, spans and their validation (`annotated_srcdiff/`, `workflow/validate_tree.py`) | `SrcDiffDocument`, `NodeRows` |
| `MoveResults` | regions, results, validation and reconstruction (`srcmove/`) | `AnnotatedTree` |
| `MoveReports` | merging, node ids, reports, retained results (`srcmove/`) | `MoveResults` |
| `NodeRows` | a tree, its rows in the index, and what is read from them (`artifacts/store.py`, `artifacts/projections.py`) | `SourceText` |
| `StoredArtifact` | what is stored of an artifact, and how it is read back (`artifacts/store.py`) | `NodeRows` |
| `Publication` | the end of a build, for any document | `StoredArtifact`, `AnnotatedTree` |
| `ArtifactIndex` | the manifest's moves, and how an artifact is checked (`artifacts/store.py`) | `MoveReports`, `StoredArtifact` |
| `Correspondences` | srcMove's candidates on request (`artifacts/correspondences.py`) | `ArtifactIndex`, `SourceRenderer` |
| `MetadataRestore` | order and metadata of a regenerated document (`srcdiff/metadata_restore.py`) | `SrcDiffDocument` |
| `RevisionArchive` | what is extracted for srcDiff, and where (`files/revision_archive.py`) | `SourceRenderer` |
| `BuildPipeline` | `build_visualization_artifact`, stage by stage | `Correspondences`, `MetadataRestore`, `RevisionArchive`, `Publication` |
| `SourceRows` | aligned sources, focus, blocks and gaps (`artifacts/projections.py`) | `SourceText` |
| `ArtifactReads` | the same, nodes, moves and anchors read from a published artifact | `ArtifactIndex`, `SourceRows` |
| `SourceCard` | `ArtifactSourceFile.tsx` on any two aligned files | `SourceRows` |
| `TreeBranch` | a branch of `ArtifactNavigator.tsx` on any tree | `NodeRows` |
| `ArtifactBrowsing` | `ArtifactSourceFile.tsx`, `ArtifactNavigator.tsx` on what was published | `BuildPipeline`, `ArtifactReads`, `SourceCard`, `TreeBranch` |
| `ArtifactViews_proofs` | the proofs about a document, its stored artifact and the views of it | `SourceCard`, `TreeBranch`, `Publication`, `SourceText_proofs` |
| `ComparisonInput` | `useSrcDiffData.ts`, `useBigMoveBenchReview.ts` | |
| `HistoryBrowser` | `useHistoryData.ts`, `useHistorySeries.ts` | `ComparisonInput` |
| `HistoryBrowser_proofs` | the proofs about both | `HistoryBrowser` |

A module `MCx` gives small constants to `x` for TLC; `MCStreams` holds the two streams.

**`RunStore`.** `rows` is the `runs` table (a record per identifier, `"absent"`
before the insertion), `events` the `run_events` table, `now` the millisecond clock
bounded by `MaxClock`. One action per public operation; an operation that raises
rolls back, so it is no step. `AcquireNew` is the branch of `acquire_history_run`
that inserts; the branches that return an existing run change nothing. `ClaimNext`
cancels what it meets on its way, as the code does in the same transaction. Timestamps
keep their millisecond ties, which are broken by run identifiers (`Before`,
`FresherThan`).

**`HistoryWorker`.** `worker` holds the program point of the loop and of
`_monitor`, `executor[r]` that of the child process, `tools` the runs that have a
native command alive, `signalled` the runs whose group got SIGTERM, `staging` and
`published` the two places of an artifact. Each transaction, each look at a process
and each signal is its own action, so a cancellation, an executor's last update or a
crash fits between any two. `WorkerCrashes` leaves executors alone: outside a
container they survive into the next worker's life. `ExecutorIsTerminated` may leave the
staging directory, because SIGTERM can hit before `publish_artifact`'s try block.

**`RunEventStream`.** `ReadsEvents` and `ReadsRun` are the two transactions of
a turn of `stream_run_events`. The browser keeps the identifier of the last
event, `Drops` breaks a connection (at most `MaxDrops` times) and `Connects` resumes
from it; `Polls` is the fallback that reads the run.

**`UploadProgress`.** A channel is a number, its queue a sequence of message
numbers. `GetOrCreate` is the critical section of the broker. `BuildsEvent`,
`TakesChannel` and `PutsEvent` are the three separate steps of one `publish_*` call.

**`CollectionPlan`, `ArtifactCollection`.** The plan is a walk over the eligible artifacts
in the order of the code, with running totals, which gives some of them a reason; the candidates are those with one. In the directory, `disk[a]` is what is under a name;
`rmtree` is two actions with `"partial"` in between. A request that validates an
artifact and one that moves it to quarantine are two actions. The operator reviews,
then applies: references, inventory, comparison of the plan's identifier, then for each
candidate that is left (`todo`), the one of the smallest identifier first, the recheck and the removal.

**`HistoryExtensions`.** `client[c]` carries what a request has read before its
transaction. `writers` are the live srcmove-history processes, which commit one
comparison at a time and exclude snapshots of their analysis. `RecreateInPeace` is an
operator who starts an analysis over while no request about it is under way and the
worker carries no extension of it out. Recreation at other times is left out: the
code compares definitions for that case, but nothing guards the time between its
reads, or between its comparison and the start of the process.

**The data path.** A document is the sequence of its elements in document order,
each naming its parent by position; texts are sequences over a small alphabet in
which `"n"` ends a line and `"f"` is a form feed. From it the modules compute what the
code computes: the walk and its paths, the places in the XML that a second parser
finds, sources and spans, trees, moves. Where the code raises, an operator of its own
says when it does not (`TreeBuilds`, `ProducerResultsAreValid`). srcDiff and srcMove
are the parameters `Regenerate` and `Detect` (a set of possible outputs each),
`difflib` is `Opcodes`. `BuildPipeline` has one action per stage of
`build_visualization_artifact`: its variables are the `request`, the `stage`, the
document as it was `positioned`, the extracted `files` and their `layout`, srcMove's `xml`
and `results`, the `visualized` document, and at last the `artifact`; `refused` says that a stage raised.
`RevisionArchive` takes srcml's reader of archives as external. Published, the artifact is a record, and
`ArtifactReads` and `Correspondences` are the server's stateless reads of it.

**`SourceCard`, `TreeBranch`, `ArtifactBrowsing`.** In `SourceCard`, `source` is the file that is open, `card` the state of its card and
`pending` what it asked for and has not got; any of them may arrive next. `SwitchFocus`
makes the answer to an earlier focus inactive, as the effect's cleanup does; answers to a
gap have no such check, and `clicks` bounds the user. In `TreeBranch`, `tree` is the tree that is open and `branch` a branch
of it with the pages merged into it. Both modules may open any file and any tree (`CardSpec`,
`BranchSpec`); `ArtifactBrowsing` opens those of the artifact a build published, and its views take the same steps.

**`ComparisonInput`, `HistoryBrowser`.** The inputs of the page and the comparison it
shows. A handler's captured variables are in its request (`context`, `repository`,
`selection`), its continuation is the action that receives the answer. In
`HistoryBrowser` a question is first read by the server (`Serves`) and answered later, so
an answer may be stale in two ways: by what the server read, and by what the user did.
`active` is the flag an effect's cleanup clears; the `useMemo` and the effect of
`useHistorySeries` are part of every step that sets the summary (`SetSummary`).
`overtaking` says whether answers may overtake each other.

## The runs

| Run | Instance | Shows |
|---|---|---|
| `run_store` | 3 runs, 1 fingerprint and the NULL one, clock 0..1, logs to 3 events of progress | the invariants of rows and logs, the refinement of `RunLifecycle` |
| `history_worker` | 2 runs, 2 fingerprints (symmetric), 7 events | supervision, mutual exclusion of runs, publication before completion, what a cancelled run leaves |
| `worker_steady` | the same, without crashes | every run ends; a cancellation takes effect though the executor hangs |
| `worker_group` | 1 run | violation: a run is `cancelled` while a native command is alive |
| `streams` | 1 run, logs to 4 and more events, batches of 2, 2 breaks; an upload of 2 messages and the last, 3 connections, 3 channels | order, completeness and delivery of both streams |
| `upload_rejected` | 1 message | violation: the stream of a rejected upload never ends |
| `collection` | 2 runs, 3 artifacts (1 of an old schema), 2 requests; the plan on all inventories of up to 3 artifacts, 2 sizes, 2 ages, 48 policies | the promise to completed runs, to old artifacts, and to requests; the walk of the plan chooses what a definition without a walk chooses |
| `collection_race` | the same, 1 request | violation: the artifact of a completed run is removed |
| `extensions` | 1 repository, 2 requests at a time, 3 extensions, a history of 2 comparisons, 1 recreation | one active extension, held, snapshotted; each ends once the worker stays up |
| `visualization` | documents of one or two files (see below), browsed with 3 clicks | what is published is consistent, what is inconsistent is refused, and a browser can reach all of it |
| `restored_units` | two deleted files `d/a/u` and `d/b/u` | violation: both get the text of one |
| `history_browser` | one example, text, file, review case; repositories of 1 of 2 and 3 of 3 pairs; 4 actions of the user, 1 failure | what is shown belongs to what is chosen, however late it arrives |

Why these bounds are enough. Two runs with one worker cover every pairwise
interference, among them an orphaned executor beside the next run; a third run in
`run_store` adds the choice between candidates in acquisition and claiming. A clock
of two values gives both ties and differences. A batch smaller than the log makes
the stream take several turns. Three artifacts give a kept, a removed and an
ineligible one, and a limit in between.

The documents of `visualization` are built from named regions: common text over one or
more lines, a form feed inside a line, deleted and inserted regions with nested
elements, whitespace elements, elements without text, ends of lines before and after a tag. Two files, a
file of another name on each side and a unit without a name are there; the bodies hold
the same text deleted once or twice and inserted twice, so that one region can be
matched in several ways. srcDiff may reverse its files, and srcMove may report each
move, a sequence of moves, some of them or none, and may reword text outside the moves. Uploads come
bare, with positions, with annotations that lost an end, with a move that has an end within `diff:ws`, with a producer's results
that fit or not, and with every switch. `MAX_SOURCE_ROWS` 5 (2000 in the
code), `MAX_EXPANDED_RANGES` 3 (50), `CONTEXT` 1, `CONTEXT_STEP` 2, `CHILD_PAGE` 2 and
`NODE_LIMIT` 5 make the pages and windows end inside these files; three clicks (`MaxClicks`) are a
focus switched there and back beside a gap that is opened.

In `history_browser` repository `q` has a chart of two pages and `p` an extension to run;
`PAGE` is 2. Four actions of the user (`MaxInputs`) switch a repository or a filter
twice and open something in between. `MaxPending` 2 limits only how much the user or
the timer may ask while so many answers are outstanding, effects always ask.

`MaxEvents`, `MaxClock`, `MaxDrops`, `MaxExtensions`, `MaxDefinition`, `MaxStreams`,
`MaxChannels`, `MaxInputs`, `MaxPolls`, `MaxFailures`, `MaxPending` and `MaxClicks` are all the bounds;
they limit how often something happens and nothing else: operations that end a
run do not depend on `MaxEvents`.

Deadlock is not checked: each of these systems may stop, because a build ends and because the
bounded clock, identifiers, connections and clicks run out while the program would go on.

## Properties

For every property of a passing run `PROJECT.json` names a plausible slip in the code
that breaks it.

- `run_store`: `StoreTypeOK`, `SingleFlight`, `CancellationIsHonoured`, `LogTellsStatus`
  (who only follows the log knows the run), `ImplementsLifecycle`.
- `history_worker`: `OneRunAtATime`, `RunningIsSupervised`, `WorkerNeverRaises` (no
  interleaving makes the store refuse the monitor, which would end the queue's only
  worker), `CompletedIsPublished`, `CancelledIsOver`, `OnlyRecoveryLeavesStaging`.
  `worker_steady`: `RunsEnd`, `CancellationTakesEffect`.
- `streams`: `ReceivedInOrder`, `EndsComplete`, `StreamDelivers` for a run;
  `ShownInOrder` (and, while no channel is replaced, without a gap) and
  `AcceptedStreamEnds` for an upload.
- `collection`: `CompletedIsKept`, `PreservesIncompatible`, `RequestIsAnswered`,
  `PlanMatchesReference`.
- `extensions`: `OneActiveExtension`, `RunningIsHeld`, `CompletedIsSnapshotted`,
  `ExtensionsEnd`.
- `visualization`, the build: `SpansCoverTheirText` (the spans cut the element's own text out
  of the source), `NodesStandInTheXml` (the paths of one walk and the spans of
  another name the same element), `AcceptedIsPublished` (a stage
  refuses nothing an earlier one accepted, but for the cases it names; moves within
  `diff:ws` are one, see below), `NodesAndMovesAgree` (with the same exception), `IndexRebuildsTheTrees`,
  `UnitsKeepTheirText`, `CorrespondencesRead`. The views: `FocusIsShown`, `GapsOpen`,
  `TreesAreConnected`, `BranchHoldsEveryChild`.
- `history_browser`: `ChartShowsTheRepository`, `ContextNamesTheShown` (the header
  names the comparison that is shown), `ChartFollowsExtensions`.

`RowsMeetChecks`, `TerminalIsFinal`, `LogIsAppendOnly`, `WorkerTypeOK` and
`CancelledHasNoResult` have no run; they are proved.

### Disagreements the runs show

- `CancelledGroupIsGone` (`worker_group`). The documentation says the native process
  group is reaped before a run is `cancelled`. `_terminate_process_group` waits for
  the leader only, and returns at once when the leader is dead.
- `RemovalSparesReferenced` (`collection_race`). The documentation says a collection
  never removes the artifact of a completed run. `complete` does not take the
  collection lock, so it fits between the recheck and `rmtree`. What does hold is
  `CompletedIsKept`: if the plan was *reviewed* while no run was executed, the
  comparison of plan identifiers protects whatever completes later. Of an operator who applies only such
  plans, `RemovalSparesReferenced` itself is proved (`CarefulSparesReferenced`).
- `StreamsEnd` (`upload_rejected`). A form that does not parse is answered before its
  token is known; its stream waits for ever on a server thread.
- `UnitsKeepTheirText` (`restored_units`). `docs/Rules.md` lets regeneration add positions and
  nothing else. `align_generated_units_to_original` (`metadata_restore.py`, line 109) finds the
  unit of a file by its last name; two deleted files of one name in different
  directories both get the unit of the later one. The invariant holds in `visualization`, where names differ.

### What else was seen

No run is spent on these; the models do what the code does.

- `docs/artifact-architecture.md` says in its lines 277-278 that a schema-incompatible
  artifact is quarantined, and in its lines 963-964 that it is not. The code does
  the latter, and `PreservesIncompatible` checks it.
- `loadMore` (`useHistoryData.ts`, line 206) appends its page to whatever list is shown when it
  arrives, also to that of another repository or filter; `App.tsx`, line 251, says
  "Uses the current filter and loaded results." `selectPair` shows its late answer
  beside another repository, and *Open* then opens the pair of that number there; the card of a run
  is found by the number of its pair alone.
- Two polls may overlap, and the answer of the older may come after the refresh of a
  completed extension: the status is "running" again, and the chart old, for good
  (`useHistoryData.ts`, lines 77-87). A failed extension leaves the status at
  "running" until something else reads it. A late answer to a cancellation may
  put a non-terminal run over a terminal one.
- The form: a failed submission clears a comparison that another input has shown
  since, and a late example switches the tab.
- A gap's answer has no check of the focus: it may show rows of the earlier one. A gap
  beyond 2000 rows, or 50 ranges, cannot be opened.
- The navigator's tree: `mergeNodes` puts the children of a focus before earlier siblings.
- Moves within `diff:ws`. `augment_move_results_with_node_ids` (`move_result_enrichment.py`, lines 27-31)
  collects the regions without what is in a skipped element; every other stage of the build
  includes it (`payload.py`, lines 156-291). A move all of whose ends are
  within `diff:ws` is accepted by every stage until then and refused by the assertion of lines 44-47; one with a single
  end there is published with an empty list of ends on that side, though the tree has a node of kind `move`
  for it. `docs/artifact-architecture.md`, lines 308-309, says "Optional or skipped tree tags are projection policy and do
  not change canonical identities." `visualization` has uploads of both
  kinds (`SkippedMoves`), annotated and marked by srcDiff; `AcceptedIsPublished` says that such a move is never published
  and that the stage refuses no other, `NodesAndMovesAgree` that no other end is missing. That srcMove
  itself makes no such move is an assumption of `MCDetect`.
- The build: plain `move` identifiers may collide with srcMove's; reports are checked only when the artifact is published; units
  without names are refused late, when positions are restored or else when the files are built; `splitlines` ends a line at a form feed, the spans
  only at `"\n"`.

## Fairness

- `FairWorker`: the worker's loop waits for nothing but its own timeouts (`stop.wait`,
  `process.wait(timeout=...)`), and after SIGKILL the leader is gone. `compose.yaml`
  does not restart the worker, so `worker_steady` has no crash and no stop.
- `FairExecutors`, a premise of `RunsEnd` only: `run_command` gives each native command
  a timeout. `CancellationTakesEffect` needs none of it.
- `FairStream`: server threads and the browser's timers run; breaks are finitely many.
- `FairHandlers`: a request's handler waits for no other party.
- `HistoryExtensions!Fairness`: the worker is scheduled and srcmove-history ends. The
  code has no timeout for that process: a hanging extension would
  starve every run, and the premise is the assumption a deployment makes.
  `ExtensionsEnd` also has the premise that the worker stays up from some time on.
- `UploadProgress!UploadFairness`: threads are scheduled and requests arrive.
- `BrowserSpec`: the browser's timer ticks (`Polls`), and for each kind of question the oldest
  one is read and answered at some time (`RespondsTo`). `ChartFollowsExtensions` has the
  premise that answers do not overtake each other (`overtaking`), without which the code does not
  promise it (see above); `ChartShowsTheRepository` and `ContextNamesTheShown` are
  checked with and without.

All of it is weak fairness.

## What is proved

`RunStore_proofs` proves, for any sets of runs, fingerprints, artifacts and codes and any
bounds, that `StoreSpec` implies `[]StoreTypeOK`, `[]SingleFlight`, `[]RowsMeetChecks`,
`[]CancellationIsHonoured`, `[]LogTellsStatus`, `TerminalIsFinal`, `LogIsAppendOnly` and the
refinement `ImplementsLifecycle`. The assumptions are those of `RunStore`: identifiers
are numbers, bounds are naturals, NULL is no value.

The inductive invariant is `StoreInv`. None of its parts is inductive alone:
`RowsMeetChecks` must know the flag of a claimed run, `LogTellsStatus` that an absent
row has an empty log and that a terminal run is never appended to, and
`CancellationIsHonoured` that an identifier not yet drawn carries no flag
(`AbsentIsBlank`). The argument goes by *shapes* instead of operations: `StepHasShape`
shows once that a step of any operation does one of six things to each run (keep,
insert, finish, claim, report, ask), and every invariant and action property is
then proved from the shape. A new operation of the store needs one shape lemma.

`HistoryWorker_proofs` builds on it for the worker, its executors and the web clients, with
the two assumptions of `HistoryWorker` (an artifact identifier per run, the worker's
diagnostic codes are codes). `StepOfStore` shows that every step of the composed
system is a transaction of the store or leaves the database alone; with it
`WorkerSpec => StoreSpec`, so each theorem about the store holds of the running
system, `WorkerImplementsLifecycle` among them. Its own theorems are `[]WorkerTypeOK`, `[]OneRunAtATime`,
`[]RunningIsSupervised`, `[]WorkerNeverRaises`, `[]CompletedIsPublished`,
`[]CancelledIsOver`, `[]OnlyRecoveryLeavesStaging` and `CancelledHasNoResult`, for any
number of runs and with crashes, restarts and orphaned executors.

The inductive invariant `WorkerInv` has two halves. `RunsInv` says what holds of the runs
wherever the worker is: an unclaimed run is untouched, an ended one (unless
recovery ended it) has neither executor nor staged data, staged data belongs to an
executor about to publish it, and one about to complete has published.
`PlaceInv` says what the worker may rely on at its program points: what it holds was
claimed, and from the moment it found the executor gone until it records the
end, nobody else can end that run (`EndedByWorkerAlone`); without this
`WorkerNeverRaises` is not inductive. The executor's twelve actions share a
shape, `ExecutorMove`, from which preservation is proved once.

`Streams_proofs` proves for a stream and its follower, whatever the store's clients do, any batch size and any
number of broken connections: `[]ReceivedInOrder`, `[]EndsComplete`, and that the composed system implements
`StoreSpec`. It assumes that the followed run exists and that a batch holds an event. The properties
speak of what the page received; the inductive invariant `FollowInv` follows an event on its way to it:
what was received is a prefix of the log (`ReceivedIsPrefix`), what is on the wire, and
then what is in the batch, are the numbers that come next, so the cursor never runs ahead of what
was sent (`PartsOfLog`), and a stream that stops has seen a terminal run and sent its whole log
(`StopsAtTheEnd`). The last part needs the store's invariant: only because a terminal run's log never
grows may the server read the events first and the run second.

For uploads it proves `[]ShownInOrder` of `UploadSpec` for any number of connections, channels and
messages. Its invariant `UploadInv` orders all the places a message may be in: each
queue is increasing, what the browser shows precedes what is queued for it, and nothing queued is newer
than the last message put. Both proofs share the lemmas on queues the module begins with.

`HistoryExtensions_proofs` proves `[]OneActiveExtension`, `[]RunningIsHeld`, `[]CompletedIsSnapshotted`
and that an extension that ended stays ended (`FinishedStays`, which has no run), for any repositories, requests, extensions and
lengths of a history, under `PeacefulSpec` (see `RecreateInPeace`). The extra parts of
`ExtensionsInv` are `HeldIsRunning`, what the worker may rely on between its claim and its last
update, and `ComparedStaysTrue`: between the comparison of definitions and the
snapshot the analysis still has the definition of the extension, which is where a recreation at a bad time
would break the argument.

`ArtifactCollection_proofs` proves, for any operator, that `[]PreservesIncompatible` holds, and that runs,
requests and collections together still implement `StoreSpec` (`CollectionImplementsStore`). For an operator who reviews while nothing is
executed (`CarefulSpec`) it proves `[]CompletedIsKept`, and of every removal that what it takes is not referenced
(`RemovalSparesReferenced`, which other operators violate). The inductive invariant has two
layers. `CollectionInv` says of any operator that requests know what they validate and that only chosen candidates
are removed. `CarefulInv` carries the argument through a collection: what was
built stays until it is referenced or chosen, the review saw every reference there can still be
(`ReviewIsSettled`), so the applied plan sees the same ones (`ApplyingSeesReferences`), and what is
removed is free (`RemovedIsFree`). Of the plan it needs only that the walk chooses among the unreferenced.

What the walk chooses is proved beside it: `[]PlanMatchesReference` (`PlansAlwaysMatch`), and that the plan
the operator reviews or rebuilds is the reference for the directory as it is then (`OperatorPlansMatch`). An
inventory is any finite set of artifacts with distinct identifiers and natural sizes (`IsInventory`), the
policy any (`IsPolicy`); that the constants are such is assumed and evaluated by TLC (`PlansAreForInventories`,
`PlansAreOfInventories`). The walk keeps running totals, the reference adds up what is left, so the first
lemma is that a sum does not depend on the order of its terms (`AnyFirst`). The invariant of a turn
(`AfterTurns`) says that what is chosen so far is the aged artifacts and the `m` oldest others, that the totals are
those of the rest, and that with fewer than `m` the limits were not met; the sets
of that form are exactly those the reference chooses from.

`HistoryBrowser_proofs` proves `[]ContextNamesTheShown` of the inputs alone (`HeaderIsRight`) and beside the history
tab (`HeaderStaysRight`), and `[]ChartShowsTheRepository` (`ChartIsRight`), for any inputs, repositories, coverages and page size of
at least 2, any number of clicks, polls and failures, and answers in any order. The first property says something of the moment a
comparison is shown, when the form may long hold something else. So `InputInv` adds
what is known of every request under way (`AskedInv`: the context it carries
names its own content) and of the form the next one is made from (`FormInv`: an example
that is named is what the text field holds). `BrowserInv` does the same for the tab: every
request `Follows` the state it will meet. One whose effect was not cleaned up is of the chosen
repository; a page of the series belongs to the chart that is there, carries exactly the pairs before
its cursor, and its answer covers the chart. `SeriesPage` is the arithmetic: the last page ends at the coverage,
and any other is covered whole. A page of one pair (`PAGE` 1) is excluded by `BrowserAssumption`: its first
cursor would be 0, which asks for the first page again.

`SourceText_proofs` proves that the span computed for a range of offsets names by its lines and columns exactly the
characters of the range, for every text (`SpansNameTheirText`): what `SpansCoverTheirText` checks of the elements of a
document, without the walk that finds their ranges. It follows from two lemmas about lines: they put
together are the text, and the starts the code searches are where they begin.

`ArtifactViews_proofs` proves, for the card of any two files in any order of clicks and answers (`CardSpec`),
`[]GapsOpen` and `[]FocusIsShown`; for a branch of any tree, any window and page (`BranchSpec`), `[]BranchHoldsEveryChild` and
`[]TreesAreConnected`; and for the publication of any document (`PublicationSpec`), `[]NodesStandInTheXml` and
`[]IndexRebuildsTheTrees`. What may be opened or published is restricted by three premises, each checked by `visualization`:
an alignment is what `difflib` promises (`IsAlignment`; TLC evaluates it for the matcher of the run,
`DifflibAssumption`), the spans of a move lie in its files (`MovesStand`; where they do not, `FocusIsShown`
fails), and a document is one (`IsDocument`): its elements are nested, in document order, under a root that is a file
or holds files, not both. The last is srcDiff's doing and is a part of `NodesStandInTheXml`, so TLC checks it of
every document that is published. A branch is opened on any tree that is nested as its tags are (`IsTree`); that a
shown tree is one, and that the files are in order (`Publishable`), is no premise any more but proved of any document.

- Cards. `CardInv` says that what is shown is the answer for ranges the card holds. The rest is about one
  answer: blocks and gaps cut the rows into intervals in order, so a gap names the rows it hides, and a range
  at one of its edges adds its rows and takes none away.
- Branches. `BranchInv` says that a branch holds the children up to where its pages were read. For windows, the
  ordinals that joined are closed under parents after every step, because a chain is taken whole or not at all.
- Documents. The builder numbers the children of an element as it walks down, the parser counts start tags as they
  come, and the span of a node is looked up by its path. `NodesStandInTheXml` is about both, so its proof follows the
  parser. After each tag (`HasParsed`) its stack holds a frame for every open element, with that
  element's path and the place of its start tag; a frame's counts are how many children of each name were opened
  (`CountsAreKept`), which is the number the builder gives; the units counted are those opened; and the spans are
  those of the elements that were closed. `ElementOpens` and `ElementCloses` preserve this: where a start tag
  stands, the open elements are exactly those around it (`AtOpening`), and what was opened below the same parent are
  its elder siblings. So the index holds the tags of every element (`IndexIsBuilt`). Paths of different
  elements differ (`PathsDiffer`), so no span is overwritten and a node's parent is found by its path (`WalkGoesUp`);
  and tags are nested as elements are (`TagsStandInOrder`), which makes the tree an `IsTree` (`WalkMakesTree`).
- Reading back. A node is stored with its parent and a rank, and its tree is rebuilt by following the
  ranks from the root. Nesting makes every subtree a run of ordinals (`SubtreesAreRuns`), so the subtrees of the
  children follow one another (`ChildrenInTurn`), so a walk from the root meets `0..n-1` in order (`MetInOrder`), and the
  tree is rebuilt node for node (`TreeIsRebuilt`). Files that agree in name and source still differ in
  their identifiers (`IdsDiffer`), by which their rows are told apart. `BuildPipeline` publishes by the same operator, `Stored`.

What is computed by recursion is a recursive function here, and induction is over the numbers it is applied to
(`NatSetInduction`, which takes a set and no operator).

Model-checked only: every liveness property, which is out of the prover's reach as `ENABLED` is; and of the
build `SpansCoverTheirText`, `AcceptedIsPublished`, `NodesAndMovesAgree`, `UnitsKeepTheirText` and
`CorrespondencesRead`: they are about the rendered sources or about whole builds, and `SourceRenderer`, a part of
every build, hands a state from element to element by a `RECURSIVE` operator. For the same reason `PublicationSpec` leaves open what is rendered of a document;
`BuildPipeline` shows its files by the same operator, `Visualized`, and TLC checks what it renders.

## What is not modelled

- Of the data: tokenising XML, XPath predicates other than positions and names, JSON
  documents, the validation of srcmove-history's answers, and message texts. An element's
  namespace, attributes other than those the moves use, and text longer than a few
  characters are abstracted.
- `history/snapshots.py`: what two publications do to each other depends on the
  name srcmove-history gives a snapshot. `cleanup_stale_staging`: a question of real time.
- The list of saved review bundles (`bigmovebench/`): stateless reads of files.
- The frontend's presentation, navigation between moves, measuring and scrolling, the card of a run with its
  cancellation, the download of a snapshot. The offline tools under `scripts/`.

Identifiers drawn at random do not collide. The operating system is modelled by what the
code relies on: an atomic rename, a removal that is not, signals, and exit codes. Two
gunicorn processes do not share a progress broker (`README.md`, lines 150-152); with two
of them, an upload's stream may receive nothing at all. What is left out of a part is in
its note in `PROJECT.json`.

## Plan

1. Done: run store, worker, streams, collection, extensions, upload progress; the data path from
   an upload to the views; the frontend's inputs and history; proofs about all of these, of the build about its documents and trees.
2. Proofs about `SourceRenderer`, with its walk as a fold over the tags of a document: first `SpansCoverTheirText`,
   for which `SpansNameTheirText` and the lemmas about documents are there.
3. `ThesisSnapshot` and `StagingCleanup`, if the questions above are answered by the code.
