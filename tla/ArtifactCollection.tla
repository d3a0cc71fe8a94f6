------------------------- MODULE ArtifactCollection -------------------------
(***************************************************************************)
(* The directory of published artifacts while four parties use it: run     *)
(* executors and uploads publish into it (artifacts/store.py), web clients *)
(* check artifacts to show them or to offer them again (create_history_run *)
(* in web/_routes.py) and quarantine damaged ones, and an operator         *)
(* reviews and applies a collection plan (artifacts/lifecycle.py).         *)
(*                                                                         *)
(* Published artifacts are immutable and their identifiers never drawn     *)
(* twice.  The parties share nothing but the directory and the run store;  *)
(* each check and each move of a directory is an action.  rmtree is two    *)
(* actions: a directory is "partial" in between.  The inventory of the     *)
(* directory is one action.  The collection lock serialises operators that *)
(* apply a plan, so one operator is modelled.                              *)
(***************************************************************************)
EXTENDS RunStore, CollectionPlan

CONSTANTS
    Clients,       \* concurrent requests
    OldArtifacts,  \* artifacts an earlier release left, of another schema version
    Policy,        \* the operator's retention policy
    NoRun          \* no run

ASSUME ArtifactsAreOrdered == Artifacts \subseteq Nat /\ OldArtifacts \subseteq Artifacts
ASSUME PlansAreOfInventories == IsFiniteSet(Artifacts) /\ Never \in Int /\ IsPolicy(Policy)
ASSUME NoRunIsNone == NoRun \notin Runs

VARIABLES
    disk,     \* per artifact, what is under its name in the artifact root
    built,    \* per run, the artifact its executor published
    client,   \* per request, where its handler is
    operator  \* the collection command

directoryVars == <<disk, built, client, operator>>
collectionVars == <<rows, events, now, disk, built, client, operator>>

Present == {"valid", "corrupt", "incompatible", "partial"}
Gone == {"absent", "removed", "quarantined"}

IdleOperator == [at |-> "idle", reviewed |-> <<>>, applying |-> FALSE, protected |-> {},
                 todo |-> {}, candidate |-> NoArtifact]

CollectionInit ==
    /\ StoreInit
    /\ disk = [a \in Artifacts |-> IF a \in OldArtifacts THEN "incompatible" ELSE "absent"]
    /\ built = [r \in Runs |-> NoArtifact]
    /\ client = [c \in Clients |->
          [at |-> "idle", run |-> NoRun, artifact |-> NoArtifact, excluded |-> {},
           answer |-> "none"]]
    /\ operator = IdleOperator

-----------------------------------------------------------------------------
(* Publishing.                                                             *)

\* The rename that ends publish_artifact.
Publish(a) == disk[a] = "absent" /\ disk' = [disk EXCEPT ![a] = "valid"]

Claims ==
    /\ \E r \in Runs : ClaimNext(r)
    /\ UNCHANGED directoryVars

PublishesForRun(r, a) ==
    /\ rows[r].status = "running" /\ built[r] = NoArtifact
    /\ Publish(a)
    /\ built' = [built EXCEPT ![r] = a]
    /\ UNCHANGED <<storeVars, client, operator>>

CompletesRun(r) ==
    /\ built[r] # NoArtifact /\ Complete(r, built[r])
    /\ UNCHANGED directoryVars

\* Before or after publishing: a published artifact may stay unreferenced.
FailsRun(r) ==
    /\ \E code \in Codes : rows[r].status = "running" /\ Fail(r, code)
    /\ UNCHANGED directoryVars

\* POST /api/visualize: no run refers to the artifact.
PublishesUpload(a) == Publish(a) /\ UNCHANGED <<storeVars, built, client, operator>>

\* The disk, or a person, damages an artifact.
Decays(a) ==
    /\ disk[a] = "valid"
    /\ disk' = [disk EXCEPT ![a] = "corrupt"]
    /\ UNCHANGED <<storeVars, built, client, operator>>

-----------------------------------------------------------------------------
(* Requests.                                                               *)

Answered(c, answer) == client' = [client EXCEPT ![c].at = "answered", ![c].answer = answer]

\* POST /api/history/pairs/{n}/runs.
AsksForRun(c) ==
    /\ client[c].at = "idle"
    /\ client' = [client EXCEPT ![c].at = "acquiring"]
    /\ UNCHANGED <<storeVars, disk, built, operator>>

\* A request that shows an artifact reads and checks it.
AsksForArtifact(c, a) ==
    /\ client[c].at = "idle"
    /\ client' = [client EXCEPT ![c].at = "checking", ![c].artifact = a]
    /\ UNCHANGED <<storeVars, disk, built, operator>>

\* acquire_history_run: follow the active run, offer a completed one, or queue.
Acquires(c) ==
    /\ client[c].at = "acquiring"
    /\ \E f \in Fingerprints :
          \/ ActiveRuns(f) # {} /\ Answered(c, "active-run") /\ UNCHANGED storeVars
          \/ /\ ActiveRuns(f) = {}
             /\ \E r \in ReusableRuns(f, client[c].excluded) :
                   client' = [client EXCEPT ![c].at = "checking", ![c].run = r,
                                            ![c].artifact = rows[r].artifact]
             /\ UNCHANGED storeVars
          \/ /\ \E r \in Runs : AcquireNew(r, f, client[c].excluded)
             /\ Answered(c, "new")
    /\ UNCHANGED <<disk, built, operator>>

\* Mutant: the same completed run is offered again.
TriesAgain(c) ==
    IF client[c].run = NoRun THEN Answered(c, "error")
    ELSE client' = [client EXCEPT ![c].at = "acquiring", ![c].run = NoRun,
                                  ![c].artifact = NoArtifact]

\* The artifact was of no use: an error, or the search goes on without its run.
GoesOnWithout(c) ==
    IF client[c].run = NoRun THEN Answered(c, "error")
    ELSE client' = [client EXCEPT ![c].at = "acquiring", ![c].run = NoRun,
                                  ![c].artifact = NoArtifact,
                                  ![c].excluded = @ \cup {client[c].run}]

\* Mutant: no except clause for artifacts of another schema version.
ChecksWithoutCompatibility(c) ==
    /\ client[c].at = "checking"
    /\ CASE disk[client[c].artifact] = "valid" -> Answered(c, "artifact")
         [] disk[client[c].artifact] \in Gone -> GoesOnWithout(c)
         [] disk[client[c].artifact] \in Present \ {"valid"} ->
               client' = [client EXCEPT ![c].at = "quarantining"]
    /\ UNCHANGED <<storeVars, disk, built, operator>>

\* validate_artifact and read_artifact up to what they raise.
Checks(c) ==
    /\ client[c].at = "checking"
    /\ CASE disk[client[c].artifact] = "valid" -> Answered(c, "artifact")
         [] disk[client[c].artifact] \in Gone \cup {"incompatible"} -> GoesOnWithout(c)
         [] disk[client[c].artifact] \in {"corrupt", "partial"} ->
               client' = [client EXCEPT ![c].at = "quarantining"]
    /\ UNCHANGED <<storeVars, disk, built, operator>>

\* _quarantine_artifact moves the directory away unless another request did.
Quarantines(c) ==
    /\ client[c].at = "quarantining"
    /\ disk' = IF disk[client[c].artifact] \in Present
               THEN [disk EXCEPT ![client[c].artifact] = "quarantined"] ELSE disk
    /\ GoesOnWithout(c)
    /\ UNCHANGED <<storeVars, built, operator>>

-----------------------------------------------------------------------------
(* The operator.                                                           *)

\* inventory_artifacts: all artifacts are of one age here, since
\* the properties of the plan itself look at ages.
Inventory(protected) ==
    {[id |-> a, size |-> 1, created |-> IF disk[a] = "valid" THEN 0 ELSE Never,
      integrity |-> disk[a], protected |-> a \in protected] :
         a \in {b \in Artifacts : disk[b] \in Present}}

CurrentPlan == Plan(Inventory(operator.protected), Policy, now)

\* The dry run reads the referenced artifacts first, as the application does.
StartsReview ==
    /\ operator.at = "idle"
    /\ operator' = [operator EXCEPT !.at = "inventorying", !.protected = ReferencedArtifacts]
    /\ UNCHANGED <<storeVars, disk, built, client>>

StartsApplying ==
    /\ operator.at = "reviewed"
    /\ operator' = [operator EXCEPT !.at = "inventorying", !.applying = TRUE,
                                    !.protected = ReferencedArtifacts]
    /\ UNCHANGED <<storeVars, disk, built, client>>

FinishesReview ==
    /\ operator.at = "inventorying" /\ ~operator.applying
    /\ operator' = [operator EXCEPT !.at = "reviewed", !.reviewed = PlanId(CurrentPlan)]
    /\ UNCHANGED <<storeVars, disk, built, client>>

\* Mutant: the plan is rebuilt but not compared with the reviewed one.
RebuildsWithoutComparing ==
    /\ operator.at = "inventorying" /\ operator.applying
    /\ operator' = [operator EXCEPT !.at = "rechecking", !.todo = ChosenIds(CurrentPlan)]
    /\ UNCHANGED <<storeVars, disk, built, client>>

\* apply_artifact_collection rebuilds the plan and refuses a changed one.
RebuildsPlan ==
    /\ operator.at = "inventorying" /\ operator.applying
    /\ operator' = IF PlanId(CurrentPlan) = operator.reviewed
                   THEN [operator EXCEPT !.at = "rechecking", !.todo = ChosenIds(CurrentPlan)]
                   ELSE IdleOperator
    /\ UNCHANGED <<storeVars, disk, built, client>>

\* The second look at the references and the directory, candidate by candidate;
\* candidates of one age are listed by identifier.
RechecksCandidate ==
    /\ operator.at = "rechecking"
    /\ \E a \in operator.todo :
          /\ \A b \in operator.todo : a <= b
          /\ operator' = IF a \in ReferencedArtifacts \/ disk[a] \notin Present
                         THEN IdleOperator
                         ELSE [operator EXCEPT !.at = "removing", !.candidate = a]
    /\ UNCHANGED <<storeVars, disk, built, client>>

\* rmtree starts on the directory, or raises because a request moved it away.
BeginsRemoval ==
    /\ operator.at = "removing"
    /\ IF disk[operator.candidate] \in Present
       THEN /\ disk' = [disk EXCEPT ![operator.candidate] = "partial"]
            /\ operator' = [operator EXCEPT !.at = "unlinking"]
       ELSE operator' = IdleOperator /\ UNCHANGED disk
    /\ UNCHANGED <<storeVars, built, client>>

EndsRemoval ==
    /\ operator.at = "unlinking"
    /\ IF disk[operator.candidate] \in Present
       THEN /\ disk' = [disk EXCEPT ![operator.candidate] = "removed"]
            /\ operator' = [operator EXCEPT !.at = "rechecking",
                                            !.todo = @ \ {operator.candidate}]
       ELSE operator' = IdleOperator /\ UNCHANGED disk
    /\ UNCHANGED <<storeVars, built, client>>

FinishesApplying ==
    /\ operator.at = "rechecking" /\ operator.todo = {}
    /\ operator' = IdleOperator
    /\ UNCHANGED <<storeVars, disk, built, client>>

-----------------------------------------------------------------------------

RunsMove ==
    \/ Claims
    \/ \E r \in Runs :
          CompletesRun(r) \/ FailsRun(r) \/ \E a \in Artifacts : PublishesForRun(r, a)

HandlerStep(c) == Acquires(c) \/ Checks(c) \/ Quarantines(c)

RequestsMove ==
    \E c \in Clients :
        AsksForRun(c) \/ HandlerStep(c) \/ \E a \in Artifacts : AsksForArtifact(c, a)

OperatorApplies ==
    StartsApplying \/ RebuildsPlan \/ RechecksCandidate \/ BeginsRemoval \/ EndsRemoval
    \/ FinishesApplying

OperatorMoves == StartsReview \/ FinishesReview \/ OperatorApplies

DirectoryMoves == \E a \in Artifacts : PublishesUpload(a) \/ Decays(a)

CollectionNext == RunsMove \/ RequestsMove \/ OperatorMoves \/ DirectoryMoves

CollectionSpec == CollectionInit /\ [][CollectionNext]_collectionVars

\* A request handler runs in a web thread that nothing blocks.
FairHandlers == \A c \in Clients : WF_collectionVars(HandlerStep(c))

\* An operator who reviews the plan while no run is being executed; applying it
\* may still happen at any later time, whatever runs then.
ReviewsBetweenRuns ==
    \/ StartsReview /\ Having("running") = {}
    \/ FinishesReview /\ Having("running") = {}

CarefulNext == RunsMove \/ RequestsMove \/ ReviewsBetweenRuns \/ OperatorApplies
               \/ DirectoryMoves

CarefulSpec == CollectionInit /\ [][CarefulNext]_collectionVars /\ FairHandlers

-----------------------------------------------------------------------------
(* Properties.                                                             *)

\* If the plan was reviewed between runs, applying it never takes the artifact of
\* a completed run, not even of one that completes while it is applied: such an
\* artifact was published after the review, so the rebuilt plan differs.
CompletedIsKept ==
    \A r \in Having("completed") : disk[rows[r].artifact] \notin {"partial", "removed"}

\* Artifacts of another schema version are preserved: neither a request nor a
\* collection moves or removes them.
PreservesIncompatible == \A a \in OldArtifacts : disk[a] = "incompatible"

\* Whatever is in the directory, the walk chooses exactly the artifacts the policy
\* asks for: the oldest ones, no more than needed, and never a protected or an
\* unreadable one.  Its running totals are those of the artifacts it leaves, and
\* satisfies_policy says what they mean; so a plan that was carried out is followed
\* by an empty one.  (The plan is a function of its arguments: the initial states
\* are enough to look at all of them.)
PlanMatchesReference ==
    CollectionInit =>
    \A inventory \in Inventories, policy \in Policies, clock \in Times :
        PlanMatches(inventory, policy, clock)

\* The search for a reusable artifact ends, whatever is damaged, quarantined or
\* completed while it goes on.
RequestIsAnswered ==
    \A c \in Clients : (client[c].at = "acquiring") ~> (client[c].at = "answered")

\* The documented promise: manual collection never removes an artifact
\* referenced by a completed run.
RemovalSparesReferenced ==
    [][\A a \in Artifacts : disk[a] = "valid" /\ disk'[a] = "partial"
          => a \notin ReferencedArtifacts]_collectionVars

=============================================================================
