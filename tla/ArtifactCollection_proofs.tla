--------------------- MODULE ArtifactCollection_proofs ----------------------
(***************************************************************************)
(* Proofs, for any sets of runs, artifacts and requests and for any policy,*)
(* that the parties that share the artifact directory keep its artifacts   *)
(* of another schema version, and, when the operator reviews between runs, *)
(* those of the completed runs: these need only which artifacts a plan can *)
(* choose from.  The last part proves what it chooses: for any inventory   *)
(* and any policy the walk of CollectionPlan ends at its Reference.        *)
(***************************************************************************)
EXTENDS ArtifactCollection, RunStore_proofs, SourceText_proofs

Request ==
    [at : {"idle", "acquiring", "checking", "quarantining", "answered"},
     run : Runs \cup {NoRun}, artifact : Artifacts \cup {NoArtifact},
     excluded : SUBSET Runs,
     answer : {"none", "active-run", "new", "artifact", "error"}]

\* A plan's identifier is only compared, so any value may be the reviewed one.
OperatorTyped ==
    operator \in
        [at : {"idle", "inventorying", "reviewed", "rechecking", "removing", "unlinking"},
         reviewed : {operator.reviewed}, applying : BOOLEAN,
         protected : SUBSET Artifacts, todo : SUBSET Artifacts,
         candidate : Artifacts \cup {NoArtifact}]

\* The fields of the directory, the requests and the operator.
CollectionTypeOK ==
    /\ disk \in [Artifacts -> Present \cup Gone]
    /\ built \in [Runs -> Artifacts \cup {NoArtifact}]
    /\ client \in [Clients -> Request]
    /\ OperatorTyped

\* A request goes from completed run to completed run, and quarantines only what
\* it has seen damaged.
RequestKnows(request, completed) ==
    /\ request.excluded \subseteq completed
    /\ request.run # NoRun => request.run \in completed
    /\ request.at \in {"checking", "quarantining"} => request.artifact \in Artifacts
    /\ request.at = "quarantining" => request.artifact \notin OldArtifacts

RequestsKnow == \A c \in Clients : RequestKnows(client[c], Having("completed"))

\* The operator removes candidates of the plan, which were valid.
RemovesChosen ==
    /\ operator.at \in {"removing", "unlinking"} => operator.candidate \in operator.todo
    /\ operator.todo \cap OldArtifacts = {}

\* What PreservesIncompatible rests on, whenever the operator reviews.
CollectionInv ==
    /\ StoreInv
    /\ CollectionTypeOK
    /\ PreservesIncompatible
    /\ RequestsKnow
    /\ RemovesChosen

-----------------------------------------------------------------------------
(* What a step does to the runs.                                           *)

\* A run as the directory's parties move it: it completes only with the artifact
\* its executor published.
Advances(r) ==
    \/ rows'[r] = rows[r]
    \/ rows[r].status = "absent" /\ rows'[r].status = "queued"
    \/ rows[r].status = "queued" /\ rows'[r].status = "running"
    \/ rows[r].status \in Active /\ rows'[r].status \in Terminal \ {"completed"}
    \/ /\ rows[r].status = "running" /\ rows'[r].status = "completed"
       /\ built[r] # NoArtifact /\ rows'[r].artifact = built[r]

\* A step of the store, as the parties of the directory take it.
RunsAdvance == [StoreNext]_storeVars /\ \A r \in Runs : Advances(r)

\* A step of any other party leaves the store alone.
LEMMA AloneAdvances ==
    ASSUME UNCHANGED storeVars
    PROVE  RunsAdvance
  BY DEF storeVars, RunsAdvance, Advances

\* Claiming runs advances them.
LEMMA ClaimAdvances ==
    ASSUME StoreInv, Claims
    PROVE  RunsAdvance
<1>1. PICK r \in Runs : ClaimNext(r)
  BY DEF Claims
<1>2. StoreNext
  BY <1>1 DEF StoreNext
<1>3. ASSUME NEW q \in Runs PROVE Advances(q)
  <2>1. rows[q] \in Row
    BY DEF StoreInv, StoreTypeOK
  <2>2. CASE q \in Having("queued")
    <3>1. rows[q].status = "queued"
      BY <2>2 DEF Having
    <3>2. \/ rows'[q] = [rows[q] EXCEPT !.status = "cancelled", !.finished = now]
          \/ rows'[q] = [rows[q] EXCEPT !.status = "running"]
          \/ rows'[q] = rows[q]
      BY <1>1 DEF ClaimNext
    <3>3. rows'[q] = rows[q] \/ rows'[q].status \in {"cancelled", "running"}
      BY <2>1, <3>2 DEF Row
    <3>. QED  BY <3>1, <3>3 DEF Advances, Active, Terminal
  <2>3. CASE q \notin Having("queued")
    <3>1. r \in Having("queued")
      BY <1>1 DEF ClaimNext, Wanted
    <3>2. rows'[q] = rows[q]
      BY <1>1, <2>3, <3>1 DEF ClaimNext
    <3>. QED  BY <3>2 DEF Advances
  <2>. QED  BY <2>2, <2>3
<1>. QED  BY <1>2, <1>3 DEF RunsAdvance

\* A transition changes one row's status and artifact.
LEMMA FinishMoves ==
    ASSUME StoreInv, NEW r \in Runs, NEW expected, NEW s, NEW a, NEW code,
           Finish(r, expected, s, a, code)
    PROVE  /\ rows[r].status \in expected
           /\ rows'[r].status = s /\ rows'[r].artifact = a
           /\ \A q \in Runs \ {r} : rows'[q] = rows[q]
<1>1. PICK stamp : Transition(r, expected, s, a, code, stamp)
  BY DEF Finish
<1> DEFINE moved == [rows[r] EXCEPT !.status = s, !.artifact = a,
                                    !.diagnostic = code, !.finished = stamp]
<1>2. rows[r] \in Row /\ rows \in [Runs -> Row]
  BY DEF StoreInv, StoreTypeOK
<1>3. moved.status = s /\ moved.artifact = a
  BY <1>2 DEF Row
<1>4. rows' = [rows EXCEPT ![r] = moved] /\ rows[r].status \in expected
  BY <1>1 DEF Transition, CanTransition
<1> HIDE DEF moved
<1>. QED  BY <1>2, <1>3, <1>4

\* A run is completed with the artifact it built.
LEMMA CompletionAdvances ==
    ASSUME StoreInv, CollectionTypeOK, NEW r \in Runs, CompletesRun(r)
    PROVE  RunsAdvance
<1>1. built[r] \in Artifacts /\ built[r] # NoArtifact /\ Complete(r, built[r])
  BY DEF CompletesRun, CollectionTypeOK
<1>2. StoreNext
  BY <1>1 DEF StoreNext
<1>3. /\ rows[r].status \in {"running"}
      /\ rows'[r].status = "completed" /\ rows'[r].artifact = built[r]
      /\ \A q \in Runs \ {r} : rows'[q] = rows[q]
  BY <1>1, FinishMoves DEF Complete
<1>. QED  BY <1>1, <1>2, <1>3 DEF RunsAdvance, Advances

\* A running run fails.
LEMMA FailureAdvances ==
    ASSUME StoreInv, NEW r \in Runs, FailsRun(r)
    PROVE  RunsAdvance
<1>1. PICK code \in Codes : Fail(r, code)
  BY DEF FailsRun
<1>2. StoreNext
  BY <1>1 DEF StoreNext
<1>3. /\ rows[r].status \in Active /\ rows'[r].status = "failed"
      /\ \A q \in Runs \ {r} : rows'[q] = rows[q]
  BY <1>1, FinishMoves DEF Fail
<1>. QED  BY <1>2, <1>3 DEF RunsAdvance, Advances, Terminal

\* A request queues a run, excluding only completed ones.
LEMMA AcquisitionAdvances ==
    ASSUME StoreInv, NEW c \in Clients, RequestKnows(client[c], Having("completed")),
           Acquires(c)
    PROVE  RunsAdvance
<1>1. CASE UNCHANGED storeVars
  BY <1>1, AloneAdvances
<1>2. ASSUME NEW f \in Fingerprints, NEW r \in Runs, AcquireNew(r, f, client[c].excluded)
      PROVE  RunsAdvance
  <2>1. StoreNext
    BY <1>2 DEF StoreNext, RequestKnows
  <2>2. /\ rows[r].status = "absent" /\ rows' = [rows EXCEPT ![r] = QueuedRow(f, now)]
        /\ rows \in [Runs -> Row]
    BY <1>2 DEF AcquireNew, InsertRun, StoreInv, StoreTypeOK
  <2>3. QueuedRow(f, now).status = "queued"
    BY DEF QueuedRow, RowOf
  <2>4. \A q \in Runs : Advances(q)
    BY <2>2, <2>3 DEF Advances
  <2>. QED  BY <2>1, <2>4 DEF RunsAdvance
<1>. QED  BY <1>1, <1>2 DEF Acquires

\* The actions of the parties, by what they leave alone.
LEMMA StepAdvances ==
    ASSUME StoreInv, CollectionTypeOK, RequestsKnow, [CollectionNext]_collectionVars
    PROVE  RunsAdvance
<1>1. CASE RunsMove
  <2>1. ASSUME NEW r \in Runs, NEW a \in Artifacts, PublishesForRun(r, a)
        PROVE  UNCHANGED storeVars
    BY <2>1 DEF PublishesForRun
  <2>. QED
    BY <1>1, <2>1, AloneAdvances, ClaimAdvances, CompletionAdvances, FailureAdvances
    DEF RunsMove
<1>2. CASE RequestsMove
  <2>1. ASSUME NEW c \in Clients, Acquires(c) PROVE RunsAdvance
    BY <2>1, AcquisitionAdvances DEF RequestsKnow
  <2>2. ASSUME NEW c \in Clients, AsksForRun(c) \/ Checks(c) \/ Quarantines(c)
        PROVE  UNCHANGED storeVars
    BY <2>2 DEF AsksForRun, Checks, Quarantines
  <2>3. ASSUME NEW c \in Clients, NEW a \in Artifacts, AsksForArtifact(c, a)
        PROVE  UNCHANGED storeVars
    BY <2>3 DEF AsksForArtifact
  <2>. QED
    BY <1>2, <2>1, <2>2, <2>3, AloneAdvances DEF RequestsMove, HandlerStep
<1>3. CASE OperatorMoves
  <2>1. UNCHANGED storeVars
    BY <1>3 DEF OperatorMoves, OperatorApplies, StartsReview, FinishesReview, StartsApplying,
       RebuildsPlan, RechecksCandidate, BeginsRemoval, EndsRemoval, FinishesApplying
  <2>. QED  BY <2>1, AloneAdvances
<1>4. CASE DirectoryMoves
  <2>1. UNCHANGED storeVars
    BY <1>4 DEF DirectoryMoves, PublishesUpload, Decays
  <2>. QED  BY <2>1, AloneAdvances
<1>5. CASE UNCHANGED collectionVars
  BY <1>5, AloneAdvances DEF collectionVars, storeVars
<1>. QED  BY <1>1, <1>2, <1>3, <1>4, <1>5 DEF CollectionNext

\* A completed run keeps its row, so it stays completed.
LEMMA CompletedStays ==
    ASSUME RunsAdvance, NEW r \in Having("completed")
    PROVE  rows'[r] = rows[r] /\ r \in Having("completed")'
  BY DEF RunsAdvance, Advances, Having, Active

-----------------------------------------------------------------------------
(* What a step does to the directory.                                      *)

\* An artifact is published once, decays, is quarantined by a request that found it
\* damaged, or is removed as the operator's candidate.
Changes(a) ==
    \/ disk'[a] = disk[a]
    \/ disk[a] = "absent" /\ disk'[a] = "valid"
    \/ disk[a] = "valid" /\ disk'[a] = "corrupt"
    \/ /\ \E c \in Clients : client[c].at = "quarantining" /\ client[c].artifact = a
       /\ disk[a] \in Present /\ disk'[a] = "quarantined"
    \/ /\ operator.at \in {"removing", "unlinking"} /\ operator.candidate = a
       /\ disk[a] \in Present /\ disk'[a] \in {"partial", "removed"}

\* A running run publishes one artifact, under an identifier nobody used.
Builds(r) ==
    \/ built'[r] = built[r]
    \/ /\ rows[r].status = "running" /\ rows'[r] = rows[r]
       /\ built[r] = NoArtifact /\ built'[r] \in Artifacts
       /\ disk[built'[r]] = "absent" /\ disk'[built'[r]] = "valid"

DirectoryShape ==
    /\ disk' \in [Artifacts -> Present \cup Gone]
    /\ built' \in [Runs -> Artifacts \cup {NoArtifact}]
    /\ \A a \in Artifacts : Changes(a)
    /\ \A r \in Runs : Builds(r)

\* A step that leaves the directory alone.
LEMMA UntouchedShape ==
    ASSUME CollectionTypeOK, UNCHANGED <<disk, built>>
    PROVE  DirectoryShape
  BY DEF CollectionTypeOK, DirectoryShape, Changes, Builds

\* A step that moves one artifact's directory.
LEMMA OneMovesShape ==
    ASSUME CollectionTypeOK, NEW a \in Artifacts, NEW content \in Present \cup Gone,
           disk' = [disk EXCEPT ![a] = content], Changes(a), UNCHANGED built
    PROVE  DirectoryShape
  BY DEF CollectionTypeOK, DirectoryShape, Changes, Builds

\* Publishing for a run.
LEMMA PublicationShape ==
    ASSUME CollectionTypeOK, NEW r \in Runs, NEW a \in Artifacts, PublishesForRun(r, a)
    PROVE  DirectoryShape
<1>1. /\ disk[a] = "absent" /\ disk' = [disk EXCEPT ![a] = "valid"]
      /\ built[r] = NoArtifact /\ built' = [built EXCEPT ![r] = a]
      /\ rows[r].status = "running" /\ rows' = rows
  BY DEF PublishesForRun, Publish, storeVars
<1>2. /\ disk \in [Artifacts -> Present \cup Gone]
      /\ built \in [Runs -> Artifacts \cup {NoArtifact}]
  BY DEF CollectionTypeOK
<1>3. disk' \in [Artifacts -> Present \cup Gone] /\ disk'[a] = "valid"
  BY <1>1, <1>2 DEF Present
<1>4. built' \in [Runs -> Artifacts \cup {NoArtifact}] /\ built'[r] = a
  BY <1>1, <1>2
<1>5. \A b \in Artifacts : Changes(b)
  BY <1>1, <1>2 DEF Changes
<1>6. \A q \in Runs : Builds(q)
  BY <1>1, <1>2, <1>3, <1>4 DEF Builds
<1>. QED  BY <1>3, <1>4, <1>5, <1>6 DEF DirectoryShape

\* Every action of every party.
LEMMA StepHasDirectoryShape ==
    ASSUME CollectionTypeOK, RequestsKnow, RemovesChosen, [CollectionNext]_collectionVars
    PROVE  DirectoryShape
<1>1. CASE RunsMove
  <2>1. CASE UNCHANGED directoryVars
    BY <2>1, UntouchedShape DEF directoryVars
  <2>2. CASE \E r \in Runs, a \in Artifacts : PublishesForRun(r, a)
    BY <2>2, PublicationShape
  <2>. QED
    BY <1>1, <2>1, <2>2 DEF RunsMove, Claims, CompletesRun, FailsRun
<1>2. CASE RequestsMove
  <2>1. PICK c \in Clients :
           AsksForRun(c) \/ HandlerStep(c) \/ \E a \in Artifacts : AsksForArtifact(c, a)
    BY <1>2 DEF RequestsMove
  <2>2. CASE UNCHANGED <<disk, built>>
    BY <2>2, UntouchedShape
  <2>3. CASE Quarantines(c)
    <3>1. client[c].at = "quarantining" /\ UNCHANGED built
      BY <2>3 DEF Quarantines
    <3>2. client[c].artifact \in Artifacts
      BY <3>1 DEF RequestsKnow, RequestKnows
    <3>3. CASE disk[client[c].artifact] \in Present
      <4> DEFINE a == client[c].artifact
      <4>1. disk' = [disk EXCEPT ![a] = "quarantined"]
        BY <2>3, <3>3 DEF Quarantines
      <4>2. disk'[a] = "quarantined"
        BY <3>2, <4>1 DEF CollectionTypeOK
      <4>3. Changes(a)
        BY <3>1, <3>3, <4>2 DEF Changes
      <4>. QED  BY <3>1, <3>2, <4>1, <4>3, OneMovesShape DEF Gone
    <3>4. CASE disk[client[c].artifact] \notin Present
      BY <2>3, <3>1, <3>4, UntouchedShape DEF Quarantines
    <3>. QED  BY <3>3, <3>4
  <2>. QED
    BY <2>1, <2>2, <2>3 DEF HandlerStep, AsksForRun, AsksForArtifact, Acquires, Checks
<1>3. CASE OperatorMoves
  <2>1. CASE UNCHANGED <<disk, built>>
    BY <2>1, UntouchedShape
  <2>2. ASSUME NEW content \in {"partial", "removed"},
               operator.at \in {"removing", "unlinking"},
               disk[operator.candidate] \in Present,
               disk' = [disk EXCEPT ![operator.candidate] = content], UNCHANGED built
        PROVE  DirectoryShape
    <3> DEFINE a == operator.candidate
    <3>1. a \in Artifacts
      BY <2>2 DEF RemovesChosen, CollectionTypeOK, OperatorTyped
    <3>2. disk'[a] = content
      BY <2>2, <3>1 DEF CollectionTypeOK
    <3>3. Changes(a)
      BY <2>2, <3>2 DEF Changes
    <3>4. content \in Present \cup Gone
      BY DEF Present, Gone
    <3>. QED  BY <2>2, <3>1, <3>3, <3>4, OneMovesShape
  <2>3. CASE BeginsRemoval
    BY <2>1, <2>2, <2>3 DEF BeginsRemoval
  <2>4. CASE EndsRemoval
    BY <2>1, <2>2, <2>4 DEF EndsRemoval
  <2>. QED
    BY <1>3, <2>1, <2>3, <2>4 DEF OperatorMoves, OperatorApplies, StartsReview,
       FinishesReview, StartsApplying, RebuildsPlan, RechecksCandidate, FinishesApplying
<1>4. CASE DirectoryMoves
  <2>1. PICK a \in Artifacts : PublishesUpload(a) \/ Decays(a)
    BY <1>4 DEF DirectoryMoves
  <2>2. CASE PublishesUpload(a)
    <3>1. /\ disk[a] = "absent" /\ disk' = [disk EXCEPT ![a] = "valid"] /\ UNCHANGED built
          /\ disk'[a] = "valid"
      BY <2>2 DEF PublishesUpload, Publish, CollectionTypeOK
    <3>. QED  BY <3>1, OneMovesShape DEF Changes, Present
  <2>3. CASE Decays(a)
    <3>1. /\ disk[a] = "valid" /\ disk' = [disk EXCEPT ![a] = "corrupt"] /\ UNCHANGED built
          /\ disk'[a] = "corrupt"
      BY <2>3 DEF Decays, CollectionTypeOK
    <3>. QED  BY <3>1, OneMovesShape DEF Changes, Present
  <2>. QED  BY <2>1, <2>2, <2>3
<1>5. CASE UNCHANGED collectionVars
  BY <1>5, UntouchedShape DEF collectionVars
<1>. QED  BY <1>1, <1>2, <1>3, <1>4, <1>5 DEF CollectionNext

-----------------------------------------------------------------------------
(* What a step does to the requests.                                       *)

\* Completed runs have an artifact.
LEMMA CompletedHasArtifact ==
    ASSUME StoreInv, NEW r \in Having("completed")
    PROVE  r \in Runs /\ rows[r].artifact \in Artifacts
<1>1. r \in Runs /\ rows[r] \in Row /\ rows[r].status = "completed"
  BY DEF Having, StoreInv, StoreTypeOK
<1>. QED  BY <1>1 DEF StoreInv, RowsMeetChecks, Row

\* A request keeps knowing what it knows, since completed runs stay completed.
LEMMA KnowledgeStays ==
    ASSUME RunsAdvance, NEW request, RequestKnows(request, Having("completed"))
    PROVE  RequestKnows(request, Having("completed")')
<1>1. Having("completed") \subseteq Having("completed")'
  BY CompletedStays
<1>. QED  BY <1>1 DEF RequestKnows

RequestsKept == client' \in [Clients -> Request] /\ RequestsKnow'

\* A step of one request.
LEMMA OneRequestMoves ==
    ASSUME CollectionTypeOK, RequestsKnow, RunsAdvance, NEW c \in Clients,
           NEW request \in Request, RequestKnows(request, Having("completed")),
           client' = [client EXCEPT ![c] = request]
    PROVE  RequestsKept
<1>1. client' \in [Clients -> Request] /\ client'[c] = request
      /\ \A d \in Clients \ {c} : client'[d] = client[d]
  BY DEF CollectionTypeOK
<1>2. \A d \in Clients : RequestKnows(client'[d], Having("completed"))
  BY <1>1 DEF RequestsKnow
<1>3. \A d \in Clients : RequestKnows(client'[d], Having("completed")')
  BY <1>2, KnowledgeStays
<1>. QED  BY <1>1, <1>3 DEF RequestsKept, RequestsKnow

\* A step that leaves the requests alone.
LEMMA UntouchedRequests ==
    ASSUME CollectionTypeOK, RequestsKnow, RunsAdvance, UNCHANGED client
    PROVE  RequestsKept
<1>1. \A d \in Clients : RequestKnows(client'[d], Having("completed")')
  BY KnowledgeStays DEF RequestsKnow
<1>. QED  BY <1>1 DEF RequestsKept, RequestsKnow, CollectionTypeOK

\* An answer ends what a request may quarantine.
LEMMA AnswerKeeps ==
    ASSUME CollectionTypeOK, RequestsKnow, RunsAdvance, NEW c \in Clients,
           NEW answer \in {"active-run", "new", "artifact", "error"}, Answered(c, answer)
    PROVE  RequestsKept
<1> DEFINE request == [client[c] EXCEPT !.at = "answered", !.answer = answer]
<1>1. client[c] \in Request /\ RequestKnows(client[c], Having("completed"))
  BY DEF CollectionTypeOK, RequestsKnow
<1>2. request \in Request /\ RequestKnows(request, Having("completed"))
  BY <1>1 DEF Request, RequestKnows
<1>3. client' = [client EXCEPT ![c] = request]
  BY DEF Answered, CollectionTypeOK
<1> HIDE DEF request
<1>. QED  BY <1>2, <1>3, OneRequestMoves

\* The search goes on without a completed run, which joins the excluded ones.
LEMMA GoingOnKeeps ==
    ASSUME CollectionTypeOK, RequestsKnow, RunsAdvance, NEW c \in Clients, GoesOnWithout(c)
    PROVE  RequestsKept
<1>1. CASE client[c].run = NoRun
  BY <1>1, AnswerKeeps DEF GoesOnWithout
<1>2. CASE client[c].run # NoRun
  <2> DEFINE request == [client[c] EXCEPT !.at = "acquiring", !.run = NoRun,
                                          !.artifact = NoArtifact,
                                          !.excluded = @ \cup {client[c].run}]
  <2>1. client[c] \in Request /\ RequestKnows(client[c], Having("completed"))
    BY DEF CollectionTypeOK, RequestsKnow
  <2>2. request \in Request /\ RequestKnows(request, Having("completed"))
    BY <1>2, <2>1 DEF Request, RequestKnows
  <2>3. client' = [client EXCEPT ![c] = request]
    BY <1>2 DEF GoesOnWithout, CollectionTypeOK
  <2> HIDE DEF request
  <2>. QED  BY <2>2, <2>3, OneRequestMoves
<1>. QED  BY <1>1, <1>2

\* A request that starts.
LEMMA AskingKeeps ==
    ASSUME CollectionTypeOK, RequestsKnow, RunsAdvance, NEW c \in Clients,
           AsksForRun(c) \/ \E a \in Artifacts : AsksForArtifact(c, a)
    PROVE  RequestsKept
<1>1. client[c] \in Request /\ RequestKnows(client[c], Having("completed"))
  BY DEF CollectionTypeOK, RequestsKnow
<1>2. CASE AsksForRun(c)
  <2> DEFINE request == [client[c] EXCEPT !.at = "acquiring"]
  <2>1. request \in Request /\ RequestKnows(request, Having("completed"))
    BY <1>1 DEF Request, RequestKnows
  <2>2. client' = [client EXCEPT ![c] = request]
    BY <1>2 DEF AsksForRun, CollectionTypeOK
  <2> HIDE DEF request
  <2>. QED  BY <2>1, <2>2, OneRequestMoves
<1>3. ASSUME NEW a \in Artifacts, AsksForArtifact(c, a) PROVE RequestsKept
  <2> DEFINE request == [client[c] EXCEPT !.at = "checking", !.artifact = a]
  <2>1. request \in Request /\ RequestKnows(request, Having("completed"))
    BY <1>1 DEF Request, RequestKnows
  <2>2. client' = [client EXCEPT ![c] = request]
    BY <1>3 DEF AsksForArtifact, CollectionTypeOK
  <2> HIDE DEF request
  <2>. QED  BY <2>1, <2>2, OneRequestMoves
<1>. QED  BY <1>2, <1>3

\* A request that the store answers, or that is offered a completed run.
LEMMA AcquisitionKeeps ==
    ASSUME CollectionTypeOK, StoreInv, RequestsKnow, RunsAdvance, NEW c \in Clients,
           Acquires(c)
    PROVE  RequestsKept
<1>1. client[c] \in Request /\ RequestKnows(client[c], Having("completed"))
  BY DEF CollectionTypeOK, RequestsKnow
<1>2. CASE Answered(c, "active-run") \/ Answered(c, "new")
  BY <1>2, AnswerKeeps
<1>3. ASSUME NEW f \in Fingerprints, NEW r \in ReusableRuns(f, client[c].excluded),
             client' = [client EXCEPT ![c].at = "checking", ![c].run = r,
                                      ![c].artifact = rows[r].artifact]
      PROVE  RequestsKept
  <2> DEFINE request == [client[c] EXCEPT !.at = "checking", !.run = r,
                                          !.artifact = rows[r].artifact]
  <2>1. r \in Having("completed") /\ r \in Runs /\ rows[r].artifact \in Artifacts
    BY CompletedHasArtifact DEF ReusableRuns
  <2>2. request \in Request /\ RequestKnows(request, Having("completed"))
    BY <1>1, <2>1 DEF Request, RequestKnows
  <2>3. client' = [client EXCEPT ![c] = request]
    BY <1>3 DEF CollectionTypeOK
  <2> HIDE DEF request
  <2>. QED  BY <2>2, <2>3, OneRequestMoves
<1>. QED  BY <1>2, <1>3 DEF Acquires

\* A request quarantines what it finds damaged, which is no artifact of another
\* schema version while those are preserved.
LEMMA CheckKeeps ==
    ASSUME CollectionTypeOK, PreservesIncompatible, RequestsKnow, RunsAdvance,
           NEW c \in Clients, Checks(c)
    PROVE  RequestsKept
<1>1. client[c] \in Request /\ RequestKnows(client[c], Having("completed"))
  BY DEF CollectionTypeOK, RequestsKnow
<1>2. client[c].artifact \in Artifacts /\ disk[client[c].artifact] \in Present \cup Gone
  BY <1>1 DEF Checks, RequestKnows, CollectionTypeOK
<1>3. CASE disk[client[c].artifact] = "valid"
  BY <1>3, AnswerKeeps DEF Checks, Gone, Present
<1>4. CASE disk[client[c].artifact] \in Gone \cup {"incompatible"}
  BY <1>4, GoingOnKeeps DEF Checks, Gone
<1>5. CASE disk[client[c].artifact] \in {"corrupt", "partial"}
  <2> DEFINE request == [client[c] EXCEPT !.at = "quarantining"]
  <2>1. client' = [client EXCEPT ![c] = request]
    BY <1>5 DEF Checks, Gone, CollectionTypeOK
  <2>2. client[c].artifact \notin OldArtifacts
    BY <1>5 DEF PreservesIncompatible
  <2>3. request \in Request /\ RequestKnows(request, Having("completed"))
    BY <1>1, <1>2, <2>2 DEF Request, RequestKnows
  <2> HIDE DEF request
  <2>. QED  BY <2>1, <2>3, OneRequestMoves
<1>. QED  BY <1>2, <1>3, <1>4, <1>5 DEF Present

\* Every action of every party.
LEMMA StepKeepsRequests ==
    ASSUME CollectionInv, RunsAdvance, [CollectionNext]_collectionVars
    PROVE  RequestsKept
<1> USE DEF CollectionInv
<1>1. CASE RequestsMove
  <2>1. PICK c \in Clients :
           AsksForRun(c) \/ HandlerStep(c) \/ \E a \in Artifacts : AsksForArtifact(c, a)
    BY <1>1 DEF RequestsMove
  <2>2. CASE Quarantines(c)
    BY <2>2, GoingOnKeeps DEF Quarantines
  <2>. QED
    BY <2>1, <2>2, AskingKeeps, AcquisitionKeeps, CheckKeeps DEF HandlerStep
<1>2. CASE RunsMove \/ OperatorMoves \/ DirectoryMoves \/ UNCHANGED collectionVars
  <2>1. UNCHANGED client
    BY <1>2 DEF RunsMove, Claims, CompletesRun, FailsRun, PublishesForRun, OperatorMoves,
       OperatorApplies, StartsReview, FinishesReview, StartsApplying, RebuildsPlan,
       RechecksCandidate, BeginsRemoval, EndsRemoval, FinishesApplying, DirectoryMoves,
       PublishesUpload, Decays, directoryVars, collectionVars
  <2>. QED  BY <2>1, UntouchedRequests
<1>. QED  BY <1>1, <1>2 DEF CollectionNext

-----------------------------------------------------------------------------
(* What a step does to the operator.                                       *)

\* Whatever the walk computes, a plan chooses among the artifacts that were valid
\* and not referenced when the operator looked.
LEMMA ChosenAreEligible ==
    ASSUME NEW a \in ChosenIds(CurrentPlan)
    PROVE  a \in Artifacts /\ disk[a] = "valid" /\ a \notin operator.protected
<1> DEFINE inventory == Inventory(operator.protected)
           plan == Plan(inventory, Policy, now)
           reasons == Walk(inventory, Policy, now).reasons
<1>1. plan.candidates = {Candidate(item, reasons[item]) :
                            item \in {i \in Eligible(inventory) : reasons[i] # {}}}
  BY DEF Plan
<1>2. PICK candidate \in plan.candidates : a = candidate.id
  BY DEF ChosenIds, CurrentPlan
<1> HIDE DEF plan, reasons
<1>3. PICK item \in Eligible(inventory) : candidate = Candidate(item, reasons[item])
  BY <1>1
<1>4. a = item.id
  BY <1>2, <1>3 DEF Candidate
<1>5. item \in Inventory(operator.protected) /\ item.integrity = "valid" /\ ~item.protected
  BY <1>3 DEF Eligible
<1>6. PICK b \in {x \in Artifacts : disk[x] \in Present} :
         item = [id |-> b, size |-> 1, created |-> IF disk[b] = "valid" THEN 0 ELSE Never,
                 integrity |-> disk[b], protected |-> b \in operator.protected]
  BY <1>5 DEF Inventory
<1>7. item.id = b /\ item.integrity = disk[b] /\ item.protected = (b \in operator.protected)
  BY <1>6
<1>. QED  BY <1>4, <1>5, <1>6, <1>7

\* Two plans with one identifier choose the same artifacts.
LEMMA SameIdSameChoice ==
    ASSUME NEW p, NEW q, PlanId(p) = PlanId(q)
    PROVE  ChosenIds(p) = ChosenIds(q) /\ ChosenIds(p) = {c.id : c \in PlanId(q)[2]}
<1>1. PlanId(p)[2] = p.candidates /\ PlanId(q)[2] = q.candidates
  BY DEF PlanId
<1>2. p.candidates = q.candidates
  BY <1>1
<1>. QED  BY <1>1, <1>2 DEF ChosenIds

\* Referenced artifacts are artifacts.
LEMMA ReferencedAreArtifacts ==
    ASSUME StoreInv
    PROVE  ReferencedArtifacts \subseteq Artifacts
  BY CompletedHasArtifact DEF ReferencedArtifacts

OperatorKept == OperatorTyped' /\ RemovesChosen'

\* The operator stops.
LEMMA StoppingKeeps ==
    ASSUME operator' = IdleOperator
    PROVE  OperatorKept
  BY DEF IdleOperator, OperatorKept, OperatorTyped, RemovesChosen

\* Every action of the operator.
LEMMA OperatorStepKeeps ==
    ASSUME StoreInv, OperatorTyped, PreservesIncompatible, RemovesChosen, OperatorMoves
    PROVE  OperatorKept
<1>1. ReferencedArtifacts \subseteq Artifacts
  BY ReferencedAreArtifacts
<1>2. /\ ChosenIds(CurrentPlan) \subseteq Artifacts
      /\ ChosenIds(CurrentPlan) \cap OldArtifacts = {}
  BY ChosenAreEligible DEF PreservesIncompatible
<1> USE DEF OperatorKept, OperatorTyped, RemovesChosen
<1>3. CASE StartsReview
  BY <1>1, <1>3 DEF StartsReview
<1>4. CASE FinishesReview
  BY <1>4 DEF FinishesReview
<1>5. CASE StartsApplying
  BY <1>1, <1>5 DEF StartsApplying
<1>6. CASE RebuildsPlan
  <2> DEFINE chosen == ChosenIds(CurrentPlan)
  <2>1. CASE operator' = [operator EXCEPT !.at = "rechecking", !.todo = chosen]
    <3> HIDE DEF chosen
    <3>. QED  BY <1>2, <2>1 DEF chosen
  <2>. QED  BY <1>6, <2>1, StoppingKeeps DEF RebuildsPlan
<1>7. CASE RechecksCandidate
  BY <1>7, StoppingKeeps DEF RechecksCandidate
<1>8. CASE BeginsRemoval
  BY <1>8, StoppingKeeps DEF BeginsRemoval
<1>9. CASE EndsRemoval
  <2> DEFINE left == operator.todo \ {operator.candidate}
  <2>1. CASE operator' = [operator EXCEPT !.at = "rechecking", !.todo = left]
    <3>1. left \subseteq Artifacts /\ left \cap OldArtifacts = {}
      OBVIOUS
    <3> HIDE DEF left
    <3>. QED  BY <2>1, <3>1
  <2>. QED  BY <1>9, <2>1, StoppingKeeps DEF EndsRemoval
<1>10. CASE FinishesApplying
  BY <1>10, StoppingKeeps DEF FinishesApplying
<1>. QED
  BY <1>3, <1>4, <1>5, <1>6, <1>7, <1>8, <1>9, <1>10 DEF OperatorMoves, OperatorApplies

\* Every action of every party.
LEMMA StepKeepsOperator ==
    ASSUME CollectionInv, [CollectionNext]_collectionVars
    PROVE  OperatorKept
<1>1. OperatorTyped /\ StoreInv /\ PreservesIncompatible /\ RemovesChosen
  BY DEF CollectionInv, CollectionTypeOK, OperatorTyped
<1>2. CASE OperatorMoves
  BY <1>1, <1>2, OperatorStepKeeps
<1>3. CASE RunsMove \/ RequestsMove \/ DirectoryMoves \/ UNCHANGED collectionVars
  <2>1. UNCHANGED operator
    BY <1>3 DEF RunsMove, Claims, CompletesRun, FailsRun, PublishesForRun, RequestsMove,
       HandlerStep, AsksForRun, AsksForArtifact, Acquires, Checks, Quarantines,
       DirectoryMoves, PublishesUpload, Decays, directoryVars, collectionVars
  <2>. QED  BY <1>1, <2>1 DEF OperatorKept, OperatorTyped, RemovesChosen
<1>. QED  BY <1>2, <1>3 DEF CollectionNext

-----------------------------------------------------------------------------
(* The invariant of the directory under any operator.                      *)

\* Nothing moves an artifact of another schema version: it is never published
\* again, never quarantined and never a candidate.
LEMMA StepPreservesIncompatible ==
    ASSUME PreservesIncompatible, RequestsKnow, RemovesChosen, DirectoryShape
    PROVE  PreservesIncompatible'
<1> SUFFICES ASSUME NEW a \in OldArtifacts PROVE disk'[a] = "incompatible"
  BY DEF PreservesIncompatible
<1>1. a \in Artifacts /\ disk[a] = "incompatible"
  BY ArtifactsAreOrdered DEF PreservesIncompatible
<1>2. Changes(a)
  BY <1>1 DEF DirectoryShape
<1>3. \A c \in Clients : ~(client[c].at = "quarantining" /\ client[c].artifact = a)
  BY DEF RequestsKnow, RequestKnows
<1>4. ~(operator.at \in {"removing", "unlinking"} /\ operator.candidate = a)
  BY DEF RemovesChosen
<1>. QED  BY <1>1, <1>2, <1>3, <1>4 DEF Changes

\* A directory with artifacts of another schema version only, and an empty store.
LEMMA CollectionInvInit ==
    ASSUME CollectionInit
    PROVE  CollectionInv
<1>1. StoreInv
  BY StoreInitEstablishesInv DEF CollectionInit
<1>2. CollectionTypeOK
  BY DEF CollectionInit, CollectionTypeOK, OperatorTyped, Request, IdleOperator, Present, Gone
<1>3. PreservesIncompatible
  BY ArtifactsAreOrdered DEF CollectionInit, PreservesIncompatible
<1>4. RequestsKnow /\ RemovesChosen
  BY DEF CollectionInit, RequestsKnow, RequestKnows, RemovesChosen, IdleOperator
<1>. QED  BY <1>1, <1>2, <1>3, <1>4 DEF CollectionInv

\* CollectionInv is inductive; the shapes of the step come with it.
LEMMA CollectionInvStep ==
    ASSUME CollectionInv, [CollectionNext]_collectionVars
    PROVE  CollectionInv' /\ RunsAdvance /\ DirectoryShape
<1>1. RunsAdvance
  BY StepAdvances DEF CollectionInv
<1>2. StoreInv'
  BY <1>1, StoreStepKeepsInv DEF CollectionInv, RunsAdvance
<1>3. DirectoryShape
  BY StepHasDirectoryShape DEF CollectionInv
<1>4. RequestsKept /\ OperatorKept
  BY <1>1, StepKeepsRequests, StepKeepsOperator
<1>5. CollectionTypeOK'
  BY <1>3, <1>4
  DEF CollectionTypeOK, DirectoryShape, RequestsKept, OperatorKept, OperatorTyped
<1>6. PreservesIncompatible'
  BY <1>3, StepPreservesIncompatible DEF CollectionInv
<1>. QED
  BY <1>1, <1>2, <1>3, <1>4, <1>5, <1>6 DEF CollectionInv, RequestsKept, OperatorKept

\* The invariant holds whenever the operator reviews and applies.
THEOREM CollectionInvariant == CollectionSpec => []CollectionInv
<1>1. CollectionInit => CollectionInv
  BY CollectionInvInit
<1>2. CollectionInv /\ [CollectionNext]_collectionVars => CollectionInv'
  BY CollectionInvStep
<1>. QED  BY <1>1, <1>2, PTL DEF CollectionSpec

\* Artifacts of another schema version are preserved by every request and every
\* collection, whatever the policy and whoever runs when.
THEOREM IncompatibleIsPreserved == CollectionSpec => []PreservesIncompatible
  BY CollectionInvariant, PTL DEF CollectionInv

\* The store under the directory's parties is the store under an arbitrary client,
\* so everything proved of StoreSpec holds here.
THEOREM CollectionImplementsStore == CollectionSpec => StoreSpec
<1>1. CollectionInit => StoreInit
  BY DEF CollectionInit
<1>2. CollectionInv /\ [CollectionNext]_collectionVars => [StoreNext]_storeVars
  BY CollectionInvStep DEF RunsAdvance
<1>. QED  BY <1>1, <1>2, CollectionInvariant, PTL DEF CollectionSpec, StoreSpec

-----------------------------------------------------------------------------
(* The careful operator: reviews between runs, applies at any time.        *)

\* Each run's artifact is what its status says: none before it runs, and while it
\* runs, one that nobody removes.
BuiltIsThere ==
    \A r \in Runs :
        /\ rows[r].status \in {"absent", "queued"} => built[r] = NoArtifact
        /\ built[r] # NoArtifact => disk[built[r]] # "absent"
        /\ rows[r].status = "running" /\ built[r] # NoArtifact
              => disk[built[r]] \notin {"partial", "removed"}

\* No run will complete with the artifact: it was published, and by no running run.
Settled(a) == disk[a] # "absent" /\ \A r \in Having("running") : built[r] # a

\* No run refers to the artifact, or ever will.
Free(a) == Settled(a) /\ \A r \in Having("completed") : rows[r].artifact # a

ReviewedIds == {candidate.id : candidate \in operator.reviewed[2]}

\* Reviewing between runs makes the reviewed candidates settled.
ReviewIsSettled ==
    operator.at = "reviewed" \/ (operator.at = "inventorying" /\ operator.applying)
        => ReviewedIds \subseteq Artifacts /\ \A a \in ReviewedIds : Settled(a)

\* The references read after that tell which of them are free.
ApplyingSeesReferences ==
    operator.at = "inventorying" /\ operator.applying
        => \A a \in ReviewedIds \ operator.protected : Free(a)

RemovedIsFree ==
    operator.at \in {"rechecking", "removing", "unlinking"}
        => \A a \in operator.todo : Free(a)

IdleAppliesNothing == operator.at = "idle" => ~operator.applying

\* CompletedIsKept follows step by step along the protocol: settled when reviewed,
\* free when the references are read again, hence free when removed.
CarefulInv ==
    /\ CollectionInv
    /\ BuiltIsThere
    /\ ReviewIsSettled
    /\ ApplyingSeesReferences
    /\ RemovedIsFree
    /\ IdleAppliesNothing
    /\ CompletedIsKept

\* A settled artifact stays settled: it is not published again, and a run that
\* starts has built nothing.
LEMMA SettledStays ==
    ASSUME CollectionTypeOK, BuiltIsThere, RunsAdvance, DirectoryShape,
           NEW a \in Artifacts, Settled(a)
    PROVE  Settled(a)'
<1>1. disk'[a] # "absent"
  BY DEF Settled, DirectoryShape, Changes
<1>2. ASSUME NEW r \in Runs, rows'[r].status = "running", built'[r] = a PROVE FALSE
  <2>1. Advances(r) /\ Builds(r)
    BY DEF RunsAdvance, DirectoryShape
  <2>2. built[r] = a
    BY <1>2, <2>1 DEF Builds, Settled
  <2>3. rows[r].status \in {"queued", "running"}
    BY <1>2, <2>1 DEF Advances, Terminal
  <2>4. a # NoArtifact
    BY NullsAreDistinct
  <2>. QED  BY <2>2, <2>3, <2>4 DEF Settled, Having, BuiltIsThere
<1>. QED  BY <1>1, <1>2 DEF Settled, Having

\* A free artifact stays free: only a running run completes, with what it built.
LEMMA FreeStays ==
    ASSUME CollectionTypeOK, BuiltIsThere, RunsAdvance, DirectoryShape,
           NEW a \in Artifacts, Free(a)
    PROVE  Free(a)'
<1>1. Settled(a)'
  BY SettledStays DEF Free
<1>2. ASSUME NEW r \in Runs, rows'[r].status = "completed", rows'[r].artifact = a
      PROVE  FALSE
  <2>1. Advances(r)
    BY DEF RunsAdvance
  <2>2. CASE rows'[r] = rows[r]
    BY <1>2, <2>2 DEF Free, Having
  <2>3. CASE rows[r].status = "running" /\ rows'[r].artifact = built[r]
    BY <1>2, <2>3 DEF Free, Settled, Having
  <2>. QED  BY <1>2, <2>1, <2>2, <2>3 DEF Advances, Terminal
<1>. QED  BY <1>1, <1>2 DEF Free, Having

\* Nobody removes an artifact that is not free.
LEMMA RemovalTakesFree ==
    ASSUME RemovesChosen, RemovedIsFree, DirectoryShape, NEW a \in Artifacts,
           disk[a] \notin {"partial", "removed"}, disk'[a] \in {"partial", "removed"}
    PROVE  Free(a)
<1>1. Changes(a)
  BY DEF DirectoryShape
<1>2. operator.at \in {"removing", "unlinking"} /\ operator.candidate = a
  BY <1>1 DEF Changes
<1>. QED  BY <1>2 DEF RemovesChosen, RemovedIsFree

\* While it runs, a run's artifact is there.
LEMMA BuiltStays ==
    ASSUME CollectionTypeOK, RemovesChosen, RemovedIsFree, BuiltIsThere, RunsAdvance,
           DirectoryShape
    PROVE  BuiltIsThere'
<1> SUFFICES ASSUME NEW r \in Runs
             PROVE  /\ rows'[r].status \in {"absent", "queued"} => built'[r] = NoArtifact
                    /\ built'[r] # NoArtifact => disk'[built'[r]] # "absent"
                    /\ rows'[r].status = "running" /\ built'[r] # NoArtifact
                          => disk'[built'[r]] \notin {"partial", "removed"}
  BY DEF BuiltIsThere
<1>1. Advances(r) /\ Builds(r)
  BY DEF RunsAdvance, DirectoryShape
<1>2. CASE built'[r] # built[r]
  <2>1. rows'[r].status = "running" /\ disk'[built'[r]] = "valid"
    BY <1>1, <1>2 DEF Builds
  <2>. QED  BY <2>1
<1>3. CASE built'[r] = built[r]
  <2>1. rows'[r].status \in {"absent", "queued"} => rows[r].status \in {"absent", "queued"}
    BY <1>1 DEF Advances, Terminal
  <2>2. ASSUME built[r] # NoArtifact
        PROVE  disk'[built[r]] # "absent"
    <3>1. built[r] \in Artifacts /\ disk[built[r]] # "absent"
      BY <2>2 DEF CollectionTypeOK, BuiltIsThere
    <3>2. Changes(built[r])
      BY <3>1 DEF DirectoryShape
    <3>. QED  BY <3>1, <3>2 DEF Changes
  <2>3. ASSUME rows'[r].status = "running", built[r] # NoArtifact,
               disk'[built[r]] \in {"partial", "removed"}
        PROVE  FALSE
    <3>1. built[r] \in Artifacts
      BY <2>3 DEF CollectionTypeOK
    <3>2. rows[r].status = "running"
      BY <1>1, <2>3 DEF Advances, Terminal, BuiltIsThere
    <3>3. disk[built[r]] \notin {"partial", "removed"}
      BY <2>3, <3>2 DEF BuiltIsThere
    <3>4. Free(built[r])
      BY <2>3, <3>1, <3>3, RemovalTakesFree
    <3>. QED  BY <3>2, <3>4 DEF Free, Settled, Having
  <2>. QED  BY <1>3, <2>1, <2>2, <2>3 DEF BuiltIsThere
<1>. QED  BY <1>2, <1>3

\* The artifact of a completed run is not removed.
LEMMA CompletedKept ==
    ASSUME StoreInv, CollectionTypeOK, RemovesChosen, RemovedIsFree, BuiltIsThere,
           CompletedIsKept, RunsAdvance, DirectoryShape
    PROVE  CompletedIsKept'
<1> SUFFICES ASSUME NEW r \in Runs, rows'[r].status = "completed",
                    disk'[rows'[r].artifact] \in {"partial", "removed"}
             PROVE  FALSE
  BY DEF CompletedIsKept, Having
<1> DEFINE a == rows'[r].artifact
<1>1. Advances(r)
  BY DEF RunsAdvance
<1>2. CASE rows'[r] = rows[r]
  <2>1. r \in Having("completed") /\ a = rows[r].artifact
    BY <1>2 DEF Having
  <2>2. a \in Artifacts /\ disk[a] \notin {"partial", "removed"}
    BY <2>1, CompletedHasArtifact DEF CompletedIsKept
  <2>3. Free(a)
    BY <2>2, RemovalTakesFree
  <2>. QED  BY <2>1, <2>3 DEF Free
<1>3. CASE rows[r].status = "running" /\ built[r] # NoArtifact /\ a = built[r]
  <2>1. a \in Artifacts /\ disk[a] \notin {"partial", "removed"}
    BY <1>3 DEF CollectionTypeOK, BuiltIsThere
  <2>2. Free(a)
    BY <2>1, RemovalTakesFree
  <2>. QED  BY <1>3, <2>2 DEF Free, Settled, Having
<1>. QED  BY <1>1, <1>2, <1>3 DEF Advances, Terminal

\* What the operator knows along the protocol.
Protocol ==
    ReviewIsSettled /\ ApplyingSeesReferences /\ RemovedIsFree /\ IdleAppliesNothing

\* What the operator knows stays true while the others move.
LEMMA ProtocolStays ==
    ASSUME CollectionInv, BuiltIsThere, Protocol, RunsAdvance, DirectoryShape,
           UNCHANGED operator
    PROVE  Protocol'
<1>1. CollectionTypeOK /\ operator.todo \subseteq Artifacts
  BY DEF CollectionInv, CollectionTypeOK, OperatorTyped
<1>2. \A a \in Artifacts : (Settled(a) => Settled(a)') /\ (Free(a) => Free(a)')
  BY <1>1, SettledStays, FreeStays
<1>3. ReviewedIds' = ReviewedIds
  BY DEF ReviewedIds
<1>4. ReviewIsSettled'
  BY <1>2, <1>3 DEF Protocol, ReviewIsSettled
<1>5. ApplyingSeesReferences'
  BY <1>2, <1>3 DEF Protocol, ReviewIsSettled, ApplyingSeesReferences
<1>6. RemovedIsFree'
  BY <1>1, <1>2 DEF Protocol, RemovedIsFree
<1>7. IdleAppliesNothing'
  BY DEF Protocol, IdleAppliesNothing
<1>. QED  BY <1>4, <1>5, <1>6, <1>7 DEF Protocol

\* An operator who stops, or starts a review, knows nothing yet.
LEMMA ForgettingKeeps ==
    ASSUME \/ operator'.at = "idle" /\ ~operator'.applying
           \/ operator'.at = "inventorying" /\ ~operator'.applying
    PROVE  Protocol'
  BY DEF Protocol, ReviewIsSettled, ApplyingSeesReferences, RemovedIsFree,
     IdleAppliesNothing

\* The review settles its candidates: they were published, and no run is running.
LEMMA ReviewKeeps ==
    ASSUME CollectionInv, FinishesReview, Having("running") = {}
    PROVE  Protocol'
<1>1. /\ operator'.at = "reviewed" /\ operator'.reviewed = PlanId(CurrentPlan)
      /\ UNCHANGED <<storeVars, disk, built>>
  BY DEF FinishesReview, CollectionInv, CollectionTypeOK
<1>2. ReviewedIds' = ChosenIds(CurrentPlan)
  BY <1>1, SameIdSameChoice DEF ReviewedIds
<1>3. Having("running")' = {} /\ disk' = disk
  BY <1>1 DEF Having, storeVars
<1>4. ReviewIsSettled'
  BY <1>2, <1>3, ChosenAreEligible DEF ReviewIsSettled, Settled
<1>. QED
  BY <1>1, <1>4 DEF Protocol, ApplyingSeesReferences, RemovedIsFree, IdleAppliesNothing

\* The references read when the plan is applied tell which reviewed candidates are
\* free, since all of them are settled.
LEMMA ApplyingKeeps ==
    ASSUME CollectionInv, Protocol, StartsApplying
    PROVE  Protocol'
<1>1. /\ operator.at = "reviewed"
      /\ operator'.at = "inventorying" /\ operator'.reviewed = operator.reviewed
      /\ operator'.protected = ReferencedArtifacts
      /\ rows' = rows /\ disk' = disk /\ built' = built
  BY DEF StartsApplying, CollectionInv, CollectionTypeOK, storeVars
<1>2. ReviewedIds' = ReviewedIds /\ \A a : Settled(a)' = Settled(a)
  BY <1>1 DEF ReviewedIds, Settled, Having
<1>3. ReviewedIds \subseteq Artifacts /\ \A a \in ReviewedIds : Settled(a)
  BY <1>1 DEF Protocol, ReviewIsSettled
<1>4. ASSUME NEW a \in ReviewedIds, a \notin ReferencedArtifacts PROVE Free(a)'
  <2>1. \A r \in Having("completed") : rows[r].artifact # a
    BY <1>4 DEF ReferencedArtifacts
  <2>. QED  BY <1>1, <1>2, <1>3, <2>1 DEF Free, Having
<1>5. ReviewIsSettled' /\ ApplyingSeesReferences'
  BY <1>1, <1>2, <1>3, <1>4 DEF ReviewIsSettled, ApplyingSeesReferences
<1>. QED
  BY <1>1, <1>5 DEF Protocol, RemovedIsFree, IdleAppliesNothing

\* The rebuilt plan has the reviewed identifier, so it chooses reviewed artifacts,
\* and only unprotected ones: free ones.
LEMMA RebuildingKeeps ==
    ASSUME CollectionInv, Protocol, RebuildsPlan
    PROVE  Protocol'
<1>1. operator.at = "inventorying" /\ operator.applying
  BY DEF RebuildsPlan
<1>2. CASE operator' = IdleOperator
  BY <1>2, ForgettingKeeps DEF IdleOperator
<1>3. CASE /\ PlanId(CurrentPlan) = operator.reviewed
           /\ operator' = [operator EXCEPT !.at = "rechecking",
                                          !.todo = ChosenIds(CurrentPlan)]
  <2> DEFINE chosen == ChosenIds(CurrentPlan)
  <2>1. chosen = ReviewedIds
    BY <1>3, SameIdSameChoice DEF ReviewedIds
  <2>2. \A a \in chosen : Free(a)
    BY <1>1, <2>1, ChosenAreEligible DEF Protocol, ApplyingSeesReferences
  <2>3. operator' = [operator EXCEPT !.at = "rechecking", !.todo = chosen]
    BY <1>3
  <2> HIDE DEF chosen
  <2>4. operator'.at = "rechecking" /\ operator'.todo = chosen
    BY <2>3 DEF CollectionInv, CollectionTypeOK
  <2>5. rows' = rows /\ disk' = disk /\ built' = built
    BY DEF RebuildsPlan, storeVars
  <2>6. \A a \in chosen : Free(a)'
    BY <2>2, <2>5 DEF Free, Settled, Having
  <2>. QED
    BY <2>4, <2>6 DEF Protocol, ReviewIsSettled, ApplyingSeesReferences, RemovedIsFree,
       IdleAppliesNothing
<1>. QED  BY <1>2, <1>3 DEF RebuildsPlan

\* The candidates left to remove stay free while others are removed.
LEMMA RemovingKeeps ==
    ASSUME CollectionInv, BuiltIsThere, Protocol, RunsAdvance, DirectoryShape,
           operator.at \in {"rechecking", "removing", "unlinking"},
           operator'.at \in {"rechecking", "removing", "unlinking"},
           operator'.todo \subseteq operator.todo
    PROVE  Protocol'
<1>1. CollectionTypeOK /\ operator.todo \subseteq Artifacts
  BY DEF CollectionInv, CollectionTypeOK, OperatorTyped
<1>2. \A a \in operator.todo : Free(a)
  BY DEF Protocol, RemovedIsFree
<1>3. \A a \in operator'.todo : Free(a)'
  BY <1>1, <1>2, FreeStays
<1>. QED
  BY <1>3 DEF Protocol, ReviewIsSettled, ApplyingSeesReferences, RemovedIsFree,
     IdleAppliesNothing

\* Every action of the careful operator.
LEMMA CarefulOperatorKeeps ==
    ASSUME CollectionInv, BuiltIsThere, Protocol, RunsAdvance, DirectoryShape,
           ReviewsBetweenRuns \/ OperatorApplies
    PROVE  Protocol'
<1>1. OperatorTyped
  BY DEF CollectionInv, CollectionTypeOK, OperatorTyped
<1>2. CASE operator' = IdleOperator
  BY <1>2, ForgettingKeeps DEF IdleOperator
<1>3. CASE StartsReview
  <2>1. operator'.at = "inventorying" /\ ~operator'.applying
    BY <1>1, <1>3 DEF StartsReview, OperatorTyped, Protocol, IdleAppliesNothing
  <2>. QED  BY <2>1, ForgettingKeeps
<1>4. CASE RechecksCandidate \/ BeginsRemoval
  <2>1. CASE operator' # IdleOperator
    <3>1. operator.at \in {"rechecking", "removing"}
      BY <1>4 DEF RechecksCandidate, BeginsRemoval
    <3>2. \/ \E a : operator' = [operator EXCEPT !.at = "removing", !.candidate = a]
          \/ operator' = [operator EXCEPT !.at = "unlinking"]
      BY <1>4, <2>1 DEF RechecksCandidate, BeginsRemoval
    <3>3. operator'.at \in {"removing", "unlinking"} /\ operator'.todo = operator.todo
      BY <1>1, <3>2 DEF OperatorTyped
    <3>. QED  BY <3>1, <3>3, RemovingKeeps
  <2>. QED  BY <1>2, <2>1
<1>5. CASE EndsRemoval
  <2>1. CASE operator' # IdleOperator
    <3> DEFINE left == operator.todo \ {operator.candidate}
    <3>1. operator' = [operator EXCEPT !.at = "rechecking", !.todo = left]
      BY <1>5, <2>1 DEF EndsRemoval
    <3>2. left \subseteq operator.todo
      OBVIOUS
    <3> HIDE DEF left
    <3>3. operator.at = "unlinking" /\ operator'.at = "rechecking" /\ operator'.todo = left
      BY <1>1, <1>5, <3>1 DEF EndsRemoval, OperatorTyped
    <3>. QED  BY <3>2, <3>3, RemovingKeeps
  <2>. QED  BY <1>2, <2>1
<1>. QED
  BY <1>2, <1>3, <1>4, <1>5, ReviewKeeps, ApplyingKeeps, RebuildingKeeps
  DEF ReviewsBetweenRuns, OperatorApplies, FinishesApplying

\* A careful step is a step.
LEMMA CarefulIsCollection ==
    ASSUME [CarefulNext]_collectionVars
    PROVE  [CollectionNext]_collectionVars
  BY DEF CarefulNext, CollectionNext, ReviewsBetweenRuns, OperatorMoves

\* CarefulInv is inductive.
LEMMA CarefulInvStep ==
    ASSUME CarefulInv, [CarefulNext]_collectionVars
    PROVE  CarefulInv'
<1>1. CollectionInv' /\ RunsAdvance /\ DirectoryShape
  BY CarefulIsCollection, CollectionInvStep DEF CarefulInv
<1>2. /\ StoreInv /\ CollectionTypeOK /\ RemovesChosen /\ RemovedIsFree /\ BuiltIsThere
      /\ CompletedIsKept /\ CollectionInv /\ Protocol
  BY DEF CarefulInv, CollectionInv, Protocol
<1>3. BuiltIsThere' /\ CompletedIsKept'
  BY <1>1, <1>2, BuiltStays, CompletedKept
<1>4. Protocol'
  <2>1. CASE ReviewsBetweenRuns \/ OperatorApplies
    BY <1>1, <1>2, <2>1, CarefulOperatorKeeps
  <2>2. CASE RunsMove \/ RequestsMove \/ DirectoryMoves \/ UNCHANGED collectionVars
    <3>1. UNCHANGED operator
      BY <2>2 DEF RunsMove, Claims, CompletesRun, FailsRun, PublishesForRun, RequestsMove,
         HandlerStep, AsksForRun, AsksForArtifact, Acquires, Checks, Quarantines,
         DirectoryMoves, PublishesUpload, Decays, directoryVars, collectionVars
    <3>. QED  BY <1>1, <1>2, <3>1, ProtocolStays
  <2>. QED  BY <2>1, <2>2 DEF CarefulNext
<1>. QED  BY <1>1, <1>3, <1>4 DEF CarefulInv, Protocol

\* Nothing is built, reviewed or removed at first.
LEMMA CarefulInvInit ==
    ASSUME CollectionInit
    PROVE  CarefulInv
<1>1. CollectionInv
  BY CollectionInvInit
<1>2. \A r \in Runs : rows[r].status = "absent" /\ built[r] = NoArtifact
  BY DEF CollectionInit, StoreInit, AbsentRow, RowOf
<1>3. BuiltIsThere /\ CompletedIsKept
  BY <1>2 DEF BuiltIsThere, CompletedIsKept, Having
<1>4. /\ ReviewIsSettled /\ ApplyingSeesReferences /\ RemovedIsFree
      /\ IdleAppliesNothing
  BY DEF CollectionInit, IdleOperator, ReviewIsSettled, ApplyingSeesReferences,
     RemovedIsFree, IdleAppliesNothing
<1>. QED  BY <1>1, <1>3, <1>4 DEF CarefulInv

\* The invariant holds of the careful operator.
THEOREM CarefulInvariant == CarefulSpec => []CarefulInv
<1>1. CollectionInit => CarefulInv
  BY CarefulInvInit
<1>2. CarefulInv /\ [CarefulNext]_collectionVars => CarefulInv'
  BY CarefulInvStep
<1>. QED  BY <1>1, <1>2, PTL DEF CarefulSpec

\* A plan reviewed between runs never takes the artifact of a completed run, even of
\* one that completes while the plan is applied, for any policy and any number of
\* runs, artifacts and requests.
THEOREM CompletedIsAlwaysKept == CarefulSpec => []CompletedIsKept
  BY CarefulInvariant, PTL DEF CarefulInv

\* Artifacts of another schema version are preserved under the careful operator too.
THEOREM CarefulPreservesIncompatible == CarefulSpec => []PreservesIncompatible
  BY CarefulInvariant, PTL DEF CarefulInv, CollectionInv

\* RemovalSparesReferenced, which any operator may break, holds of the careful one.
THEOREM CarefulSparesReferenced == CarefulSpec => RemovalSparesReferenced
<1>1. CarefulInv /\ [CarefulNext]_collectionVars
        => [\A a \in Artifacts : disk[a] = "valid" /\ disk'[a] = "partial"
                => a \notin ReferencedArtifacts]_collectionVars
  <2> SUFFICES ASSUME CarefulInv, [CarefulNext]_collectionVars, NEW a \in Artifacts,
                      disk[a] = "valid", disk'[a] = "partial"
               PROVE  a \notin ReferencedArtifacts
    OBVIOUS
  <2>1. DirectoryShape
    BY CarefulIsCollection, CollectionInvStep DEF CarefulInv
  <2>2. Free(a)
    BY <2>1, RemovalTakesFree DEF CarefulInv, CollectionInv
  <2>. QED  BY <2>2 DEF Free, ReferencedArtifacts
<1>. QED  BY <1>1, CarefulInvariant, PTL DEF CarefulSpec, RemovalSparesReferenced

-----------------------------------------------------------------------------
(* The sizes of artifacts, added up.                                       *)

Some(s) == CHOOSE x \in s : TRUE

\* What the sum over the subsets of a set is.
AddsUp(f, items) ==
    f = [s \in SUBSET items |-> IF s = {} THEN 0 ELSE Some(s).size + f[s \ {Some(s)}]]

\* Without one of its elements a finite set is smaller.
LEMMA OneLess ==
    ASSUME NEW s, IsFiniteSet(s), NEW x \in s
    PROVE  /\ IsFiniteSet(s \ {x}) /\ Cardinality(s) \in Nat \ {0}
           /\ Cardinality(s \ {x}) = Cardinality(s) - 1
           /\ Cardinality(s \ {x}) \in Nat
<1>1. IsFiniteSet(s \ {x}) /\ Cardinality(s \ {x}) = Cardinality(s) - 1
  BY FS_RemoveElement
<1>2. Cardinality(s) \in Nat /\ Cardinality(s \ {x}) \in Nat
  BY <1>1, FS_CardinalityType
<1>. QED BY <1>1, <1>2

LEMMA SomeIsOne == ASSUME NEW s, s # {} PROVE Some(s) \in s
  BY DEF Some

\* The sums are there, and the walk of MapThenSumSet computes one.
LEMMA SumsExist ==
    ASSUME NEW items, IsFiniteSet(items), \A x \in items : x.size \in Nat
    PROVE  \E f \in [SUBSET items -> Nat] : AddsUp(f, items)
<1>. DEFINE Small(n) == {s \in SUBSET items : Cardinality(s) <= n}
            Next(f, s) == IF s = {} THEN 0 ELSE Some(s).size + f[s \ {Some(s)}]
            Adds(f, n) == \A s \in Small(n) : f[s] = Next(f, s)
            P == {n \in Nat : \E f \in [Small(n) -> Nat] : Adds(f, n)}
<1>1. \A s \in SUBSET items : IsFiniteSet(s) /\ Cardinality(s) \in Nat
                              /\ Cardinality(s) <= Cardinality(items)
  BY FS_Subset, FS_CardinalityType
<1>2. Cardinality(items) \in Nat
  BY FS_CardinalityType
<1>3. ASSUME NEW s \in SUBSET items, s # {}
      PROVE  /\ Some(s) \in items /\ s \ {Some(s)} \in SUBSET items
             /\ Cardinality(s \ {Some(s)}) = Cardinality(s) - 1
             /\ Cardinality(s) \in Nat \ {0}
  <2>1. Some(s) \in s /\ IsFiniteSet(s)
    BY <1>1, <1>3, SomeIsOne
  <2>. QED BY <2>1, OneLess
<1>4. 0 \in P
  <2>1. \A s \in Small(0) : s = {}
    BY <1>1, FS_EmptySet
  <2>. DEFINE f == [s \in Small(0) |-> 0]
  <2>2. f \in [Small(0) -> Nat] /\ Adds(f, 0)
    BY <2>1
  <2>. QED BY <2>2
<1>5. ASSUME NEW n \in Nat, n \in P PROVE n + 1 \in P
  <2>1. PICK f \in [Small(n) -> Nat] : Adds(f, n)
    BY <1>5
  <2>. DEFINE g == [s \in Small(n + 1) |-> Next(f, s)]
  <2>2. ASSUME NEW s \in Small(n + 1), s # {}
        PROVE  s \ {Some(s)} \in Small(n) /\ s \ {Some(s)} \in Small(n + 1)
    BY <1>1, <1>3, <2>2
  <2>3. ASSUME NEW s \in Small(n + 1) PROVE Next(f, s) \in Nat
    <3>1. CASE s = {}
      BY <3>1
    <3>2. CASE s # {}
      <4>1. f[s \ {Some(s)}] \in Nat /\ Some(s).size \in Nat
        BY <1>3, <2>1, <2>2, <3>2
      <4>. HIDE DEF Small
      <4>. QED BY <3>2, <4>1
    <3>. QED BY <3>1, <3>2
  <2>. HIDE DEF Next
  <2>4. g \in [Small(n + 1) -> Nat]
    BY <2>3
  <2>5. \A s \in Small(n) : s \in Small(n + 1) /\ g[s] = f[s]
    <3>. TAKE s \in Small(n)
    <3>1. s \in Small(n + 1)
      BY <1>1
    <3>2. g[s] = Next(f, s)
      BY <3>1
    <3>. QED BY <2>1, <3>1, <3>2
  <2>6. \A s \in Small(n + 1) : g[s] = Next(g, s)
    <3>. TAKE s \in Small(n + 1)
    <3>1. g[s] = Next(f, s)
      OBVIOUS
    <3>. HIDE DEF g
    <3>2. CASE s = {}
      BY <3>1, <3>2 DEF Next
    <3>3. CASE s # {}
      <4>1. g[s \ {Some(s)}] = f[s \ {Some(s)}]
        BY <2>2, <2>5, <3>3
      <4>. QED BY <3>1, <3>3, <4>1 DEF Next
    <3>. QED BY <3>2, <3>3
  <2>. HIDE DEF g, Small
  <2>. QED BY <2>4, <2>6
<1>6. \A n \in Nat : n \in P
  <2>. HIDE DEF P
  <2>. QED BY <1>4, <1>5, NatSetInduction
<1>7. PICK f \in [Small(Cardinality(items)) -> Nat] : Adds(f, Cardinality(items))
  BY <1>2, <1>6
<1>8. Small(Cardinality(items)) = SUBSET items
  BY <1>1
<1>9. f \in [SUBSET items -> Nat] /\ \A s \in SUBSET items : f[s] = Next(f, s)
  BY <1>7, <1>8
<1>10. AddsUp(f, items)
  <2>. HIDE DEF Small
  <2>. QED BY <1>9 DEF AddsUp
<1>. QED BY <1>9, <1>10

\* The sums of a set and of a larger one agree.
LEMMA SumsAgree ==
    ASSUME NEW items, IsFiniteSet(items), NEW few \in SUBSET items,
           NEW f, AddsUp(f, items), NEW g, AddsUp(g, few)
    PROVE  \A s \in SUBSET few : f[s] = g[s]
<1>. DEFINE P == {n \in Nat : \A s \in SUBSET few : Cardinality(s) = n => f[s] = g[s]}
<1>1. \A s \in SUBSET items : f[s] = IF s = {} THEN 0 ELSE Some(s).size + f[s \ {Some(s)}]
  BY DEF AddsUp
<1>2. \A s \in SUBSET few : g[s] = IF s = {} THEN 0 ELSE Some(s).size + g[s \ {Some(s)}]
  BY DEF AddsUp
<1>3. \A s \in SUBSET few : s \in SUBSET items /\ IsFiniteSet(s) /\ Cardinality(s) \in Nat
  BY FS_Subset, FS_CardinalityType
<1>4. 0 \in P
  <2>. SUFFICES ASSUME NEW s \in SUBSET few, Cardinality(s) = 0 PROVE f[s] = g[s]
    OBVIOUS
  <2>1. s = {}
    BY <1>3, FS_EmptySet
  <2>. QED BY <1>1, <1>2, <1>3, <2>1
<1>5. ASSUME NEW n \in Nat, n \in P PROVE n + 1 \in P
  <2>. SUFFICES ASSUME NEW s \in SUBSET few, Cardinality(s) = n + 1 PROVE f[s] = g[s]
    OBVIOUS
  <2>1. s # {}
    BY FS_EmptySet
  <2>2. Some(s) \in s
    BY <2>1, SomeIsOne
  <2>. DEFINE r == s \ {Some(s)}
  <2>3. r \in SUBSET few /\ Cardinality(r) = n
    BY <1>3, <2>2, OneLess
  <2>4. f[r] = g[r]
    BY <1>5, <2>3
  <2>5. f[s] = Some(s).size + f[r] /\ g[s] = Some(s).size + g[r]
    BY <1>1, <1>2, <1>3, <2>1
  <2>. QED BY <2>4, <2>5
<1>6. \A n \in Nat : n \in P
  <2>. HIDE DEF P
  <2>. QED BY <1>4, <1>5, NatSetInduction
<1>. QED BY <1>3, <1>6

TakesAny(f, items) ==
    \A s \in SUBSET items : \A x \in s : f[s] = x.size + f[s \ {x}]

\* The sum does not depend on the order: any element may be taken first.
LEMMA AnyFirst ==
    ASSUME NEW items, IsFiniteSet(items), \A x \in items : x.size \in Nat,
           NEW f \in [SUBSET items -> Nat], AddsUp(f, items)
    PROVE  TakesAny(f, items)
<1>. DEFINE P == {n \in Nat : \A s \in SUBSET items : Cardinality(s) = n =>
                                 \A x \in s : f[s] = x.size + f[s \ {x}]}
<1>1. \A s \in SUBSET items : f[s] = IF s = {} THEN 0 ELSE Some(s).size + f[s \ {Some(s)}]
  BY DEF AddsUp
<1>2. \A s \in SUBSET items : IsFiniteSet(s) /\ Cardinality(s) \in Nat
  BY FS_Subset, FS_CardinalityType
<1>3. 0 \in P
  BY <1>2, FS_EmptySet
<1>4. ASSUME NEW n \in Nat, n \in P PROVE n + 1 \in P
  <2>. SUFFICES ASSUME NEW s \in SUBSET items, Cardinality(s) = n + 1, NEW x \in s
                PROVE  f[s] = x.size + f[s \ {x}]
    OBVIOUS
  <2>. DEFINE y == Some(s)
  <2>1. y \in s
    BY SomeIsOne
  <2>2. f[s] = y.size + f[s \ {y}]
    BY <1>1
  <2>. HIDE DEF y
  <2>3. CASE x = y
    BY <2>2, <2>3
  <2>4. CASE x # y
    <3>1. s \ {y} \in SUBSET items /\ Cardinality(s \ {y}) = n /\ x \in s \ {y}
      BY <1>2, <2>1, <2>4, OneLess
    <3>2. s \ {x} \in SUBSET items /\ Cardinality(s \ {x}) = n /\ y \in s \ {x}
      BY <1>2, <2>1, <2>4, OneLess
    <3>3. f[s \ {y}] = x.size + f[(s \ {y}) \ {x}]
      BY <1>4, <3>1
    <3>4. f[s \ {x}] = y.size + f[(s \ {x}) \ {y}]
      BY <1>4, <3>2
    <3>. DEFINE r == (s \ {x}) \ {y}
    <3>5. (s \ {y}) \ {x} = r /\ r \in SUBSET items
      OBVIOUS
    <3>. HIDE DEF r
    <3>6. f[r] \in Nat /\ x.size \in Nat /\ y.size \in Nat
      BY <2>1, <3>5
    <3>7. f[s \ {y}] = x.size + f[r] /\ f[s \ {x}] = y.size + f[r]
      BY <3>3, <3>4, <3>5 DEF r
    <3>. QED BY <2>2, <3>6, <3>7
  <2>. QED BY <2>3, <2>4
<1>5. \A n \in Nat : n \in P
  <2>. HIDE DEF P
  <2>. QED BY <1>3, <1>4, NatSetInduction
<1>. QED BY <1>2, <1>5 DEF TakesAny

\* The bytes of the artifacts of a set, one artifact more or less.
LEMMA BytesOfItems ==
    ASSUME NEW items, IsFiniteSet(items), \A x \in items : x.size \in Nat
    PROVE  /\ TotalBytes({}) = 0
           /\ \A s \in SUBSET items :
                 /\ TotalBytes(s) \in Nat
                 /\ \A x \in s : TotalBytes(s) = x.size + TotalBytes(s \ {x})
<1>1. PICK f \in [SUBSET items -> Nat] : AddsUp(f, items)
  BY SumsExist
<1>2. \A s \in SUBSET items : TotalBytes(s) = f[s]
  <2>. TAKE s \in SUBSET items
  <2>. DEFINE g == CHOOSE h : AddsUp(h, s)
  <2>1. IsFiniteSet(s) /\ \A x \in s : x.size \in Nat
    BY FS_Subset
  <2>2. AddsUp(g, s)
    BY <2>1, SumsExist
  <2>3. TotalBytes(s) = g[s]
    BY DEF TotalBytes, MapThenSumSet, MapThenFoldSet, AddsUp, Some
  <2>. HIDE DEF g
  <2>. QED BY <1>1, <2>2, <2>3, SumsAgree
<1>3. \A s \in SUBSET items : \A x \in s : f[s] = x.size + f[s \ {x}]
  <2>1. TakesAny(f, items)
    BY <1>1, AnyFirst
  <2>. QED BY <2>1 DEF TakesAny
<1>4. f[{}] = 0
  BY <1>1 DEF AddsUp
<1>5. ASSUME NEW s \in SUBSET items
      PROVE  /\ TotalBytes(s) \in Nat
             /\ \A x \in s : TotalBytes(s) = x.size + TotalBytes(s \ {x})
  <2>1. \A x \in s : s \ {x} \in SUBSET items
    OBVIOUS
  <2>. QED BY <1>1, <1>2, <1>3, <2>1
<1>6. TotalBytes({}) = 0
  BY <1>2, <1>4
<1>. QED BY <1>5, <1>6

\* What a part of the artifacts leaves.
LEMMA BytesOfTheRest ==
    ASSUME NEW items, IsFiniteSet(items), \A x \in items : x.size \in Nat,
           NEW part \in SUBSET items
    PROVE  TotalBytes(items \ part) = TotalBytes(items) - TotalBytes(part)
<1>. DEFINE P == {n \in Nat : \A s \in SUBSET items : Cardinality(s) = n =>
                                 TotalBytes(items \ s) + TotalBytes(s) = TotalBytes(items)}
<1>1. /\ TotalBytes({}) = 0
      /\ \A s \in SUBSET items : /\ TotalBytes(s) \in Nat
                                 /\ \A x \in s : TotalBytes(s) = x.size + TotalBytes(s \ {x})
  BY BytesOfItems
<1>2. \A s \in SUBSET items : IsFiniteSet(s) /\ Cardinality(s) \in Nat
  BY FS_Subset, FS_CardinalityType
<1>3. 0 \in P
  <2>. SUFFICES ASSUME NEW s \in SUBSET items, Cardinality(s) = 0
                PROVE  TotalBytes(items \ s) + TotalBytes(s) = TotalBytes(items)
    OBVIOUS
  <2>1. s = {} /\ items \ s = items
    BY <1>2, FS_EmptySet
  <2>. QED BY <1>1, <2>1
<1>4. ASSUME NEW n \in Nat, n \in P PROVE n + 1 \in P
  <2>. SUFFICES ASSUME NEW s \in SUBSET items, Cardinality(s) = n + 1
                PROVE  TotalBytes(items \ s) + TotalBytes(s) = TotalBytes(items)
    OBVIOUS
  <2>1. PICK x \in s : TRUE
    BY FS_EmptySet
  <2>. DEFINE r == s \ {x}
              R == items \ r
              S == items \ s
  <2>2. r \in SUBSET items /\ Cardinality(r) = n
    BY <1>2, OneLess
  <2>3. R \in SUBSET items /\ S \in SUBSET items /\ x \in R /\ R \ {x} = S
    OBVIOUS
  <2>4. TotalBytes(R) + TotalBytes(r) = TotalBytes(items)
    BY <1>4, <2>2
  <2>5. TotalBytes(R) = x.size + TotalBytes(S)
    <3>. HIDE DEF R, S
    <3>. QED BY <1>1, <2>3
  <2>6. TotalBytes(s) = x.size + TotalBytes(r)
    BY <1>1
  <2>7. TotalBytes(r) \in Nat /\ TotalBytes(S) \in Nat /\ TotalBytes(items) \in Nat /\ x.size \in Nat
    BY <1>1, <2>2, <2>3
  <2>. HIDE DEF r, R, S
  <2>8. TotalBytes(S) + TotalBytes(s) = TotalBytes(items)
    BY <2>4, <2>5, <2>6, <2>7
  <2>. QED BY <2>8 DEF S
<1>5. \A n \in Nat : n \in P
  <2>. HIDE DEF P
  <2>. QED BY <1>3, <1>4, NatSetInduction
<1>6. TotalBytes(items \ part) + TotalBytes(part) = TotalBytes(items)
  BY <1>2, <1>5
<1>7. /\ TotalBytes(items \ part) \in Nat /\ TotalBytes(part) \in Nat /\ TotalBytes(items) \in Nat
  BY <1>1
<1>. QED BY <1>6, <1>7

-----------------------------------------------------------------------------
(* Artifacts from the oldest to the newest.                                *)

ByAge(part) == {pair \in part \X part : Older(pair[1], pair[2])}

InOrder(order, part) ==
    /\ order \in Seq(part) /\ Len(order) \in Nat /\ DOMAIN order = 1 .. Len(order)
    /\ ToSet(order) = part /\ IsInjective(order)
    /\ \A i, j \in DOMAIN order : i < j <=> Older(order[i], order[j])

LEMMA AgeIsOrder ==
    ASSUME NEW inventory, IsInventory(inventory), NEW part \in SUBSET inventory
    PROVE  IsOrder(ByAge(part), part)
<1>1. \A x \in part : x.created \in Int /\ x.id \in Int
  BY DEF IsInventory
<1>2. \A x, y \in part : x.id = y.id => x = y
  BY DEF IsInventory
<1>3. \A x, y \in part : <<x, y>> \in ByAge(part) <=> Older(x, y)
  BY DEF ByAge
<1>4. \A x \in part : ~Older(x, x)
  BY <1>1 DEF Older
<1>5. \A x, y, z \in part : Older(x, y) /\ Older(y, z) => Older(x, z)
  BY <1>1 DEF Older
<1>6. \A x, y \in part : x = y \/ Older(x, y) \/ Older(y, x)
  BY <1>1, <1>2 DEF Older
<1>. QED BY <1>3, <1>4, <1>5, <1>6 DEF IsOrder

LEMMA SortedByAge ==
    ASSUME NEW inventory, IsInventory(inventory), NEW part \in SUBSET inventory
    PROVE  InOrder(Sorted(part, Older), part)
<1>. DEFINE s == Sorted(part, Older)
            L == ByAge(part)
<1>1. IsOrder(L, part)
  BY AgeIsOrder
<1>2. IsFiniteSet(part)
  BY FS_Subset DEF IsInventory
<1>3. s = [k \in 1 .. Cardinality(part) |->
             CHOOSE x \in part : Cardinality({y \in part : Older(y, x)}) = k - 1]
  BY DEF Sorted
<1>4. \A x, y \in part : <<x, y>> \in L <=> Older(x, y)
  BY DEF ByAge
<1>5. \A x \in part : Rank(L, part, x) = Cardinality({y \in part : Older(y, x)})
  <2>. TAKE x \in part
  <2>1. {y \in part : <<y, x>> \in L} = {y \in part : Older(y, x)}
    BY <1>4
  <2>. QED BY <2>1 DEF Rank
<1>. HIDE DEF L
<1>6. \A k \in 1 .. Cardinality(part) : s[k] \in part /\ Rank(L, part, s[k]) = k - 1
  <2>. TAKE k \in 1 .. Cardinality(part)
  <2>1. \E x \in part : Cardinality({y \in part : Older(y, x)}) = k - 1
    <3>1. PICK x \in part : Rank(L, part, x) = k - 1
      BY <1>1, <1>2, RanksOfOrder
    <3>. QED BY <1>5, <3>1
  <2>2. s[k] = CHOOSE x \in part : Cardinality({y \in part : Older(y, x)}) = k - 1
    BY <1>3
  <2>. HIDE DEF s
  <2>3. s[k] \in part /\ Cardinality({y \in part : Older(y, s[k])}) = k - 1
    BY <2>1, <2>2, Zenon
  <2>. QED BY <1>5, <2>3
<1>7. s = [k \in 1 .. Cardinality(part) |-> s[k]]
  BY <1>3
<1>. HIDE DEF s
<1>8. IsSorting(s, L, part)
  BY <1>1, <1>2, <1>6, <1>7, SortedByRank
<1>9. InOrder(s, part)
  BY <1>4, <1>8 DEF IsSorting, InOrder
<1>. QED BY <1>9 DEF s

-----------------------------------------------------------------------------
(* The walk.                                                               *)

\* The aged artifacts and the first of the others.
Oldest(aged, order, m) == aged \cup {order[i] : i \in 1 .. m}

\* The walk is the last of a sequence of turns.
Turns(totals, inventory, aged, order, policy) ==
    /\ totals[0] = TotalsAfterAge(inventory, aged)
    /\ \A k \in 1 .. Len(order) : totals[k] = Visit(totals[k - 1], order[k], policy)

Totals(inventory) ==
    [reasons : [Eligible(inventory) -> SUBSET {"age", "count", "bytes"}],
     count : Int, bytes : Int]

LEMMA VisitIsTyped ==
    ASSUME NEW inventory, NEW totals \in Totals(inventory), NEW item \in Eligible(inventory),
           item.size \in Nat, NEW policy
    PROVE  Visit(totals, item, policy) \in Totals(inventory)
<1>1. /\ totals.reasons \in [Eligible(inventory) -> SUBSET {"age", "count", "bytes"}]
      /\ totals.count \in Int /\ totals.bytes \in Int
  BY DEF Totals
<1>2. Reasons(totals, policy) \in SUBSET {"age", "count", "bytes"}
  BY DEF Reasons
<1>3. [totals.reasons EXCEPT ![item] = Reasons(totals, policy)]
         \in [Eligible(inventory) -> SUBSET {"age", "count", "bytes"}]
  BY <1>1, <1>2
<1>4. totals.count - 1 \in Int /\ totals.bytes - item.size \in Int
  BY <1>1
<1>. QED BY <1>3, <1>4 DEF Visit, Totals

LEMMA WalkTakesTurns ==
    ASSUME NEW inventory, IsInventory(inventory), NEW policy, NEW clock
    PROVE  LET aged == Aged(inventory, policy, clock)
               order == Sorted(Eligible(inventory) \ aged, Older)
           IN  \E totals : /\ Turns(totals, inventory, aged, order, policy)
                           /\ Walk(inventory, policy, clock) = totals[Len(order)]
<1>. DEFINE E == Eligible(inventory)
            aged == Aged(inventory, policy, clock)
            order == Sorted(E \ aged, Older)
            n == Len(order)
            start == TotalsAfterAge(inventory, aged)
            V == Totals(inventory)
            step == [v \in V \X Nat |-> IF v[2] - 1 \in 1 .. n
                                        THEN Visit(v[1], order[v[2] - 1], policy) ELSE v[1]]
            Walks(f) == f = [k \in 0 .. n |-> IF k = 0 THEN start
                                              ELSE Visit(f[k - 1], order[k], policy)]
<1>1. E \in SUBSET inventory /\ aged \in SUBSET E /\ E \ aged \in SUBSET inventory
  BY DEF Eligible, Aged
<1>2. InOrder(order, E \ aged)
  BY <1>1, SortedByAge
<1>3. n \in Nat /\ \A i \in 1 .. n : order[i] \in E /\ order[i].size \in Nat
  <2>. DEFINE part == E \ aged
  <2>4. InOrder(order, part)
    BY <1>2
  <2>. HIDE DEF order, part
  <2>5. n \in Nat /\ \A i \in 1 .. n : order[i] \in part
    BY <2>4 DEF InOrder
  <2>1. n \in Nat /\ \A i \in 1 .. n : order[i] \in E \ aged
    BY <2>5 DEF part
  <2>. HIDE DEF n
  <2>2. \A i \in 1 .. n : order[i] \in E /\ order[i] \in inventory
    BY <1>1, <2>1
  <2>3. \A x \in inventory : x.size \in Nat
    BY DEF IsInventory
  <2>. QED BY <2>1, <2>2, <2>3
<1>4. start \in V
  <2>1. IsFiniteSet(inventory) /\ IsFiniteSet(aged)
    BY <1>1, FS_Subset DEF IsInventory
  <2>2. Cardinality(inventory) - Cardinality(aged) \in Int
    BY <2>1, FS_CardinalityType
  <2>3. TotalBytes(inventory) - TotalBytes(aged) \in Int
    <3>1. \A x \in inventory : x.size \in Nat
      BY DEF IsInventory
    <3>2. TotalBytes(inventory) \in Nat /\ TotalBytes(aged) \in Nat
      BY <1>1, <2>1, <3>1, BytesOfItems
    <3>. QED BY <3>2
  <2>4. [item \in E |-> IF item \in aged THEN {"age"} ELSE {}]
           \in [E -> SUBSET {"age", "count", "bytes"}]
    OBVIOUS
  <2>. QED BY <2>2, <2>3, <2>4 DEF TotalsAfterAge, Totals
<1>. HIDE DEF E, aged, order, n, start, V
<1>5. step \in [V \X Nat -> V]
  <2>1. ASSUME NEW v \in V \X Nat, v[2] - 1 \in 1 .. n
        PROVE  Visit(v[1], order[v[2] - 1], policy) \in V
    <3>1. v[1] \in Totals(inventory)
      BY DEF V
    <3>. DEFINE i == v[2] - 1
    <3>. HIDE DEF i
    <3>2. order[i] \in Eligible(inventory) /\ order[i].size \in Nat
      BY <1>3, <2>1 DEF E, i
    <3>3. Visit(v[1], order[i], policy) \in Totals(inventory)
      BY <3>1, <3>2, VisitIsTyped
    <3>. QED BY <3>3 DEF V, i
  <2>. QED BY <2>1
<1>6. n + 1 \in Nat
  BY <1>3
<1>7. PICK f \in [1 .. (n + 1) -> V] : GoesBySteps(f, n + 1, start, step)
  <2>. HIDE DEF step
  <2>. QED BY <1>4, <1>5, <1>6, StepsExist
<1>8. \A i \in 1 .. (n + 1) :
         f[i] = IF i = 1 THEN start ELSE Visit(f[i - 1], order[i - 1], policy)
  <2>. TAKE i \in 1 .. (n + 1)
  <2>1. CASE i = 1
    BY <1>7, <2>1 DEF GoesBySteps
  <2>2. CASE i # 1
    <3>1. i - 1 \in 1 .. n /\ i - 1 \in 1 .. (n + 1) /\ i \in Nat
      BY <1>3, <2>2
    <3>2. f[i - 1] \in V
      BY <1>7, <3>1
    <3>3. step[<<f[i - 1], i>>] = Visit(f[i - 1], order[i - 1], policy)
      BY <3>1, <3>2
    <3>4. f[i] = step[<<f[i - 1], i>>]
      BY <1>7, <2>2 DEF GoesBySteps
    <3>. QED BY <2>2, <3>3, <3>4
  <2>. QED BY <2>1, <2>2
<1>. HIDE DEF step
<1>. DEFINE g == [k \in 0 .. n |-> f[k + 1]]
<1>9. Walks(g)
  <2>1. ASSUME NEW k \in 0 .. n
        PROVE  g[k] = IF k = 0 THEN start ELSE Visit(g[k - 1], order[k], policy)
    <3>. DEFINE i == k + 1
    <3>1. i \in 1 .. (n + 1) /\ i - 1 = k /\ (i = 1 <=> k = 0)
      BY <1>3
    <3>. HIDE DEF i
    <3>2. g[k] = f[i]
      BY DEF i
    <3>3. k # 0 => g[k - 1] = f[i - 1]
      <4>1. k # 0 => k - 1 \in 0 .. n /\ (k - 1) + 1 = i - 1
        BY <1>3, <3>1
      <4>. QED BY <4>1
    <3>. HIDE DEF g
    <3>. QED BY <1>8, <3>1, <3>2, <3>3
  <2>. QED BY <2>1
<1>10. Walk(inventory, policy, clock) = (CHOOSE h : Walks(h))[n]
  BY DEF Walk, n, order, aged, E, start
<1>. DEFINE totals == CHOOSE h : Walks(h)
<1>11. Walks(totals)
  <2>. HIDE DEF Walks, g
  <2>. QED BY <1>9
<1>12. Walk(inventory, policy, clock) = totals[n]
  BY <1>10
<1>. HIDE DEF totals
<1>13. Turns(totals, inventory, aged, order, policy)
  <2>1. totals[0] = start
    BY <1>3, <1>11
  <2>2. \A k \in 1 .. n : totals[k] = Visit(totals[k - 1], order[k], policy)
    BY <1>3, <1>11
  <2>. QED BY <2>1, <2>2 DEF Turns, start, n
<1>. QED BY <1>12, <1>13 DEF n, order, aged, E

\* What holds after k turns: the artifacts chosen are the aged ones and the oldest
\* others, and no fewer would have met the limits.
AfterTurns(totals, inventory, aged, order, policy, k, m) ==
    LET chosen == Oldest(aged, order, m)
    IN  /\ totals.reasons \in [Eligible(inventory) -> SUBSET {"age", "count", "bytes"}]
        /\ \A item \in Eligible(inventory) : totals.reasons[item] # {} <=> item \in chosen
        /\ totals.count = Cardinality(inventory \ chosen)
        /\ totals.bytes = TotalBytes(inventory \ chosen)
        /\ m = k \/ WithinLimits(inventory \ chosen, policy)
        /\ \A j \in 0 .. (m - 1) : ~WithinLimits(inventory \ Oldest(aged, order, j), policy)

\* The totals give no reason exactly when what is left is within the limits.
LEMMA NoReason ==
    ASSUME NEW totals, NEW items, NEW policy,
           totals.count = Cardinality(items), totals.bytes = TotalBytes(items)
    PROVE  Reasons(totals, policy) = {} <=> WithinLimits(items, policy)
<1>1. "count" \in Reasons(totals, policy) <=> Exceeds(totals.count, policy.maxArtifacts)
  BY DEF Reasons
<1>2. "bytes" \in Reasons(totals, policy) <=> Exceeds(totals.bytes, policy.maxBytes)
  BY DEF Reasons
<1>3. Reasons(totals, policy) \subseteq {"count", "bytes"}
  BY DEF Reasons
<1>4. Reasons(totals, policy) = {} <=> /\ "count" \notin Reasons(totals, policy)
                                       /\ "bytes" \notin Reasons(totals, policy)
  BY <1>3
<1>. QED BY <1>1, <1>2, <1>4 DEF WithinLimits

\* One more of the oldest.
LEMMA OneOlder ==
    ASSUME NEW aged, NEW part, NEW order, InOrder(order, part), part \cap aged = {},
           NEW m \in Nat, m + 1 \in 1 .. Len(order)
    PROVE  /\ order[m + 1] \in part /\ order[m + 1] \notin Oldest(aged, order, m)
           /\ Oldest(aged, order, m + 1) = Oldest(aged, order, m) \cup {order[m + 1]}
<1>. DEFINE i == m + 1
<1>1. i \in DOMAIN order /\ DOMAIN order = 1 .. Len(order) /\ Len(order) \in Nat
  BY DEF InOrder
<1>2. order[i] \in part
  BY <1>1 DEF InOrder
<1>3. 1 .. i = (1 .. m) \cup {i} /\ i \notin 1 .. m /\ 1 .. m \subseteq DOMAIN order
  BY <1>1
<1>. HIDE DEF i
<1>4. \A j \in 1 .. m : order[j] # order[i]
  BY <1>1, <1>3 DEF InOrder, IsInjective
<1>5. order[i] \notin Oldest(aged, order, m)
  BY <1>2, <1>4 DEF Oldest
<1>6. Oldest(aged, order, i) = Oldest(aged, order, m) \cup {order[i]}
  BY <1>3 DEF Oldest
<1>. QED BY <1>2, <1>5, <1>6 DEF i

LEMMA TurnKeeps ==
    ASSUME NEW inventory, IsInventory(inventory), NEW policy,
           NEW aged \in SUBSET Eligible(inventory), NEW order,
           InOrder(order, Eligible(inventory) \ aged), NEW totals,
           NEW k \in Nat, k + 1 \in 1 .. Len(order), NEW m \in 0 .. k,
           AfterTurns(totals, inventory, aged, order, policy, k, m)
    PROVE  \E h \in 0 .. (k + 1) :
             AfterTurns(Visit(totals, order[k + 1], policy), inventory, aged, order, policy, k + 1, h)
<1>. DEFINE E == Eligible(inventory)
            chosen == Oldest(aged, order, m)
            left == inventory \ chosen
            next == Visit(totals, order[k + 1], policy)
            After(t, l, h) == AfterTurns(t, inventory, aged, order, policy, l, h)
<1>1. /\ totals.reasons \in [E -> SUBSET {"age", "count", "bytes"}]
      /\ \A item \in E : totals.reasons[item] # {} <=> item \in chosen
      /\ totals.count = Cardinality(left) /\ totals.bytes = TotalBytes(left)
      /\ m = k \/ WithinLimits(left, policy)
      /\ \A j \in 0 .. (m - 1) : ~WithinLimits(inventory \ Oldest(aged, order, j), policy)
  BY DEF AfterTurns
<1>2. Reasons(totals, policy) = {} <=> WithinLimits(left, policy)
  <2>. HIDE DEF left
  <2>. QED BY <1>1, NoReason
<1>3. k + 1 \in Nat /\ m \in Nat /\ k + 1 \in 0 .. (k + 1) /\ m \in 0 .. (k + 1)
  OBVIOUS
<1>4. CASE Reasons(totals, policy) = {}
  <2>1. next = totals
    BY <1>4 DEF Visit
  <2>2. After(totals, k + 1, m)
    BY <1>1, <1>2, <1>4 DEF AfterTurns
  <2>. QED BY <1>3, <2>1, <2>2
<1>5. CASE Reasons(totals, policy) # {}
  <2>1. m = k /\ ~WithinLimits(left, policy)
    BY <1>1, <1>2, <1>5
  <2>. DEFINE item == order[k + 1]
              more == Oldest(aged, order, k + 1)
              rest == inventory \ more
  <2>2. /\ item \in E \ aged /\ item \notin chosen /\ more = chosen \cup {item}
    <3>1. (E \ aged) \cap aged = {}
      OBVIOUS
    <3>2. /\ item \in E \ aged /\ item \notin Oldest(aged, order, k)
          /\ more = Oldest(aged, order, k) \cup {item}
      <4>. DEFINE part == E \ aged
      <4>1. InOrder(order, part) /\ part \cap aged = {}
        OBVIOUS
      <4>. HIDE DEF part, E
      <4>2. /\ item \in part /\ item \notin Oldest(aged, order, k)
            /\ more = Oldest(aged, order, k) \cup {item}
        BY <4>1, OneOlder
      <4>. QED BY <4>2 DEF part
    <3>. QED BY <2>1, <3>2
  <2>3. item \in left /\ rest = left \ {item} /\ left \in SUBSET inventory
    <3>1. item \in inventory
      BY <2>2 DEF Eligible
    <3>. HIDE DEF item, more, chosen
    <3>. QED BY <2>2, <3>1
  <2>4. /\ next.reasons = [totals.reasons EXCEPT ![item] = Reasons(totals, policy)]
        /\ next.count = totals.count - 1 /\ next.bytes = totals.bytes - item.size
    BY <1>5 DEF Visit
  <2>. HIDE DEF item, more, left, rest, chosen, next
  <2>5. next.count = Cardinality(rest)
    <3>1. IsFiniteSet(left)
      BY <2>3, FS_Subset DEF IsInventory
    <3>. QED BY <1>1, <2>3, <2>4, <3>1, OneLess
  <2>6. next.bytes = TotalBytes(rest)
    <3>1. IsFiniteSet(inventory) /\ \A x \in inventory : x.size \in Nat
      BY DEF IsInventory
    <3>2. /\ TotalBytes(left) = item.size + TotalBytes(left \ {item})
          /\ TotalBytes(left \ {item}) \in Nat /\ item.size \in Nat
      <4>1. left \ {item} \in SUBSET inventory /\ item \in inventory
        BY <2>3
      <4>. QED BY <2>3, <3>1, <4>1, BytesOfItems
    <3>. QED BY <1>1, <2>3, <2>4, <3>2
  <2>7. Reasons(totals, policy) \in SUBSET {"age", "count", "bytes"}
    BY DEF Reasons
  <2>8. /\ next.reasons \in [E -> SUBSET {"age", "count", "bytes"}]
        /\ \A x \in E : next.reasons[x] # {} <=> x \in more
    <3>1. item \in E
      BY <2>2
    <3>2. next.reasons \in [E -> SUBSET {"age", "count", "bytes"}]
      BY <1>1, <2>4, <2>7, <3>1
    <3>3. \A x \in E : next.reasons[x] = IF x = item THEN Reasons(totals, policy)
                                         ELSE totals.reasons[x]
      BY <1>1, <2>4, <3>1
    <3>4. \A x \in E : next.reasons[x] # {} <=> x \in more
      BY <1>1, <1>5, <2>2, <3>3
    <3>. QED BY <3>2, <3>4
  <2>9. \A j \in 0 .. ((k + 1) - 1) : ~WithinLimits(inventory \ Oldest(aged, order, j), policy)
    <3>. TAKE j \in 0 .. ((k + 1) - 1)
    <3>1. j \in 0 .. (m - 1) \/ j = m
      BY <2>1
    <3>. QED BY <1>1, <2>1, <3>1 DEF left, chosen
  <2>10. After(next, k + 1, k + 1)
    BY <2>5, <2>6, <2>8, <2>9 DEF AfterTurns, more, rest
  <2>. QED BY <1>3, <2>10 DEF next, item
<1>. QED BY <1>4, <1>5

\* Where the walk starts.
LEMMA NoTurnYet ==
    ASSUME NEW inventory, IsInventory(inventory), NEW policy,
           NEW aged \in SUBSET Eligible(inventory), NEW order
    PROVE  AfterTurns(TotalsAfterAge(inventory, aged), inventory, aged, order, policy, 0, 0)
<1>. DEFINE start == TotalsAfterAge(inventory, aged)
            E == Eligible(inventory)
<1>1. Oldest(aged, order, 0) = aged
  BY DEF Oldest
<1>2. aged \in SUBSET inventory /\ IsFiniteSet(inventory) /\ \A x \in inventory : x.size \in Nat
  BY DEF IsInventory, Eligible
<1>3. /\ start.reasons = [item \in E |-> IF item \in aged THEN {"age"} ELSE {}]
      /\ start.count = Cardinality(inventory) - Cardinality(aged)
      /\ start.bytes = TotalBytes(inventory) - TotalBytes(aged)
  BY DEF TotalsAfterAge
<1>. HIDE DEF start
<1>4. start.count = Cardinality(inventory \ aged)
  <2>1. inventory \cap aged = aged /\ IsFiniteSet(aged)
    BY <1>2, FS_Subset
  <2>2. Cardinality(inventory \ aged) = Cardinality(inventory) - Cardinality(inventory \cap aged)
    BY <1>2, FS_Difference
  <2>. QED BY <1>3, <2>1, <2>2
<1>5. start.bytes = TotalBytes(inventory \ aged)
  BY <1>2, <1>3, BytesOfTheRest
<1>6. /\ start.reasons \in [E -> SUBSET {"age", "count", "bytes"}]
      /\ \A item \in E : start.reasons[item] # {} <=> item \in aged
  BY <1>3
<1>7. \A j \in 0 .. (0 - 1) : FALSE
  OBVIOUS
<1>. QED BY <1>1, <1>4, <1>5, <1>6, <1>7 DEF AfterTurns, start

\* Where it ends.
LEMMA WalkEnds ==
    ASSUME NEW inventory, IsInventory(inventory), NEW policy, NEW clock
    PROVE  LET aged == Aged(inventory, policy, clock)
               order == Sorted(Eligible(inventory) \ aged, Older)
           IN  \E m \in 0 .. Len(order) :
                 AfterTurns(Walk(inventory, policy, clock), inventory, aged, order, policy,
                            Len(order), m)
<1>. DEFINE E == Eligible(inventory)
            aged == Aged(inventory, policy, clock)
            order == Sorted(E \ aged, Older)
            n == Len(order)
            After(t, k, m) == AfterTurns(t, inventory, aged, order, policy, k, m)
<1>1. aged \in SUBSET E /\ E \ aged \in SUBSET inventory
  BY DEF Eligible, Aged
<1>2. InOrder(order, E \ aged)
  BY <1>1, SortedByAge
<1>3. PICK totals : /\ Turns(totals, inventory, aged, order, policy)
                    /\ Walk(inventory, policy, clock) = totals[n]
  BY WalkTakesTurns
<1>4. n \in Nat
  BY <1>2 DEF InOrder
<1>. HIDE DEF E, aged, order, n
<1>5. /\ totals[0] = TotalsAfterAge(inventory, aged)
      /\ \A k \in 1 .. n : totals[k] = Visit(totals[k - 1], order[k], policy)
  BY <1>3 DEF Turns, n
<1>. DEFINE P == {k \in Nat : k \in 0 .. n => \E m \in 0 .. k : After(totals[k], k, m)}
<1>6. 0 \in P
  <2>1. After(totals[0], 0, 0)
    BY <1>1, <1>5, NoTurnYet DEF E
  <2>. QED BY <2>1
<1>7. ASSUME NEW k \in Nat, k \in P PROVE k + 1 \in P
  <2>. SUFFICES ASSUME k + 1 \in 0 .. n
                PROVE  \E m \in 0 .. (k + 1) : After(totals[k + 1], k + 1, m)
    OBVIOUS
  <2>1. k \in 0 .. n /\ k + 1 \in 1 .. n /\ (k + 1) - 1 = k
    BY <1>4
  <2>2. PICK m \in 0 .. k : After(totals[k], k, m)
    BY <1>7, <2>1
  <2>3. totals[k + 1] = Visit(totals[k], order[k + 1], policy)
    BY <1>5, <2>1
  <2>4. \E h \in 0 .. (k + 1) : After(Visit(totals[k], order[k + 1], policy), k + 1, h)
    BY <1>1, <1>2, <2>1, <2>2, TurnKeeps DEF E, n
  <2>. QED BY <2>3, <2>4
<1>8. \A k \in Nat : k \in P
  <2>. HIDE DEF P
  <2>. QED BY <1>6, <1>7, NatSetInduction
<1>9. n \in P /\ n \in 0 .. n
  BY <1>4, <1>8
<1>10. \E m \in 0 .. n : After(totals[n], n, m)
  BY <1>9
<1>. QED BY <1>3, <1>10 DEF n, order, aged, E

-----------------------------------------------------------------------------
(* The reference.                                                          *)

\* Something that is aged is not younger than what is not.
LEMMA AgedAreOldest ==
    ASSUME NEW inventory, IsInventory(inventory), NEW policy, IsPolicy(policy),
           NEW clock \in Int
    PROVE  \A x, y \in Eligible(inventory) :
             y \in Aged(inventory, policy, clock) /\ Older(x, y)
               => x \in Aged(inventory, policy, clock)
<1>. SUFFICES ASSUME NEW x \in Eligible(inventory), NEW y \in Aged(inventory, policy, clock),
                     Older(x, y)
              PROVE  x \in Aged(inventory, policy, clock)
  BY DEF Aged
<1>1. y \in Eligible(inventory) /\ policy.maxAge # NoLimit /\ y.created <= clock - policy.maxAge
  BY DEF Aged
<1>2. x.created \in Int /\ y.created \in Int /\ policy.maxAge \in Nat
  BY <1>1 DEF IsInventory, IsPolicy, Eligible
<1>3. x.created <= clock - policy.maxAge
  BY <1>1, <1>2 DEF Older
<1>. QED BY <1>1, <1>3 DEF Aged

UpTo(inventory, y) == {x \in Eligible(inventory) : x = y \/ Older(x, y)}

\* A set of artifacts that is not empty has a youngest one.
LEMMA YoungestExists ==
    ASSUME NEW inventory, IsInventory(inventory), NEW part \in SUBSET inventory, part # {}
    PROVE  \E y \in part : \A x \in part : x = y \/ Older(x, y)
<1>. DEFINE s == Sorted(part, Older)
            n == Len(s)
<1>1. InOrder(s, part)
  BY SortedByAge
<1>. HIDE DEF s
<1>2. /\ n \in Nat /\ DOMAIN s = 1 .. n /\ ToSet(s) = part
      /\ \A i, j \in DOMAIN s : i < j <=> Older(s[i], s[j])
  BY <1>1 DEF InOrder
<1>3. n # 0
  <2>1. n = 0 => ToSet(s) = {}
    BY <1>2 DEF ToSet
  <2>. QED BY <1>2, <2>1
<1>4. n \in DOMAIN s /\ s[n] \in part
  BY <1>2, <1>3 DEF ToSet
<1>5. ASSUME NEW x \in part PROVE x = s[n] \/ Older(x, s[n])
  <2>1. PICK i \in DOMAIN s : s[i] = x
    BY <1>2 DEF ToSet
  <2>2. i = n \/ i < n
    BY <1>2
  <2>. QED BY <1>2, <1>4, <2>1, <2>2
<1>. QED BY <1>4, <1>5

\* The choices the reference looks at are those the walk goes through.
LEMMA ChoicesOfReference ==
    ASSUME NEW inventory, IsInventory(inventory), NEW policy, IsPolicy(policy),
           NEW clock \in Int, NEW aged, aged = Aged(inventory, policy, clock),
           NEW order, InOrder(order, Eligible(inventory) \ aged)
    PROVE  /\ \A m \in 0 .. Len(order) : Oldest(aged, order, m) \in OldestFirst(inventory)
           /\ \A chosen \in OldestFirst(inventory) : aged \subseteq chosen =>
                 \E m \in 0 .. Len(order) : chosen = Oldest(aged, order, m)
<1>. DEFINE E == Eligible(inventory)
            part == E \ aged
            n == Len(order)
            All(m) == Oldest(aged, order, m)
<1>1. /\ aged \in SUBSET E /\ E \in SUBSET inventory /\ part \in SUBSET inventory
  BY DEF Eligible, Aged
<1>2. /\ n \in Nat /\ DOMAIN order = 1 .. n /\ ToSet(order) = part
      /\ \A i \in 1 .. n : order[i] \in part
      /\ \A i, j \in 1 .. n : i < j <=> Older(order[i], order[j])
  <2>1. InOrder(order, part)
    OBVIOUS
  <2>. HIDE DEF part
  <2>. QED BY <2>1 DEF InOrder
<1>3. \A x, y \in E : x = y \/ Older(x, y) \/ Older(y, x)
  <2>1. IsOrder(ByAge(E), E)
    BY <1>1, AgeIsOrder
  <2>. QED BY <2>1 DEF IsOrder, ByAge
<1>4. \A x, y \in E : y \in aged /\ Older(x, y) => x \in aged
  BY AgedAreOldest
<1>5. OldestFirst(inventory) = {{}} \cup {UpTo(inventory, y) : y \in E}
  BY DEF OldestFirst, UpTo
<1>6. All(0) = aged
  BY DEF Oldest
<1>7. \A x \in part : \E i \in 1 .. n : order[i] = x
  BY <1>2 DEF ToSet
<1>8. ASSUME NEW i \in 1 .. n PROVE UpTo(inventory, order[i]) = All(i)
  <2>1. order[i] \in E /\ order[i] \notin aged
    BY <1>2
  <2>2. ASSUME NEW x \in UpTo(inventory, order[i]) PROVE x \in All(i)
    <3>1. x \in E /\ (x = order[i] \/ Older(x, order[i]))
      BY DEF UpTo
    <3>2. CASE x \in aged
      BY <3>2 DEF Oldest
    <3>3. CASE x \notin aged
      <4>1. PICK j \in 1 .. n : order[j] = x
        BY <1>7, <3>1, <3>3
      <4>2. PICK h \in 1 .. i : order[h] = x
        <5>1. CASE x = order[i]
          <6>1. i \in 1 .. i
            BY <1>2
          <6>. QED BY <5>1, <6>1
        <5>2. CASE Older(x, order[i])
          <6>1. j < i
            BY <1>2, <4>1, <5>2
          <6>2. j \in 1 .. i
            BY <1>2, <6>1
          <6>. QED BY <4>1, <6>2
        <5>. QED BY <3>1, <5>1, <5>2
      <4>. QED BY <4>2 DEF Oldest
    <3>. QED BY <3>2, <3>3
  <2>3. ASSUME NEW x \in All(i) PROVE x \in UpTo(inventory, order[i])
    <3>1. CASE x \in aged
      <4>1. x \in E /\ x # order[i] /\ ~Older(order[i], x)
        BY <1>1, <1>4, <2>1, <3>1
      <4>. QED BY <1>3, <2>1, <4>1 DEF UpTo
    <3>2. CASE x \notin aged
      <4>1. PICK j \in 1 .. i : order[j] = x
        BY <3>2 DEF Oldest
      <4>2. j \in 1 .. n /\ (j = i \/ j < i)
        BY <1>2
      <4>3. x \in E /\ (x = order[i] \/ Older(x, order[i]))
        BY <1>2, <4>1, <4>2
      <4>. QED BY <4>3 DEF UpTo
    <3>. QED BY <3>1, <3>2
  <2>. QED BY <2>2, <2>3
<1>9. ASSUME aged # {} PROVE \E y \in aged : UpTo(inventory, y) = aged
  <2>1. PICK y \in aged : \A x \in aged : x = y \/ Older(x, y)
    <3>1. aged \in SUBSET inventory
      BY <1>1
    <3>. QED BY <1>9, <3>1, YoungestExists
  <2>2. UpTo(inventory, y) = aged
    BY <1>1, <1>4, <2>1 DEF UpTo
  <2>. QED BY <2>2
<1>. HIDE DEF n, All, part, E
<1>10. ASSUME NEW m \in 0 .. n PROVE All(m) \in OldestFirst(inventory)
  <2>1. CASE m = 0
    <3>1. aged = {} \/ \E y \in E : UpTo(inventory, y) = aged
      BY <1>1, <1>9
    <3>. QED BY <1>5, <1>6, <2>1, <3>1
  <2>2. CASE m # 0
    <3>1. m \in 1 .. n
      BY <1>2, <2>2
    <3>2. UpTo(inventory, order[m]) = All(m) /\ order[m] \in E
      BY <1>2, <1>8, <3>1 DEF part
    <3>. QED BY <1>5, <3>2
  <2>. QED BY <2>1, <2>2
<1>11. ASSUME NEW chosen \in OldestFirst(inventory), aged \subseteq chosen
       PROVE  \E m \in 0 .. n : chosen = All(m)
  <2>0. 0 \in 0 .. n /\ \A i \in 1 .. n : i \in 0 .. n
    BY <1>2
  <2>1. CASE chosen = {}
    BY <1>6, <1>11, <2>0, <2>1
  <2>2. CASE \E y \in E : chosen = UpTo(inventory, y)
    <3>1. PICK y \in E : chosen = UpTo(inventory, y)
      BY <2>2
    <3>2. CASE y \in aged
      <4>1. UpTo(inventory, y) \subseteq aged
        BY <1>4, <3>2 DEF UpTo, E
      <4>. QED BY <1>6, <1>11, <2>0, <3>1, <4>1
    <3>3. CASE y \notin aged
      <4>1. PICK i \in 1 .. n : order[i] = y
        BY <1>7, <3>3 DEF part
      <4>. QED BY <1>8, <2>0, <3>1, <4>1
    <3>. QED BY <3>2, <3>3
  <2>. QED BY <1>5, <2>1, <2>2
<1>. QED BY <1>10, <1>11 DEF n, All

\* The reference is where the walk ends.
LEMMA ReferenceIsOldest ==
    ASSUME NEW inventory, IsInventory(inventory), NEW policy, IsPolicy(policy),
           NEW clock \in Int, NEW aged, aged = Aged(inventory, policy, clock),
           NEW order, InOrder(order, Eligible(inventory) \ aged), NEW totals,
           NEW m \in 0 .. Len(order),
           AfterTurns(totals, inventory, aged, order, policy, Len(order), m)
    PROVE  Reference(inventory, policy, clock) = Oldest(aged, order, m)
<1>. DEFINE E == Eligible(inventory)
            part == E \ aged
            n == Len(order)
            All(k) == Oldest(aged, order, k)
            Enough(chosen) == /\ aged \subseteq chosen
                              /\ WithinLimits(inventory \ chosen, policy) \/ chosen = E
            enough == {chosen \in OldestFirst(inventory) : Enough(chosen)}
<1>1. /\ n \in Nat /\ DOMAIN order = 1 .. n /\ ToSet(order) = part /\ IsInjective(order)
  <2>1. InOrder(order, part)
    OBVIOUS
  <2>. HIDE DEF part
  <2>. QED BY <2>1 DEF InOrder
<1>2. /\ \A k \in 0 .. n : All(k) \in OldestFirst(inventory)
      /\ \A chosen \in OldestFirst(inventory) : aged \subseteq chosen =>
            \E k \in 0 .. n : chosen = All(k)
  BY ChoicesOfReference
<1>3. /\ m = n \/ WithinLimits(inventory \ All(m), policy)
      /\ \A j \in 0 .. (m - 1) : ~WithinLimits(inventory \ All(j), policy)
  BY DEF AfterTurns
<1>4. aged \subseteq E
  BY DEF Aged
<1>5. All(n) = E
  BY <1>1, <1>4 DEF Oldest, ToSet
<1>6. \A k \in 0 .. n : All(k) = E => k = n
  <2>. SUFFICES ASSUME NEW k \in 0 .. n, k # n, All(k) = E PROVE FALSE
    OBVIOUS
  <2>. HIDE DEF n
  <2>0. k \in Nat /\ k < n /\ n \in Nat
    BY <1>1
  <2>1. n \in 1 .. n /\ n \notin 1 .. k /\ \A i \in 1 .. k : i \in 1 .. n
    BY <2>0
  <2>2. order[n] \in part
    BY <1>1, <2>1 DEF ToSet
  <2>3. \A i \in 1 .. k : order[i] # order[n]
    BY <1>1, <2>1 DEF IsInjective
  <2>. QED BY <2>2, <2>3 DEF Oldest
<1>7. \A k, l \in 0 .. n : k <= l => All(k) \subseteq All(l)
  <2>. TAKE k, l \in 0 .. n
  <2>. HAVE k <= l
  <2>1. 1 .. k \subseteq 1 .. l
    BY <1>1
  <2>. QED BY <2>1 DEF Oldest
<1>8. m \in 0 .. n /\ aged \subseteq All(m)
  BY DEF Oldest
<1>. HIDE DEF All, n, part, E
<1>9. All(m) \in enough
  BY <1>2, <1>3, <1>5, <1>8
<1>10. ASSUME NEW other \in enough PROVE All(m) \subseteq other
  <2>1. PICK k \in 0 .. n : other = All(k)
    BY <1>2
  <2>2. WithinLimits(inventory \ All(k), policy) \/ k = n
    BY <1>6, <2>1
  <2>3. m <= k
    <3>1. SUFFICES ASSUME k < m PROVE FALSE
      BY <1>1, <1>8
    <3>2. k \in 0 .. (m - 1) /\ k # n
      BY <1>1, <1>8, <3>1
    <3>. QED BY <1>3, <2>2, <3>2
  <2>. QED BY <1>7, <1>8, <2>1, <2>3
<1>. DEFINE Least(chosen) == chosen \in enough /\ \A other \in enough : chosen \subseteq other
<1>11. Reference(inventory, policy, clock)
          = CHOOSE chosen \in enough : \A other \in enough : chosen \subseteq other
  BY DEF Reference, E
<1>. HIDE DEF enough
<1>12. \A chosen \in enough : (\A other \in enough : chosen \subseteq other) => chosen = All(m)
  BY <1>9, <1>10
<1>13. Reference(inventory, policy, clock) = All(m)
  BY <1>9, <1>10, <1>11, <1>12
<1>. QED BY <1>13 DEF All

\* Whatever the artifacts and the policy are, the walk chooses what the reference
\* says, its totals are those of the artifacts it leaves, and its last field says
\* what they mean (plan_artifact_collection).
LEMMA PlanFollowsThePolicy ==
    ASSUME NEW inventory, IsInventory(inventory), NEW policy, IsPolicy(policy),
           NEW clock \in Int
    PROVE  PlanMatches(inventory, policy, clock)
<1>. DEFINE E == Eligible(inventory)
            aged == Aged(inventory, policy, clock)
            order == Sorted(E \ aged, Older)
            n == Len(order)
            end == Walk(inventory, policy, clock)
            plan == Plan(inventory, policy, clock)
            left == Leftover(inventory, plan)
            selected == {item \in E : end.reasons[item] # {}}
<1>1. aged \in SUBSET E /\ E \in SUBSET inventory /\ E \ aged \in SUBSET inventory
  BY DEF Eligible, Aged
<1>2. InOrder(order, E \ aged)
  BY <1>1, SortedByAge
<1>3. PICK m \in 0 .. n : AfterTurns(end, inventory, aged, order, policy, n, m)
  BY WalkEnds
<1>. DEFINE chosen == Oldest(aged, order, m)
<1>4. Reference(inventory, policy, clock) = chosen
  <2>. HIDE DEF order, end, aged
  <2>1. aged = Aged(inventory, policy, clock)
    BY DEF aged
  <2>. QED BY <1>2, <1>3, <2>1, ReferenceIsOldest
<1>5. /\ plan.candidates = {Candidate(item, end.reasons[item]) : item \in selected}
      /\ plan.remainingArtifacts = end.count /\ plan.remainingBytes = end.bytes
      /\ plan.satisfies = (/\ ~Exceeds(end.count, policy.maxArtifacts)
                           /\ ~Exceeds(end.bytes, policy.maxBytes))
  BY DEF Plan
<1>6. left = {item \in inventory : item.id \notin ChosenIds(plan)}
  BY DEF Leftover
<1>7. \A i \in 1 .. m : order[i] \in E
  <2>. DEFINE part == E \ aged
  <2>1. InOrder(order, part)
    BY <1>2
  <2>. HIDE DEF part, order
  <2>2. \A i \in 1 .. n : order[i] \in part
    BY <2>1 DEF InOrder
  <2>3. n \in Nat
    BY <2>1 DEF InOrder
  <2>4. \A i \in 1 .. m : i \in 1 .. n
    BY <2>3
  <2>. QED BY <2>2, <2>4 DEF part
<1>8. chosen \in SUBSET E
  BY <1>1, <1>7 DEF Oldest
<1>9. aged \subseteq chosen
  BY DEF Oldest
<1>. HIDE DEF order, n, end, plan, aged, left, E
<1>10. /\ \A item \in E : end.reasons[item] # {} <=> item \in chosen
       /\ end.count = Cardinality(inventory \ chosen)
       /\ end.bytes = TotalBytes(inventory \ chosen)
  BY <1>3 DEF AfterTurns, E
<1>11. selected = chosen
  BY <1>8, <1>10
<1>. HIDE DEF selected, chosen
<1>12. ChosenIds(plan) = {item.id : item \in chosen}
  <2>1. \A item : Candidate(item, end.reasons[item]).id = item.id
    BY DEF Candidate
  <2>2. ChosenIds(plan) = {Candidate(item, end.reasons[item]).id : item \in chosen}
    BY <1>5, <1>11 DEF ChosenIds
  <2>. QED BY <2>1, <2>2
<1>13. left = inventory \ chosen
  <2>1. \A x, y \in inventory : x.id = y.id => x = y
    BY DEF IsInventory
  <2>2. \A x \in chosen : x \in inventory
    BY <1>1, <1>8
  <2>3. \A x \in inventory : x.id \in ChosenIds(plan) <=> x \in chosen
    BY <1>12, <2>1, <2>2
  <2>. QED BY <1>6, <2>3
<1>14. plan.remainingArtifacts = Cardinality(left) /\ plan.remainingBytes = TotalBytes(left)
  BY <1>5, <1>10, <1>13
<1>15. plan.satisfies <=> WithinLimits(left, policy)
  BY <1>5, <1>10, <1>13 DEF WithinLimits
<1>16. Aged(left, policy, clock) = {}
  <2>1. ASSUME NEW x \in Aged(left, policy, clock) PROVE FALSE
    <3>1. x \in left /\ x \in Aged(inventory, policy, clock)
      BY <1>13 DEF Aged, Eligible
    <3>. QED BY <1>9, <1>13, <3>1 DEF aged
  <2>. QED BY <2>1
<1>17. /\ ChosenIds(plan) = {item.id : item \in Reference(inventory, policy, clock)}
       /\ plan.satisfies <=> (WithinLimits(left, policy) /\ Aged(left, policy, clock) = {})
  BY <1>4, <1>12, <1>15, <1>16
<1>. QED BY <1>14, <1>17 DEF PlanMatches, plan, left

\* Every plan matches the reference, whatever inventories, policies and times are
\* looked at (plan_artifact_collection).
THEOREM PlansAlwaysMatch == CarefulSpec => []PlanMatchesReference
<1>1. PlanMatchesReference
  BY PlanFollowsThePolicy, PlansAreForInventories DEF PlanMatchesReference
<1>. QED  BY <1>1, PTL

\* What the operator looks at is an inventory.
LEMMA InventoryOfTheDirectory ==
    ASSUME NEW protected
    PROVE  IsInventory(Inventory(protected))
<1>. DEFINE there == {b \in Artifacts : disk[b] \in Present}
            ItemOf(a) == [id |-> a, size |-> 1,
                          created |-> IF disk[a] = "valid" THEN 0 ELSE Never,
                          integrity |-> disk[a], protected |-> a \in protected]
            inventory == Inventory(protected)
<1>1. inventory = {ItemOf(a) : a \in there}
  BY DEF Inventory
<1>2. IsFiniteSet(there) /\ \A a \in there : a \in Int
  BY FS_Subset, PlansAreOfInventories, ArtifactsAreOrdered
<1>3. /\ \A a \in there : ItemOf(a).id = a /\ ItemOf(a).size = 1
      /\ \A a \in there : ItemOf(a).created \in Int
  BY PlansAreOfInventories
<1>. HIDE DEF there, ItemOf
<1>4. IsFiniteSet(inventory)
  <2>. DEFINE f == [a \in there |-> ItemOf(a)]
  <2>1. /\ inventory = {f[a] : a \in there} /\ DOMAIN f = there
        /\ f = [a \in there |-> f[a]]
    BY <1>1
  <2>. HIDE DEF f, inventory
  <2>. QED BY <1>2, <2>1, ImageIsFinite
<1>5. \A x \in inventory : \E a \in there : x = ItemOf(a)
  BY <1>1
<1>. HIDE DEF inventory
<1>6. \A x \in inventory : x.id \in Int /\ x.size \in Nat /\ x.created \in Int
  BY <1>2, <1>3, <1>5
<1>7. \A x, y \in inventory : x.id = y.id => x = y
  BY <1>3, <1>5
<1>. QED BY <1>4, <1>6, <1>7 DEF IsInventory, inventory

\* So the plan an operator reviews, and the one rebuilt when it is applied, is the
\* reference for what was in the directory at that moment, whatever runs and
\* requests do meanwhile.
THEOREM OperatorPlansMatch ==
    CollectionSpec => []PlanMatches(Inventory(operator.protected), Policy, now)
<1>1. CollectionInv => PlanMatches(Inventory(operator.protected), Policy, now)
  <2>. SUFFICES ASSUME CollectionInv
                PROVE  PlanMatches(Inventory(operator.protected), Policy, now)
    OBVIOUS
  <2>1. now \in Int
    BY DEF CollectionInv, StoreInv, StoreTypeOK
  <2>2. IsInventory(Inventory(operator.protected)) /\ IsPolicy(Policy)
    BY InventoryOfTheDirectory, PlansAreOfInventories
  <2>. QED BY <2>1, <2>2, PlanFollowsThePolicy
<1>. QED  BY <1>1, CollectionInvariant, PTL
=============================================================================
