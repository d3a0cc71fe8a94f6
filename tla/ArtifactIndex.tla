----------------------------- MODULE ArtifactIndex -----------------------------
(* What a publication puts in the manifest of srcMove's results, and how the *)
(* stored artifact is checked.                                               *)
EXTENDS MoveReports, StoredArtifact

(* _build_move_summaries: a path the index lacks is an error.                *)
SummariesBuild(results, nodeIds) ==
  /\ ReportsAreSound(results)
  /\ LET moves == ReportedMoveRecords(results)
     IN  \A k \in DOMAIN moves :
           ToSet(moves[k].fromNodes) \cup ToSet(moves[k].toNodes) \subseteq DOMAIN nodeIds

BuildMoveSummaries(results, nodeIds) ==
  LET moves == ReportedMoveRecords(results)
      Nodes(paths) == [k \in DOMAIN paths |-> nodeIds[paths[k]]]
  IN  [k \in DOMAIN moves |->
         [id |-> moves[k].id, kind |-> moves[k].kind, members |-> moves[k].members,
          relationship |-> moves[k].relationship,
          fromNodes |-> Nodes(moves[k].fromNodes), toNodes |-> Nodes(moves[k].toNodes)]]

WriteArtifact(id, xml, results, files) ==
  Stored(id, xml, results,
         BuildMoveSummaries(results, BuildIndexRecords(files).nodeIds), files)

(* _validate_artifact_path and _validate_index                               *)
ArtifactIsValid(artifact, directory) ==
  LET manifest == artifact.manifest
      index == artifact.index
  IN  /\ manifest.schema = ARTIFACT_SCHEMA_VERSION
      /\ manifest.id = directory
      /\ manifest.sums = <<artifact.xml, artifact.sources>>
      /\ index.id = manifest.id /\ index.schema = ARTIFACT_SCHEMA_VERSION
      /\ Len(index.files) = manifest.fileCount
      /\ Len(index.nodes) = manifest.nodeCount
      /\ \A f \in ToSet(index.files) : f.root # NoOrdinal =>
           \E node \in ToSet(index.nodes) :
             node.file = f.id /\ node.ordinal = f.root
=============================================================================
