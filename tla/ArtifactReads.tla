---------------------------- MODULE ArtifactReads ----------------------------
(* What is read of a published artifact: the source of a file, single nodes  *)
(* and moves, and the XML with its anchors.                                  *)
EXTENDS ArtifactIndex, SourceRows

(* splitlines(): the lines without what ends them.                           *)
SourceLines(source) ==
  LET Bare(lines) == [k \in DOMAIN lines |->
                        SelectSeq(lines[k], LAMBDA c : c \notin {"n", "f"})]
  IN  Bare(LinesOf(source, {"n", "f"}))

FileNodes(artifact, fileId) ==
  SelectSeq(artifact.index.nodes, LAMBDA node : node.file = fileId)

FileLines(artifact, fileId) ==
  <<SourceLines(artifact.sources[fileId][REVISION_0]),
    SourceLines(artifact.sources[fileId][REVISION_1])>>

(* _read_focus_anchors: the nodes that are not plain.                        *)
Anchors(nodes) ==
  [k \in DOMAIN nodes |->
     [node |-> NodeId(nodes[k].file, nodes[k].ordinal), kind |-> nodes[k].kind,
      moveId |-> nodes[k].moveId, diffKind |-> DiffKind(nodes[k].payload.tag),
      spans |-> nodes[k].payload.spans, xmlSpan |-> nodes[k].payload.xmlSpan]]

FocusAnchors(artifact, fileId) ==
  Anchors(SelectSeq(FileNodes(artifact, fileId), LAMBDA n : n.kind # "plain"))

ArtifactNode(artifact, fileId, ordinal) ==
  FlatNode(Row(FileNodes(artifact, fileId), ordinal))

(* read_artifact_move: the record shown under this id, or the atomic one.    *)
RecordsOf(artifact) ==
  ReportedMoveRecords(artifact.index.results) \o artifact.index.results.moves

HasMoveRecord(artifact, id) == \E m \in ToSet(RecordsOf(artifact)) : m.id = id

ArtifactMove(artifact, id) == SelectSeq(RecordsOf(artifact), LAMBDA m : m.id = id)[1]

(* read_artifact_xml: the annotated XML with an anchor for every node that   *)
(* is not plain and stands somewhere in it.                                  *)
ArtifactXml(artifact) ==
  [xml |-> artifact.xml,
   anchors |-> Anchors(SelectSeq(artifact.index.nodes,
     LAMBDA n : n.kind # "plain" /\ n.payload.xmlSpan # NoSpan))]
=============================================================================
