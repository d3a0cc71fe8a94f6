--------------------------- MODULE ArtifactBrowsing ---------------------------
(* A browser looking at what the build published: the card of one file's     *)
(* source or one branch of its tree.                                         *)
EXTENDS BuildPipeline, ArtifactReads, SourceCard, TreeBranch

browseVars == <<cardVars, branchVars>>

Files == {f.id : f \in ToSet(artifact.index.files)}

Closed == source = NoSource /\ tree = NoTree

OpenFileSource(fileId) ==
  /\ stage = "published" /\ Closed
  /\ OpenSource(FileLines(artifact, fileId), FocusAnchors(artifact, fileId))
  /\ UNCHANGED branchVars

OpenFileBranch(fileId, profile) ==
  /\ stage = "published" /\ Closed
  /\ OpenBranch(FileNodes(artifact, fileId), profile)
  /\ UNCHANGED cardVars

BrowseInit == Init /\ CardInit /\ BranchInit

Browse ==
  \/ /\ stage = "published" /\ Closed
     /\ \E f \in Files : \/ OpenFileSource(f)
                         \/ \E p \in FOCUS_PROFILES : OpenFileBranch(f, p)
  \/ CardMoves /\ UNCHANGED branchVars
  \/ LoadMore /\ UNCHANGED cardVars

BrowseNext ==
  \/ Next /\ UNCHANGED browseVars
  \/ Browse /\ UNCHANGED vars

BrowseSpec == BrowseInit /\ [][BrowseNext]_<<vars, browseVars>>

-----------------------------------------------------------------------------
(* Opened by its id a listed move is the one that was listed, and each of    *)
(* its ends has an anchor in the XML.                                        *)
MoveOpens(move) ==
  /\ HasMoveRecord(artifact, move.id)
  /\ ArtifactMove(artifact, move.id).members = move.members
  /\ Len(ArtifactMove(artifact, move.id).fromNodes) = Len(move.fromNodes)
  /\ Len(ArtifactMove(artifact, move.id).toNodes) = Len(move.toNodes)
  /\ ToSet(move.fromNodes) \cup ToSet(move.toNodes)
       \subseteq {a.node : a \in ToSet(ArtifactXml(artifact).anchors)}

InSkipped(node) ==
  \E k \in DOMAIN node.payload.path : node.payload.path[k][1] \in SKIPPED_TREE_TAGS

(* The moves listed for a published artifact and the moved nodes of its      *)
(* index are the same, each node an end of one listed move, on the side its  *)
(* text is from; and every listed move can be opened.  Moved nodes within    *)
(* diff:ws are the exception: none is listed, and a listed move is without   *)
(* ends on a side only where it has such a node.                             *)
(* (move_result_enrichment.py, reported_moves.py, artifacts/projections.py)  *)
NodesAndMovesAgree ==
  Published =>
    LET moves == artifact.manifest.moves
        nodes == ToSet(artifact.index.nodes)
        marked == {node \in nodes : node.kind = "move"}
        skipped == {node \in marked : InSkipped(node)}
        moved == marked \ skipped
        Ends(m, r) == ToSet(IF r = REVISION_0 THEN m.fromNodes ELSE m.toNodes)
        ListedAt(node) == {<<k, r>> \in (DOMAIN moves) \X ALL_REVISIONS :
                             NodeId(node.file, node.ordinal) \in Ends(moves[k], r)}
        IsEnd(node, m, r) == /\ node.moveId \in {m.id} \cup ToSet(m.members)
                             /\ node.payload.spans[2 - r] = NoSpan
    IN  /\ \A node \in moved : Cardinality(ListedAt(node)) = 1
        /\ \A node \in moved : \A at \in ListedAt(node) : IsEnd(node, moves[at[1]], at[2])
        /\ \A k \in DOMAIN moves : MoveOpens(moves[k])
        /\ \A k \in DOMAIN moves : \A r \in ALL_REVISIONS :
             /\ Ends(moves[k], r) = {} => \E node \in skipped : IsEnd(node, moves[k], r)
             /\ Ends(moves[k], r) \subseteq
                  {NodeId(node.file, node.ordinal) : node \in moved}
=============================================================================
