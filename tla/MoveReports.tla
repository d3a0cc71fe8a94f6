------------------------------ MODULE MoveReports ------------------------------
(* What is made of a producer's moves: merged with the moves the document    *)
(* itself carries, given the nodes they end at, grouped as the producer      *)
(* reports them, or written back onto a document that lacks them.            *)
EXTENDS MoveResults

WithId(moves, id) == moves[CHOOSE k \in DOMAIN moves : moves[k].id = id]
Ids(moves) == {moves[k].id : k \in DOMAIN moves}

(* merge_producer_move_results: every producer move is one of the document's *)
Merges(doc, producer, include) ==
  /\ Reconstructs(doc, include)
  /\ ProducerResultsAreValid(producer)
  /\ Cardinality(Ids(producer.moves)) = Len(producer.moves)
  /\ Ids(producer.moves) \subseteq MoveIds(XmlMoveRegions(doc, include))

(* The document's moves, each overlaid by the producer's move of that id;    *)
(* what else the producer says is kept as metadata.                          *)
MergeProducerResults(doc, producer, include) ==
  LET own == ReconstructResults(doc, include)
      Merged(move) ==
        IF move.id \in Ids(producer.moves)
        THEN [WithId(producer.moves, move.id) EXCEPT !.provenance = "producer-results"]
        ELSE [move EXCEPT !.provenance = "xml-annotation"]
  IN  [own EXCEPT !.moves = [k \in DOMAIN @ |-> Merged(@[k])],
                  !.merged = TRUE,
                  !.meta = [producer.meta EXCEPT !.count = producer.count]]

(* augment_move_results_with_node_ids: the regions are collected without the *)
(* skipped elements here, and only here; a move left without any is refused. *)
Augments(doc, results) ==
  /\ ResultsParse(doc, results)
  /\ RegionsCollect(doc, FALSE)
  /\ SidesAreKnown(XmlMoveRegions(doc, FALSE))
  /\ Ids(results.moves) \subseteq MoveIds(XmlMoveRegions(doc, FALSE))

\* Mutant: the two sides of a move are exchanged.
AugmentCrosswise(doc, results) ==
  LET regions == XmlMoveRegions(doc, FALSE)
  IN  [results EXCEPT !.moves = [k \in DOMAIN @ |-> [@[k] EXCEPT
         !.fromNodes = SortedPaths(EndPaths(regions, results.moves[k].id, "to")),
         !.toNodes = SortedPaths(EndPaths(regions, results.moves[k].id, "from"))]]]

AugmentWithNodes(doc, results) ==
  LET regions == XmlMoveRegions(doc, FALSE)
  IN  [results EXCEPT !.moves = [k \in DOMAIN @ |-> [@[k] EXCEPT
         !.fromNodes = SortedPaths(EndPaths(regions, results.moves[k].id, "from")),
         !.toNodes = SortedPaths(EndPaths(regions, results.moves[k].id, "to"))]]]

-----------------------------------------------------------------------------
(* reported_move_records: the producer's reports group its atomic moves.     *)

(* Moves the document brought along are no part of the producer's reports.   *)
XmlOnly(results) ==
  SelectSeq(results.moves,
            LAMBDA m : results.merged /\ m.provenance = "xml-annotation")
ProducerIds(results) == Ids(results.moves) \ Ids(XmlOnly(results))

Members(results, report) ==
  [k \in DOMAIN report.members |-> WithId(results.moves, report.members[k])]

Evidence == {"relationship", "from", "to", "fromTexts", "toTexts"}
EvidencePaths == Evidence \ {"relationship"}

(* An atomic report is its one move; an ordered sequence is of two or more   *)
(* type-1 moves with one end on each side, and gives them in member order.   *)
ReportIsSound(results, report) ==
  LET records == Members(results, report)
  IN  /\ report.members # <<>> /\ IsInjective(report.members)
      /\ ToSet(report.members) \subseteq ProducerIds(results)
      /\ \/ /\ report.kind = "atomic"
            /\ report.members = <<report.id>>
            /\ \A key \in Evidence : report[key] = records[1][key]
         \/ /\ report.kind = "ordered_sequence"
            /\ Len(records) >= 2 /\ report.relationship = "type1"
            /\ \A k \in DOMAIN records :
                 /\ records[k].relationship = "type1"
                 /\ Len(records[k].fromNodes) = 1 /\ Len(records[k].toNodes) = 1
            /\ \A key \in EvidencePaths :
                 report[key] = [k \in DOMAIN records |-> records[k][key][1]]

ReportsAreSound(results) ==
  LET meta == results.meta
      reports == meta.reports
      MemberSet(k) == ToSet(reports[k].members)
  IN  IF ~meta.reported
      THEN meta.reportCount = 0 /\ meta.reportRelationships = <<>>
      ELSE /\ Cardinality(Ids(results.moves)) = Len(results.moves)
           /\ \A k \in DOMAIN reports : ReportIsSound(results, reports[k])
           /\ \A j, k \in DOMAIN reports : j # k =>
                /\ reports[j].id # reports[k].id
                /\ MemberSet(j) \cap MemberSet(k) = {}
           /\ UNION {MemberSet(k) : k \in DOMAIN reports} = ProducerIds(results)
           /\ meta.reportCount = Len(reports)
           /\ meta.reportRelationships = CountRelationships(reports)

(* The records shown: the reports with the nodes their members end at, then  *)
(* the moves the producer did not report.                                    *)
ReportedMoveRecords(results) ==
  LET Projected(report) ==
        LET records == Members(results, report)
        IN  IF report.kind = "atomic"
            THEN [records[1] EXCEPT !.kind = "atomic", !.members = report.members]
            ELSE [id |-> report.id, relationship |-> report.relationship,
                  from |-> report.from, to |-> report.to,
                  fromTexts |-> report.fromTexts, toTexts |-> report.toTexts,
                  fromNodes |-> [k \in DOMAIN records |-> records[k].fromNodes[1]],
                  toNodes |-> [k \in DOMAIN records |-> records[k].toNodes[1]],
                  provenance |-> "", kind |-> report.kind, members |-> report.members]
  IN  IF ~results.meta.reported THEN results.moves
      ELSE [k \in DOMAIN results.meta.reports |-> Projected(results.meta.reports[k])]
           \o XmlOnly(results)

-----------------------------------------------------------------------------
(* annotate_retained_results: results written back onto the document they    *)
(* were found in.                                                            *)

ElementAt(doc, path) ==
  {entry.el : entry \in {e \in ToSet(Walk(doc, TRUE)) : e.path = path}}

(* Every end of every move, as the loop over moves and sides meets them.     *)
RetainedEnds(doc, results) ==
  LET Ends(m) == [k \in DOMAIN m.from |-> [id |-> m.id, path |-> m.from[k],
                    text |-> m.fromTexts[k], from |-> <<>>, to |-> m.to]]
                 \o [k \in DOMAIN m.to |-> [id |-> m.id, path |-> m.to[k],
                    text |-> m.toTexts[k], from |-> m.from, to |-> <<>>]]
      All(moves) == FlattenSeq([k \in DOMAIN moves |-> Ends(moves[k])])
  IN  All(ParsedMoves(doc, results))

AnnotateEnds(doc, ends) ==
  LET Annotate(acc, end) ==
        [acc EXCEPT ![CHOOSE el \in ElementAt(doc, end.path) : TRUE] =
           [@ EXCEPT !.id = end.id,
                     !.from = IF end.from # <<>> THEN end.from ELSE @,
                     !.to = IF end.to # <<>> THEN end.to ELSE @]]
  IN  FoldLeft(Annotate, doc, ends)

AnnotateRetained(doc, results) == AnnotateEnds(doc, RetainedEnds(doc, results))

EndsAreFree(doc, ends) ==
  /\ \A k \in DOMAIN ends : \E el \in DOMAIN doc :
       /\ ElementAt(doc, ends[k].path) = {el}
       /\ doc[el].id = 0 /\ RawText(doc, el) = ends[k].text
  /\ \A j, k \in DOMAIN ends : ends[j].path = ends[k].path => j = k

RetainedAnnotates(doc, results) ==
  /\ ProducerResultsAreValid(results)
  /\ ResultsParse(doc, results)
  /\ results.count = Len(results.moves)
  /\ EndsAreFree(doc, RetainedEnds(doc, results))
  /\ ResultsMatchXml(AnnotateRetained(doc, results), results, TRUE, TRUE, TRUE)

-----------------------------------------------------------------------------
(* assert_moved_srcdiff_matches_visualized_tree_moves: the moves read off    *)
(* the XML and the moves read off the trees are the same, each in a group of *)
(* two or more.                                                              *)

TreeMoveNodes(doc, visualized) ==
  LET Collect(moved, node) ==
        IF node.moveId = 0 THEN moved
        ELSE (node.path :> [node EXCEPT !.from = NormalizePaths(doc, @),
                                        !.to = NormalizePaths(doc, @)]) @@ moved
  IN  FoldLeft(Collect, <<>>, FlattenSeq([n \in DOMAIN visualized |-> visualized[n].tree]))

GroupMovePaths(ids) ==
  [id \in Range(ids) |-> {path \in DOMAIN ids : ids[path] = id}]

NodesMatchRegions(nodes, regions) ==
  LET groups == GroupMovePaths([path \in DOMAIN nodes |-> nodes[path].moveId])
  IN  /\ DOMAIN regions = DOMAIN nodes
      /\ \A path \in DOMAIN regions :
           /\ nodes[path].kind = "move" /\ nodes[path].xmlSpan # NoSpan
           /\ nodes[path].moveId = regions[path].id
           /\ nodes[path].pos = regions[path].pos
           /\ \A key \in {"path", "tag", "from", "to"} :
                regions[path][key] = nodes[path][key]
      /\ groups = GroupMovePaths([path \in DOMAIN regions |-> regions[path].id])
      /\ \A id \in DOMAIN groups : Cardinality(groups[id]) >= 2

TreeMovesMatchXml(doc, visualized, include) ==
  /\ RegionsCollect(doc, include)
  /\ NodesMatchRegions(TreeMoveNodes(doc, visualized), XmlMoveRegions(doc, include))
=============================================================================
