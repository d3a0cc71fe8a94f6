------------------------------ MODULE MoveResults ------------------------------
(* The moves of an annotated document: the regions that carry an annotation, *)
(* the results srcMove reports about them, and how the two are compared,     *)
(* reconstructed from one another and merged.                                *)
(*                                                                           *)
(* Results are [moves, count, merged, meta]. `meta` holds what a producer    *)
(* says beside its moves; `merged` tells that it came in as the "producer    *)
(* metadata" of reconstructed results.  Where the code raises, an operator   *)
(* of its own states the condition under which it does not.                  *)
EXTENDS AnnotatedTree

CONTENT_RELATIONSHIPS == {"type1", "type2c", "type3"}

NoMeta == [schema |-> 0, count |-> 0, relationships |-> <<>>, reported |-> FALSE,
           reports |-> <<>>, reportCount |-> 0, reportRelationships |-> <<>>,
           diagnostics |-> 0, candidates |-> <<>>, pairs |-> <<>>,
           locations |-> <<>>]

CountRelationships(moves) ==
  [t \in CONTENT_RELATIONSHIPS |->
     Cardinality({k \in DOMAIN moves : moves[k].relationship = t})]

(* Paths are sorted as the strings they are: by name, then by number.        *)
NameOrder == <<"call", "diff:common", "diff:delete", "diff:insert", "diff:ws",
               "expr", "unit">>
StepKey(step) == <<CHOOSE k \in DOMAIN NameOrder : NameOrder[k] = step[1], step[2]>>

PathBefore(p, q) ==
  \/ IsStrictPrefix(p, q)
  \/ \E k \in DOMAIN p \cap DOMAIN q :
       LET Less(a, b) == a[1] < b[1] \/ (a[1] = b[1] /\ a[2] < b[2])
       IN  /\ SubSeq(p, 1, k - 1) = SubSeq(q, 1, k - 1)
           /\ Less(StepKey(p[k]), StepKey(q[k]))

SortedPaths(paths) == Sorted(paths, PathBefore)

-----------------------------------------------------------------------------
(* Producer paths may name a unit by its file and may prefix element names   *)
(* with "src:"; internal paths do neither.                                   *)

(* build_filename_to_unit_index: a name two units share stands for none.     *)
UnitsNamed(doc, name) ==
  {n \in DOMAIN FileUnits(doc) : doc[FileUnits(doc)[n]].filename = name}

PathResolves(doc, path) ==
  Head(path)[1] = "file" => Cardinality(UnitsNamed(doc, Head(path)[2])) = 1

SourcePrefixed == [name \in {"src:expr", "src:call"} |->
                     IF name = "src:expr" THEN "expr" ELSE "call"]

NormalizePath(doc, path) ==
  LET unit == IF Head(path)[1] # "file" THEN Head(path)
              ELSE <<"unit", CHOOSE n \in UnitsNamed(doc, Head(path)[2]) : TRUE>>
      Plain(step) == IF step[1] \in DOMAIN SourcePrefixed
                     THEN <<SourcePrefixed[step[1]], step[2]>> ELSE step
  IN  <<unit>> \o [k \in DOMAIN Tail(path) |-> Plain(Tail(path)[k])]

NormalizePaths(doc, paths) == [k \in DOMAIN paths |-> NormalizePath(doc, paths[k])]
PathsResolve(doc, paths) == \A k \in DOMAIN paths : PathResolves(doc, paths[k])

-----------------------------------------------------------------------------
(* The annotated regions of a document, by path.                             *)

RegionsCollect(doc, include) ==
  \A entry \in ToSet(Walk(doc, include)) :
    LET e == doc[entry.el]
    IN  /\ AttributesParse(e)
        /\ PathsResolve(doc, e.from) /\ PathsResolve(doc, e.to)

XmlMoveRegions(doc, include) ==
  LET Region(e, entry) ==
        [path |-> entry.path, tag |-> e.tag, id |-> MoveId(e),
         rawText |-> RawText(doc, entry.el), pos |-> e.pos,
         from |-> NormalizePaths(doc, e.from), to |-> NormalizePaths(doc, e.to)]
      Collect(regions, entry) ==
        IF HasMove(doc[entry.el])
        THEN (entry.path :> Region(doc[entry.el], entry)) @@ regions ELSE regions
  IN  FoldLeft(Collect, <<>>, Walk(doc, include))

(* Which end of its move a region is; "none" where the code refuses it.      *)
RegionSide(region) ==
  CASE region.from # <<>> /\ region.to # <<>> -> "none"
    [] region.to # <<>> -> "from"
    [] region.from # <<>> -> "to"
    [] region.tag = "diff:delete" -> "from"
    [] region.tag = "diff:insert" -> "to"
    [] OTHER -> "none"

SidesAreKnown(regions) ==
  \A path \in DOMAIN regions : RegionSide(regions[path]) # "none"

MoveIds(regions) == {regions[path].id : path \in DOMAIN regions}

EndPaths(regions, id, side) ==
  {path \in DOMAIN regions :
     regions[path].id = id /\ RegionSide(regions[path]) = side}

(* has_srcmove_annotations: mv:id alone counts.                              *)
HasSrcMoveAnnotations(doc) == \E el \in DOMAIN doc : doc[el].id # 0

-----------------------------------------------------------------------------
(* What results must satisfy on their own.                                   *)

(* validate_producer_results                                                 *)
ProducerResultsAreValid(results) ==
  /\ results.meta.schema = 2
  /\ \A k \in DOMAIN results.moves :
       results.moves[k].relationship \in CONTENT_RELATIONSHIPS
  /\ results.meta.relationships = CountRelationships(results.moves)

(* parse_srcmove_result_moves                                                *)
ResultsParse(doc, results) ==
  LET moves == results.moves
  IN  /\ \A k \in DOMAIN moves :
           /\ moves[k].relationship \in CONTENT_RELATIONSHIPS \cup {""}
           /\ moves[k].id # 0
           /\ moves[k].from # <<>> /\ Len(moves[k].from) = Len(moves[k].fromTexts)
           /\ moves[k].to # <<>> /\ Len(moves[k].to) = Len(moves[k].toTexts)
           /\ PathsResolve(doc, moves[k].from) /\ PathsResolve(doc, moves[k].to)
      /\ \A j, k \in DOMAIN moves : moves[j].id = moves[k].id => j = k

ParsedMoves(doc, results) ==
  [k \in DOMAIN results.moves |->
     [results.moves[k] EXCEPT !.from = NormalizePaths(doc, @),
                              !.to = NormalizePaths(doc, @)]]

-----------------------------------------------------------------------------
(* Results compared with the regions of the document they describe.          *)

TextsOf(regions, paths) == [k \in DOMAIN paths |-> regions[paths[k]].rawText]

SameBag(s, t) ==
  /\ Len(s) = Len(t)
  /\ \A x \in ToSet(s) : Len(SelectSeq(s, LAMBDA y : y = x))
                         = Len(SelectSeq(t, LAMBDA y : y = x))

(* _validate_srcmove_result_move_by_id: as many regions with the id on each  *)
(* side as the move has paths, each naming the other side, the same texts.   *)
MoveMatchesById(move, regions) ==
  LET Side(paths, own, texts, other) ==
        /\ Len(paths) = Len(move[own])
        /\ \A k \in DOMAIN paths : ToSet(regions[paths[k]][other]) = ToSet(move[other])
        /\ SameBag(TextsOf(regions, paths), move[texts])
      End(side) == SortedPaths(EndPaths(regions, move.id, side))
  IN  /\ \A path \in DOMAIN regions :
           regions[path].id = move.id => RegionSide(regions[path]) # "none"
      /\ Side(End("from"), "from", "fromTexts", "to")
      /\ Side(End("to"), "to", "toTexts", "from")

(* validate_single_srcmove_result_move: path by path.                        *)
MoveMatchesByPath(move, regions) ==
  LET End(path, side) == /\ path \in DOMAIN regions
                         /\ regions[path].id = move.id
                         /\ RegionSide(regions[path]) = side
  IN  /\ \A k \in DOMAIN move.from :
           /\ End(move.from[k], "from")
           /\ ToSet(regions[move.from[k]].to) = ToSet(move.to)
           /\ regions[move.from[k]].rawText = move.fromTexts[k]
      /\ \A k \in DOMAIN move.to :
           /\ End(move.to[k], "to")
           /\ ToSet(regions[move.to[k]].from) = ToSet(move.from)
           /\ regions[move.to[k]].rawText = move.toTexts[k]

(* validate_srcmove_results_match_xml                                        *)
MovesMatchRegions(moves, regions, additional) ==
  LET ids == {moves[k].id : k \in DOMAIN moves}
      paths == UNION {ToSet(moves[k].from) \cup ToSet(moves[k].to) : k \in DOMAIN moves}
  IN  /\ ids \subseteq MoveIds(regions)
      /\ additional \/ (MoveIds(regions) \subseteq ids /\ paths = DOMAIN regions)
      /\ \A k \in DOMAIN moves :
           IF additional THEN MoveMatchesById(moves[k], regions)
           ELSE MoveMatchesByPath(moves[k], regions)

ResultsMatchXml(doc, results, include, additional, contract) ==
  /\ contract => ProducerResultsAreValid(results)
  /\ ResultsParse(doc, results)
  /\ RegionsCollect(doc, include)
  /\ results.count = Len(results.moves)
  /\ MovesMatchRegions(ParsedMoves(doc, results), XmlMoveRegions(doc, include), additional)

-----------------------------------------------------------------------------
(* build_move_results_from_moved_srcdiff: a move for every id, its regions   *)
(* sorted by path; an id without a region on each side is refused.           *)

Reconstructs(doc, include) ==
  LET BothSides(regions) ==
        /\ SidesAreKnown(regions)
        /\ \A id \in MoveIds(regions) : \A side \in {"from", "to"} :
             EndPaths(regions, id, side) # {}
  IN  RegionsCollect(doc, include) /\ BothSides(XmlMoveRegions(doc, include))

MoveOfRegions(regions, id, from, to) ==
  [id |-> id, relationship |-> "", from |-> from, to |-> to,
   fromTexts |-> TextsOf(regions, from), toTexts |-> TextsOf(regions, to),
   fromNodes |-> <<>>, toNodes |-> <<>>,
   provenance |-> "", kind |-> "", members |-> <<>>]

ReconstructResults(doc, include) ==
  LET Move(regions, id) ==
        MoveOfRegions(regions, id, SortedPaths(EndPaths(regions, id, "from")),
                      SortedPaths(EndPaths(regions, id, "to")))
      Moves(regions, ids) == [k \in DOMAIN ids |-> Move(regions, ids[k])]
      Results(moves) == [moves |-> moves, count |-> Len(moves),
                         merged |-> FALSE, meta |-> NoMeta]
      All(regions) == Results(Moves(regions, Sorted(MoveIds(regions), <)))
  IN  All(XmlMoveRegions(doc, include))
=============================================================================
