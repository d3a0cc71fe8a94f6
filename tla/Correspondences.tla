---------------------------- MODULE Correspondences ----------------------------
(* Diagnostics on request: srcMove's candidates and the pairs it considered. *)
(* A candidate is placed in the sources where its path, its text and both    *)
(* renderings of its file leave no doubt, and nowhere otherwise.             *)
EXTENDS ArtifactIndex, SourceRenderer

NoPlace == [unit |-> 0, span |-> NoSpan]

(* findall: names carry their prefix, a unit may be named by its file.       *)
IsPrefixed(path) ==
  \A k \in 2..Len(path) : path[k][1] \notin Range(SourcePrefixed)

Resolve(doc, path) ==
  {entry \in ToSet(Walk(doc, TRUE)) :
     /\ IsPrefixed(path)
     /\ NormalizePath(doc, <<Head(entry.path)>> \o Tail(path)) = entry.path
     /\ \/ Head(path) = Head(entry.path)
        \/ /\ Head(path)[1] = "file"
           /\ doc[FileUnits(doc)[Head(entry.path)[2]]].filename = Head(path)[2]}

(* add_correspondence_locations: found in the document before the move       *)
(* detector annotated it, in a file whose text the annotation left alone.    *)
RenderUnit(doc, n) == RenderUnitSources(doc, FileUnits(doc)[n], TRUE)

\* Mutant: the moved document's text is not compared.
UnchangedAlways(original, moved, unit, revision) == TRUE

Unchanged(original, moved, unit, revision) ==
  /\ unit \in DOMAIN FileUnits(moved)
  /\ RenderUnit(original, unit).source[revision]
       = RenderUnit(moved, unit).source[revision]

Locate(original, moved, candidate) ==
  LET revision == IF candidate.side = "delete" THEN REVISION_0 ELSE REVISION_1
      Reads(source, span) == CutBySpan(source, span, {"n", "f"}) = candidate.rawText
      Place(path, unit, source, spans) ==
        IF /\ path \in DOMAIN spans
           /\ Unchanged(original, moved, unit, revision)
           /\ Reads(source, spans[path])
        THEN [unit |-> unit, span |-> spans[path]] ELSE NoPlace
      In(path, rendered) ==
        Place(path, Head(path)[2], rendered.source[revision], rendered.spans[revision])
      Among(matches) ==
        IF Cardinality(matches) # 1 THEN NoPlace
        ELSE LET path == (CHOOSE entry \in matches : TRUE).path
             IN  In(path, RenderUnit(original, Head(path)[2]))
  IN  Among(Resolve(original, candidate.path))

DIAGNOSTICS_VERSION == 4

CandidateIds(candidates) == {candidates[k].id : k \in DOMAIN candidates}

LastWithId(candidates, id) ==
  candidates[Max({k \in DOMAIN candidates : candidates[k].id = id})]

AddLocations(original, moved, results) ==
  LET candidates == results.meta.candidates
  IN  IF results.meta.diagnostics # DIAGNOSTICS_VERSION THEN results
      ELSE [results EXCEPT !.meta.locations =
              [id \in CandidateIds(candidates) |->
                 Locate(original, moved, LastWithId(candidates, id))]]

-----------------------------------------------------------------------------
(* Reading them back from a published artifact.                              *)

EndpointSide == [delete |-> "delete", insert |-> "insert"]

(* _read_diagnostics: candidates are told apart by id, and a pair is of a    *)
(* deleted and an inserted one.                                              *)
DiagnosticsAreSound(meta) ==
  /\ meta.diagnostics = DIAGNOSTICS_VERSION
  /\ Cardinality(CandidateIds(meta.candidates)) = Len(meta.candidates)
  /\ \A k \in DOMAIN meta.pairs : \A end \in DOMAIN EndpointSide :
       LET id == meta.pairs[k][end]
       IN  /\ id \in CandidateIds(meta.candidates)
           /\ LastWithId(meta.candidates, id).side = EndpointSide[end]

Diagnostics(artifact) == artifact.index.results.meta

HasDiagnostics(artifact) == Diagnostics(artifact).diagnostics # 0

(* A located candidate names its file by the artifact's id.                  *)
Location(artifact, id) ==
  LET locations == Diagnostics(artifact).locations
      files == {f \in ToSet(artifact.index.files) : f.unit = locations[id].unit}
  IN  IF id \notin DOMAIN locations \/ locations[id] = NoPlace \/ files = {}
      THEN [file |-> <<>>, span |-> NoSpan]
      ELSE [file |-> (CHOOSE f \in files : TRUE).id, span |-> locations[id].span]

AnyOf == "any"

(* read_correspondences: a page of the pairs that pass the filters.          *)
MatchingPairs(artifact, filter) ==
  LET pairs == Diagnostics(artifact).pairs
      Matches(pair) ==
        \A key \in {"kind", "change", "outcome"} : filter[key] \in {AnyOf, pair[key]}
  IN  SelectSeq([k \in DOMAIN pairs |-> k], LAMBDA k : Matches(pairs[k]))

CorrespondencePage(artifact, offset, limit, filter) ==
  LET meta == Diagnostics(artifact)
      matched == MatchingPairs(artifact, filter)
      page == SubSeq(matched, offset + 1, Min({offset + limit, Len(matched)}))
      Item(k) == [id |-> k, before |-> Location(artifact, meta.pairs[k].delete),
                  after |-> Location(artifact, meta.pairs[k].insert)]
  IN  [items |-> [k \in DOMAIN page |-> Item(page[k])],
       total |-> Len(meta.pairs), matched |-> Len(matched),
       next |-> IF offset + limit < Len(matched) THEN offset + limit ELSE -1]

(* read_correspondence: the pair with what its two candidates say.           *)
HasCorrespondence(artifact, k) ==
  HasDiagnostics(artifact) /\ k \in DOMAIN Diagnostics(artifact).pairs

Correspondence(artifact, k) ==
  LET meta == Diagnostics(artifact)
      Endpoint(id) == [candidate |-> LastWithId(meta.candidates, id),
                       location |-> Location(artifact, id)]
  IN  [before |-> Endpoint(meta.pairs[k].delete),
       after |-> Endpoint(meta.pairs[k].insert)]
=============================================================================
