----------------------------- MODULE BuildPipeline -----------------------------
(* build_visualization_artifact: from an uploaded srcDiff document to a      *)
(* published artifact.  The stages follow the code's order; each may refuse  *)
(* what it is given, and then nothing is published.                          *)
EXTENDS Correspondences, MetadataRestore, RevisionArchive, Publication

CONSTANTS
  Requests,        \* [doc, producer, retained, diagnostics, validate, strict]
  Regenerate(_),   \* external: srcDiff's documents, with positions, for a layout
  Detect(_, _)     \* external: srcMove's [doc, results] for a document

NoProducer == [moves |-> <<>>, count |-> -1, merged |-> FALSE, meta |-> NoMeta]

VARIABLES
  request,     \* the call's arguments
  stage,       \* the stage about to be run, or "published"
  refused,     \* whether that stage refused
  positioned,  \* the document srcMove is run on
  files,       \* the revision files extracted
  layout,      \* the sources in the two revision directories
  results,     \* move_results
  generated    \* whether srcMove made them just now

vars == <<request, stage, refused, positioned, files, layout, xml, results, generated,
          visualized, artifact>>

ArtifactId == "artifact"

Init ==
  /\ request \in Requests
  /\ stage = (IF request.retained THEN "annotate" ELSE "extract")
  /\ refused = FALSE /\ generated = FALSE
  /\ positioned = <<>> /\ files = <<>> /\ layout = <<>>
  /\ xml = <<>> /\ visualized = <<>>
  /\ results = NoProducer /\ artifact = NoArtifact

At(name) == stage = name /\ ~refused

Go(ok, next) == /\ stage' = IF ok THEN next ELSE stage
                /\ refused' = ~ok

HasProducer == request.producer # NoProducer

(* visualize_benchmark_case: the results kept beside a document are written  *)
(* back onto it before it is built from like an upload with those results.   *)
AnnotateCase ==
  /\ At("annotate")
  /\ LET ok == RetainedAnnotates(request.doc, request.producer)
     IN  /\ Go(ok, "extract")
         /\ request' = IF ok THEN [request EXCEPT !.doc = AnnotateRetained(@, request.producer)]
                       ELSE request
  /\ UNCHANGED <<positioned, files, layout, xml, results, generated, visualized, artifact>>

(* A document without units is refused.                                      *)
Extract ==
  /\ At("extract")
  /\ LET ok == Extracts(request.doc)
     IN  /\ Go(ok, "prepare")
         /\ files' = IF ok THEN ExtractedFiles(request.doc) ELSE <<>>
         /\ layout' = IF ok THEN ExtractedLayout(request.doc) ELSE <<>>
  /\ UNCHANGED <<request, positioned, xml, results, generated, visualized, artifact>>

(* has_position_annotations                                                  *)
HasPositions(doc) == \E el \in DOMAIN doc : doc[el].pos # <<>>

UsesAnnotations == HasProducer \/ HasSrcMoveAnnotations(request.doc)

(* build_moved_srcdiff_xml: an annotated document is taken as it is,         *)
UseAnnotations ==
  /\ At("prepare") /\ UsesAnnotations
  /\ LET ok == ~request.diagnostics /\ Reconstructs(request.doc, TRUE)
     IN  /\ Go(ok, "merge")
         /\ results' = IF ok THEN ReconstructResults(request.doc, TRUE) ELSE results
  /\ xml' = request.doc
  /\ UNCHANGED <<request, positioned, files, layout, generated, visualized, artifact>>

(* one with positions is given to srcMove,                                   *)
UsePositions ==
  /\ At("prepare") /\ ~UsesAnnotations /\ HasPositions(request.doc)
  /\ positioned' = request.doc
  /\ Go(TRUE, "detect")
  /\ UNCHANGED <<request, files, layout, xml, results, generated, visualized, artifact>>

(* and any other is first made again with positions.                         *)
RunSrcDiff ==
  /\ At("prepare") /\ ~UsesAnnotations /\ ~HasPositions(request.doc)
  /\ \E again \in Regenerate(layout) :
       LET ok == Restores(request.doc, again)
       IN  /\ Go(ok, "detect")
           /\ positioned' = IF ok THEN RestoreMetadata(request.doc, again) ELSE <<>>
  /\ UNCHANGED <<request, files, layout, xml, results, generated, visualized, artifact>>

RunSrcMove ==
  /\ At("detect")
  /\ \E found \in Detect(positioned, request.diagnostics) :
       /\ xml' = found.doc
       /\ results' = IF request.diagnostics
                     THEN AddLocations(positioned, found.doc, found.results)
                     ELSE found.results
  /\ generated' = TRUE
  /\ Go(TRUE, "merge")
  /\ UNCHANGED <<request, positioned, files, layout, visualized, artifact>>

(* The results of srcMove, or those given with the upload, must match the    *)
(* document and are merged with what it says itself; without either, strict  *)
(* validation compares the reconstructed results with it.                    *)
MergeResults ==
  /\ At("merge")
  /\ LET claimed == IF HasProducer THEN request.producer ELSE results
         merges == generated \/ HasProducer
         ok == IF merges
               THEN /\ ResultsMatchXml(xml, claimed, TRUE, TRUE, TRUE)
                    /\ Merges(xml, claimed, TRUE)
               ELSE request.strict => ResultsMatchXml(xml, results, TRUE, FALSE, FALSE)
     IN  /\ Go(ok, "trees")
         /\ results' = IF ok /\ merges THEN MergeProducerResults(xml, claimed, TRUE)
                       ELSE results
  /\ UNCHANGED <<request, positioned, files, layout, xml, generated, visualized, artifact>>

(* The trees, the shown files, and the sources with the spans in them.       *)
BuildTrees ==
  /\ At("trees")
  /\ LET ok == /\ request.validate => XmlSpanIndexIsValid(xml, BuildXmlSpanIndex(xml, TRUE))
               /\ TreeBuilds(xml, TRUE)
               /\ FilesBuild(xml, files)
               /\ RendersFiles(xml, files)
     IN  /\ Go(ok, "validate")
         /\ visualized' = IF ok THEN Visualized(xml, files, RenderRevisionFiles(xml, files, TRUE))
                          ELSE <<>>
  /\ UNCHANGED <<request, positioned, files, layout, xml, results, generated, artifact>>

(* validate_moved_srcdiff_and_tree                                           *)
ValidateTrees ==
  /\ At("validate")
  /\ Go(request.validate => /\ UnitsMatchFiles(xml, files, visualized)
                            /\ TreeMovesMatchXml(xml, visualized, TRUE)
                            /\ XmlTreePathsMatch(xml, visualized, TRUE),
        "augment")
  /\ UNCHANGED <<request, positioned, files, layout, xml, results, generated, visualized, artifact>>

AugmentResults ==
  /\ At("augment")
  /\ LET ok == Augments(xml, results)
     IN  /\ Go(ok /\ (request.validate => PayloadIsValid(visualized)), "publish")
         /\ results' = IF ok THEN AugmentWithNodes(xml, results) ELSE results
  /\ UNCHANGED <<request, positioned, files, layout, xml, generated, visualized, artifact>>

(* publish_artifact, seen as one step: ArtifactCollection interleaves it.    *)
Publish ==
  /\ At("publish")
  /\ artifact' = IF SummariesBuild(results, BuildIndexRecords(visualized).nodeIds)
                  THEN WriteArtifact(ArtifactId, xml, results, visualized)
                  ELSE NoArtifact
  /\ Go(artifact' # NoArtifact /\ ArtifactIsValid(artifact', ArtifactId), "published")
  /\ UNCHANGED <<request, positioned, files, layout, xml, results, generated, visualized>>

Next == \/ AnnotateCase \/ Extract
        \/ UseAnnotations \/ UsePositions \/ RunSrcDiff \/ RunSrcMove
        \/ MergeResults \/ BuildTrees \/ ValidateTrees \/ AugmentResults \/ Publish

Spec == Init /\ [][Next]_vars

-----------------------------------------------------------------------------
Built == visualized # <<>>

Shown(n) == DOMAIN visualized[n].tree

(* A revision's text beneath an element: an element inside a deleted or an   *)
(* inserted one belongs to that revision alone.                              *)
RECURSIVE TextOf(_, _, _, _)
TextOf(doc, el, r, inside) ==
  LET active == ActiveRevisions(doc[el].tag, inside)
      Own(text) == IF r \in active THEN text ELSE <<>>
      children == Children(doc, el)
  IN  Own(doc[el].text)
      \o FlattenSeq([k \in DOMAIN children |->
           TextOf(doc, children[k], r, active) \o Own(doc[children[k]].tail)])

RECURSIVE RevisionsAt(_, _)
RevisionsAt(doc, el) ==
  IF el = 0 \/ doc[el].tag = "unit" THEN ALL_REVISIONS
  ELSE ActiveRevisions(doc[el].tag, RevisionsAt(doc, doc[el].parent))

(* The lines and columns of a node's span, read in the source of that        *)
(* revision, are exactly the text the annotated XML has beneath the element; *)
(* a node has no span in a revision it does not belong to or has no text in. *)
(* (_source_renderer.py)                                                     *)
SpansCoverTheirText ==
  \A n \in DOMAIN visualized :
    LET walk == WalkUnit(xml, n, TRUE)
    IN  \A k \in Shown(n) : \A r \in ALL_REVISIONS :
          LET span == visualized[n].tree[k].spans[r + 1]
              el == walk[k].el
              text == TextOf(xml, el, r, RevisionsAt(xml, xml[el].parent))
          IN  IF r \notin RevisionsAt(xml, el) \/ text = <<>> THEN span = NoSpan
              ELSE /\ span # NoSpan
                   /\ CutBySpan(visualized[n].file.source[r], span, {"n"}) = text

SoundProducer == ~results.meta.reported \/ ReportsAreSound(results)

(* Some move of the results has all its ends within diff:ws.                 *)
SomeMoveIsSkipped ==
  LET ends(id) == {el \in DOMAIN xml : MoveId(xml[el]) = id}
      Skipped(el) == \E a \in Above(xml)[el] : xml[a].tag \in SKIPPED_TREE_TAGS
  IN  \E k \in DOMAIN results.moves : \A el \in ends(results.moves[k].id) : Skipped(el)

(* What the build accepted can be published: trees that were built are never *)
(* found to differ from the XML and its moves; giving the moves their nodes  *)
(* refuses a move that lies wholly within diff:ws, which every stage before  *)
(* accepts, and nothing else; publication refuses only unsound reports; and  *)
(* results written back onto the document of a benchmark case are those it   *)
(* is found to have.  (workflow/payload.py, move_result_enrichment.py)       *)
AcceptedIsPublished ==
  /\ refused => \/ stage \in {"annotate", "extract", "trees"}
                \/ stage \in {"prepare", "merge"} /\ ~request.retained
                \/ stage = "augment" /\ SomeMoveIsSkipped
                \/ stage = "publish" /\ ~SoundProducer
  /\ stage \in {"publish", "published"} => ~SomeMoveIsSkipped

(* docs/Rules.md: generating positions "must preserve the original tags,     *)
(* order, attributes, text, and source metadata" -- here of every file unit. *)
UnitsKeepTheirText ==
  positioned # <<>> =>
    LET uploaded == FileUnits(request.doc)
        kept == FileUnits(positioned)
    IN  /\ Len(kept) = Len(uploaded)
        /\ \A n \in DOMAIN uploaded :
             /\ positioned[kept[n]].filename = request.doc[uploaded[n]].filename
             /\ RenderUnit(positioned, n).source = RenderUnit(request.doc, n).source

(* The pairs on a page and on those after it.                                *)
RECURSIVE PagesFrom(_, _, _)
PagesFrom(offset, limit, filter) ==
  LET page == CorrespondencePage(artifact, offset, limit, filter)
  IN  page.items \o IF page.next = -1 THEN <<>> ELSE PagesFrom(page.next, limit, filter)

(* A published pair that srcMove considered is met once on the pages of a    *)
(* search that it matches, and its two ends are shown in the sources only    *)
(* where these read as the candidate does, whatever srcMove did to the       *)
(* document.  (correspondences.py, _correspondence_locations.py)             *)
CorrespondencesRead ==
  Published /\ DiagnosticsAreSound(Diagnostics(artifact)) =>
    LET meta == Diagnostics(artifact)
        pairs == meta.pairs
        ReadsAs(end, r) ==
          end.location.span # NoSpan =>
            CutBySpan(artifact.sources[end.location.file][r], end.location.span, {"n", "f"})
              = end.candidate.rawText
        Opens(item, opened) ==
          /\ item.before = opened.before.location /\ ReadsAs(opened.before, REVISION_0)
          /\ item.after = opened.after.location /\ ReadsAs(opened.after, REVISION_1)
    IN  \A limit \in 1..2 : \A kind \in {AnyOf} \cup {pairs[k].kind : k \in DOMAIN pairs} :
          LET items == PagesFrom(0, limit, [kind |-> kind, change |-> AnyOf,
                                            outcome |-> AnyOf])
          IN  /\ [i \in DOMAIN items |-> items[i].id]
                   = SelectSeq([k \in DOMAIN pairs |-> k],
                               LAMBDA k : kind \in {AnyOf, pairs[k].kind})
              /\ \A i \in DOMAIN items :
                   /\ HasCorrespondence(artifact, items[i].id)
                   /\ Opens(items[i], Correspondence(artifact, items[i].id))
=============================================================================
