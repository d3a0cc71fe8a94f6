---------------------------- MODULE SourceRenderer ----------------------------
(* The two revisions' sources, read off the annotated document, and for each *)
(* element the span of each source it stands for.                            *)
EXTENDS SrcDiffDocument

ActiveRevisions(tag, parentRevisions) ==
  CASE tag = "diff:delete" -> {REVISION_0}
    [] tag = "diff:insert" -> {REVISION_1}
    [] tag = "diff:common" -> ALL_REVISIONS
    [] OTHER -> parentRevisions

EmitText(out, text, revisions) ==
  [out EXCEPT !.buffer = [r \in ALL_REVISIONS |->
                            IF r \in revisions THEN @[r] \o text ELSE @[r]]]

(* Where each element begins and ends in the buffer of a revision; one that  *)
(* adds nothing to it has no range.                                          *)
RECURSIVE RenderElement(_, _, _, _, _)
RenderElement(doc, el, include, parentRevisions, out) ==
  LET revisions == ActiveRevisions(doc[el].tag, parentRevisions)
      Child(acc, child) ==
        EmitText(RenderElement(doc, child, include, revisions, acc), doc[child].tail, revisions)
      Close(done) == [done EXCEPT !.ranges = [r \in ALL_REVISIONS |->
        IF r \in revisions /\ Len(done.buffer[r]) > Len(out.buffer[r])
        THEN (Paths(doc)[el] :> <<Len(out.buffer[r]), Len(done.buffer[r])>>) @@ @[r] ELSE @[r]]]
  IN  Close(FoldLeft(Child, EmitText(out, doc[el].text, revisions),
                     KeptChildren(doc, el, include)))

RangesToSpans(ranges, source) ==
  LET starts == ComputeLineStarts(source)
  IN  [path \in DOMAIN ranges |-> OffsetRangeToSpan(ranges[path], starts)]

RenderUnitSources(doc, unit, include) ==
  LET none == [buffer |-> [r \in ALL_REVISIONS |-> <<>>],
               ranges |-> [r \in ALL_REVISIONS |-> <<>>]]
      Rendered(out) == [source |-> out.buffer,
                        spans |-> [r \in ALL_REVISIONS |->
                                     RangesToSpans(out.ranges[r], out.buffer[r])]]
  IN  Rendered(RenderElement(doc, unit, include, ALL_REVISIONS, none))

(* render_revision_files asserts one revision file per unit; the names and   *)
(* the language of a file are the revision file's, its sources the rendered. *)
RendersFiles(doc, files) == Len(FileUnits(doc)) = Len(files)

RenderRevisionFiles(doc, files, include) ==
  LET Rendered(n, unit) == [file |-> [files[n] EXCEPT !.unit = n, !.source = unit.source],
                            spans |-> unit.spans]
  IN  [n \in DOMAIN files |->
         Rendered(n, RenderUnitSources(doc, FileUnits(doc)[n], include))]
=============================================================================
