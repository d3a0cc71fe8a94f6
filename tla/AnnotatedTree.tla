----------------------------- MODULE AnnotatedTree -----------------------------
(* The tree shown for each file unit: one node for every element the walk    *)
(* meets, with its kind, its move, and the spans it stands for.  A tree is   *)
(* the sequence of its nodes in document order, a node naming its parent by  *)
(* position.  A failed assertion of the builder is a tree that does not      *)
(* build: the conditions are gathered in TreeBuilds.                         *)
EXTENDS SrcDiffDocument, NodeRows

\* Mutant: a moved region is shown as a deletion or an insertion.
NodeKindOfDiff(tag, moveId) ==
  CASE DiffKind(tag) # "none" -> DiffKind(tag)
    [] moveId # 0 -> "move"
    [] OTHER -> "plain"

NodeKind(tag, moveId) ==
  CASE moveId # 0 -> "move"
    [] DiffKind(tag) # "none" -> DiffKind(tag)
    [] OTHER -> "plain"

(* parse_move_attributes: mv:id names the move, or else the "move" attribute *)
MoveId(e) == IF e.id # 0 THEN e.id ELSE e.plain
HasMove(e) == MoveId(e) # 0

(* mv:from and mv:to only stand beside an id.                                *)
AttributesParse(e) == e.from # <<>> \/ e.to # <<>> => HasMove(e)

(* spans_for_element: one position span stands for the node's own revision,  *)
(* or for both; two are the two revisions'.                                  *)
SpansForElement(e) ==
  LET first == IF e.pos = <<>> THEN NoSpan ELSE e.pos[1]
      last  == IF e.pos = <<>> THEN NoSpan ELSE e.pos[Len(e.pos)]
  IN  CASE DiffKind(e.tag) = "delete" -> <<first, NoSpan>>
        [] DiffKind(e.tag) = "insert" -> <<NoSpan, first>>
        [] OTHER -> <<first, last>>

MergesMissing(kind, revision) ==
  kind # (IF revision = REVISION_0 THEN "insert" ELSE "delete")

Before(l1, c1, l2, c2) == l1 < l2 \/ (l1 = l2 /\ c1 <= c2)

MergeSpans(spans) ==
  LET Join(start, end) == <<start[1], start[2], end[3], end[4]>>
  IN  IF spans = {} THEN NoSpan
      ELSE Join(CHOOSE s \in spans : \A t \in spans : Before(s[1], s[2], t[1], t[2]),
                CHOOSE s \in spans : \A t \in spans : Before(t[3], t[4], s[3], s[4]))

(* A node's own position in a revision, or else its children's from first to *)
(* last.                                                                     *)
NodePositions(doc, revision, include) ==
  LET Or(own, el, below) ==
        IF own = NoSpan /\ MergesMissing(DiffKind(doc[el].tag), revision)
        THEN MergeSpans(below \ {NoSpan}) ELSE own
      position[el \in DOMAIN doc] ==
        Or(SpansForElement(doc[el])[revision + 1], el,
           {position[c] : c \in ToSet(KeptChildren(doc, el, include))})
  IN  position

PositionsBelow(doc, el, revision, include) ==
  {NodePositions(doc, revision, include)[c] : c \in ToSet(KeptChildren(doc, el, include))}
    \ {NoSpan}

(* assert_expected_spans: which revisions the node and its children may have *)
(* a position in, and how many spans a position is made of.                  *)
ExpectedSpans(kind, own, below) ==
  own \cup below # {} =>
    CASE kind = "delete" -> own = {REVISION_0}
      [] kind = "insert" -> own = {REVISION_1}
      [] OTHER -> below \subseteq own

SpansAreExpected(doc, el, include) ==
  /\ doc[el].tag \in {"diff:delete", "diff:insert"} \/ Len(doc[el].pos) <= 2
  /\ ExpectedSpans(DiffKind(doc[el].tag),
       {r \in ALL_REVISIONS : NodePositions(doc, r, include)[el] # NoSpan},
       {r \in ALL_REVISIONS : PositionsBelow(doc, el, r, include) # {}})

TreeBuilds(doc, include) ==
  \A entry \in ToSet(Walk(doc, include)) : /\ AttributesParse(doc[entry.el])
                                          /\ SpansAreExpected(doc, entry.el, include)

TreeOfWalk(doc, walk, xmlSpans, include) ==
  LET Node(k) ==
        LET e == doc[walk[k].el]
            path == walk[k].path
        IN  [path |-> path, tag |-> e.tag, filename |-> e.filename,
             kind |-> NodeKind(e.tag, MoveId(e)), moveId |-> MoveId(e),
             from |-> e.from, to |-> e.to, pos |-> e.pos,
             xmlSpan |-> IF path \in DOMAIN xmlSpans THEN xmlSpans[path] ELSE NoSpan,
             spans |-> <<NodePositions(doc, REVISION_0, include)[walk[k].el],
                         NodePositions(doc, REVISION_1, include)[walk[k].el]>>,
             parent |-> IF k = 1 THEN 0
                        ELSE CHOOSE j \in 1..(k - 1) : walk[j].path = Front(path)]
  IN  [k \in DOMAIN walk |-> Node(k)]

BuildTree(doc, n, include) ==
  TreeOfWalk(doc, WalkUnit(doc, n, include), BuildXmlSpanIndex(doc, include), include)

TreeHasPositions(tree) ==
  \E k \in DOMAIN tree : \E r \in 1..2 : tree[k].spans[r] # NoSpan

(* build_tree_index: the trees by unit, and whether any node has a position. *)
BuildTreeIndex(doc, include) ==
  LET Index(trees) == [trees |-> trees,
                       hasPositions |-> \E n \in DOMAIN trees : TreeHasPositions(trees[n])]
  IN  Index([n \in DOMAIN FileUnits(doc) |-> BuildTree(doc, n, include)])

-----------------------------------------------------------------------------
(* The files shown: a revision file with its tree.                           *)

(* build_visualized_files: every unit is named and has its revision file.    *)
FilesBuild(doc, files) ==
  \A n \in DOMAIN FileUnits(doc) :
    /\ doc[FileUnits(doc)[n]].filename # <<>>
    /\ Cardinality({k \in DOMAIN files : files[k].unit = n}) = 1

BuildVisualizedFiles(doc, files, trees) ==
  [n \in DOMAIN FileUnits(doc) |->
     LET owner == files[CHOOSE k \in DOMAIN files : files[k].unit = n]
     IN  [file |-> [owner EXCEPT !.unit = n,
                                 !.filename = doc[FileUnits(doc)[n]].filename],
          tree |-> trees[n]]]

(* _apply_tree_spans: a node's spans are the rendered ones of its path.      *)
ApplyTreeSpans(tree, spans) ==
  LET Span(path, r) == IF path \in DOMAIN spans[r] THEN spans[r][path] ELSE NoSpan
  IN  [k \in DOMAIN tree |-> [tree[k] EXCEPT
         !.spans = <<Span(tree[k].path, REVISION_0), Span(tree[k].path, REVISION_1)>>]]

ApplyRenderedSourceSpans(visualized, rendered) ==
  [n \in DOMAIN visualized |->
     [file |-> rendered[n].file,
      tree |-> ApplyTreeSpans(visualized[n].tree, rendered[n].spans)]]

(* validate_unit_tree.py: units, revision files and shown files correspond.  *)
UnitsMatchFiles(doc, files, visualized) ==
  /\ Len(FileUnits(doc)) = Len(files) /\ Len(visualized) = Len(files)
  /\ \A n \in DOMAIN visualized :
       LET name == doc[FileUnits(doc)[n]].filename
       IN  /\ visualized[n].file.unit = n
           /\ visualized[n].file.filename = name
           /\ visualized[n].tree[1].path = UnitPath(n)
           /\ visualized[n].tree[1].filename = name

(* assert_xml_tree_paths_match                                               *)
TreePaths(visualized) ==
  UNION {{visualized[n].tree[k].path : k \in DOMAIN visualized[n].tree}
         : n \in DOMAIN visualized}

XmlTreePathsMatch(doc, visualized, include) ==
  DOMAIN BuildXmlSpanIndex(doc, include) = TreePaths(visualized)

(* validate_visualization_payload, for a payload of this shape: the files    *)
(* are numbered in order, and no span ends before it starts.                 *)
SpanIsOrdered(span) ==
  CASE span = NoSpan -> TRUE
    [] Len(span) = 2 -> span[1] <= span[2]
    [] OTHER -> Before(span[1], span[2], span[3], span[4])

PayloadIsValid(visualized) ==
  \A n \in DOMAIN visualized :
    /\ visualized[n].file.unit = n
    /\ \A k \in DOMAIN visualized[n].tree :
         LET node == visualized[n].tree[k]
         IN  /\ node.kind \in {"plain", "common", "insert", "delete", "move"}
             /\ SpanIsOrdered(node.xmlSpan)
             /\ SpanIsOrdered(node.spans[1]) /\ SpanIsOrdered(node.spans[2])
=============================================================================
