--------------------------- MODULE SrcDiffDocument ---------------------------
(* A srcDiff document as the build reads it, with the paths it gives to the  *)
(* elements and the index of where each element stands in the XML text.      *)
(*                                                                           *)
(* A document is the sequence of its elements in document order; an element  *)
(* names its parent by position (0 at the root). Texts are sequences over a  *)
(* small alphabet in which "n" ends a line.  A path is the sequence of its   *)
(* steps <<name, number>>, the first one the file unit's.                    *)
EXTENDS SourceText

(* An element without attributes. `id` is mv:id, `plain` the srcDiff "move"  *)
(* attribute, 0 where the attribute is missing; `from` and `to` are the path *)
(* lists of mv:from and mv:to, `pos` the spans of pos:start and pos:end. A   *)
(* file name is the sequence of its paths, one or one for each revision.     *)
Element(tag, parent, text, tail) ==
  [tag |-> tag, parent |-> parent, text |-> text, tail |-> tail,
   filename |-> <<>>, id |-> 0, plain |-> 0, from |-> <<>>, to |-> <<>>,
   pos |-> <<>>]

SKIPPED_TREE_TAGS == {"diff:ws"}

Children(doc, el) ==
  SelectSeq([c \in DOMAIN doc |-> c], LAMBDA c : doc[c].parent = el)

(* An element and all those around it.                                       *)
Above(doc) ==
  LET above[el \in DOMAIN doc] ==
        {el} \cup (IF doc[el].parent = 0 THEN {} ELSE above[doc[el].parent])
  IN  above

(* An element and all those within it.                                       *)
ElementsIn(doc, top) ==
  LET above == Above(doc) IN {el \in DOMAIN doc : top \in above[el]}

IsSingleFileRoot(doc) == doc[1].tag = "unit" /\ doc[1].filename # <<>>

(* A document has one root, any other element stands in the one before it or *)
(* in one around that; a root that is a file holds no other file.            *)
IsDocument(doc) ==
  /\ doc \in Seq(ToSet(doc)) /\ doc # <<>>
  /\ doc[1].parent = 0 /\ doc[1].tag = "unit"
  /\ \A el \in 2..Len(doc) : doc[el].parent \in 1..(el - 1)
  /\ LET above == Above(doc)
     IN  \A el \in 2..Len(doc) : doc[el].parent \in above[el - 1]
  /\ IsSingleFileRoot(doc) =>
       \A el \in 2..Len(doc) : doc[el].parent = 1 => doc[el].tag # "unit"

(* The units that stand for a file: the nested ones, or the root.            *)
FileUnitsIn(doc) ==
  LET nested == {c \in DOMAIN doc : doc[c].parent = 1 /\ doc[c].tag = "unit"}
  IN  IF nested # {} THEN nested ELSE IF IsSingleFileRoot(doc) THEN {1} ELSE {}

FileUnits(doc) == Sorted(FileUnitsIn(doc), <)

UnitPath(n) == <<<<"unit", n>>>>

NoPath == <<>>

\* Mutant: children are numbered whatever their names.
NumberedTogether(doc, el) ==
  Cardinality({c \in 1..el : doc[c].parent = doc[el].parent})

(* Children of the same name are numbered from 1.                            *)
Numbered(doc, el) ==
  Cardinality({c \in 1..el : doc[c].parent = doc[el].parent /\ doc[c].tag = doc[el].tag})

Step(doc, el) == <<doc[el].tag, Numbered(doc, el)>>

(* The path of every element of a file unit, handed down from the unit's.    *)
Paths(doc) ==
  LET units == FileUnitsIn(doc)
      Below(path, step) == IF path = NoPath THEN NoPath ELSE Append(path, step)
      path[el \in DOMAIN doc] ==
        IF el \in units THEN <<Step(doc, el)>>
        ELSE IF doc[el].parent = 0 THEN NoPath
        ELSE Below(path[doc[el].parent], Step(doc, el))
  IN  path

(* The children a walk descends into; skipped ones are passed over.          *)
KeptChildren(doc, el, include) ==
  SelectSeq(Children(doc, el), LAMBDA c : include \/ doc[c].tag \notin SKIPPED_TREE_TAGS)

(* Every element of a file unit in the order a walk meets it, with its path. *)
WalkUnit(doc, n, include) ==
  LET unit == FileUnits(doc)[n]
      Passed(el) == ~include /\ \E a \in Above(doc)[el] :
                                  unit < a /\ doc[a].tag \in SKIPPED_TREE_TAGS
      met == Positions(doc, {el \in ElementsIn(doc, unit) : ~Passed(el)})
      With(paths) == [k \in DOMAIN met |-> [el |-> met[k], path |-> paths[met[k]]]]
  IN  With(Paths(doc))

Walk(doc, include) ==
  FlattenSeq([n \in DOMAIN FileUnits(doc) |-> WalkUnit(doc, n, include)])

(* itertext(): the text between an element's tags, its tail left out.        *)
RawText(doc, el) ==
  LET text[e \in DOMAIN doc] ==
        LET children == Children(doc, e)
        IN  doc[e].text \o FlattenSeq([k \in DOMAIN children |->
                            text[children[k]] \o doc[children[k]].tail])
  IN  text[el]

-----------------------------------------------------------------------------
(* build_xml_span_index: the parser's start and end tags, in text order. The *)
(* tags of an element stand around those of the elements within it.          *)
Tags(doc) ==
  LET above == Above(doc)
      tags == [opens : BOOLEAN, el : DOMAIN doc]
      Precedes(a, b) == IF a.el = b.el THEN a.opens /\ ~b.opens
                        ELSE IF a.el \in above[b.el] THEN a.opens
                        ELSE IF b.el \in above[a.el] THEN ~b.opens
                        ELSE a.el < b.el
      placed == {<<Cardinality({a \in tags : Precedes(a, b)}) + 1, b>> : b \in tags}
  IN  [t \in 1..Cardinality(tags) |-> (CHOOSE p \in placed : p[1] = t)[2]]

Put(f, key, value) == [k \in DOMAIN f \cup {key} |-> IF k = key THEN value ELSE f[k]]

Counted(counts, tag) == IF tag \in DOMAIN counts THEN counts[tag] ELSE 0

(* start_element: the path of an element from the open elements' frames.     *)
OpenElement(doc, include, acc, tag, offset) ==
  LET top    == Last(acc.stack)
      single == IsSingleFileRoot(doc)
      nested == Len(acc.stack) = 1 /\ ~single /\ top.tag = "unit" /\ tag = "unit"
      counted == acc.stack # <<>> /\ ~nested /\ top.path # NoPath
                 /\ (include \/ tag \notin SKIPPED_TREE_TAGS)
      number == Counted(top.counts, tag) + 1
      path   == IF acc.stack = <<>> THEN (IF single THEN UnitPath(1) ELSE NoPath)
                ELSE IF nested THEN UnitPath(acc.units + 1)
                ELSE IF counted THEN Append(top.path, <<tag, number>>)
                ELSE NoPath
      frames == IF counted
                THEN Append(Front(acc.stack), [top EXCEPT !.counts = Put(@, tag, number)])
                ELSE acc.stack
  IN  [acc EXCEPT !.units = IF nested THEN @ + 1 ELSE @,
                  !.stack = Append(frames, [tag |-> tag, path |-> path, start |-> offset,
                                            counts |-> [t \in {} |-> 0]])]

(* end_element: the innermost frame's span, where it has a path.             *)
CloseElement(acc, offset) ==
  LET frame == Last(acc.stack)
  IN  [acc EXCEPT !.stack = Front(@),
                  !.spans = IF frame.path = NoPath THEN @
                            ELSE Put(@, frame.path, <<frame.start, offset>>)]

(* The parser's state after each of its tags.                                *)
ParsedTo(doc, tags, include) ==
  LET Next(acc, t) == IF tags[t].opens
                      THEN OpenElement(doc, include, acc, doc[tags[t].el].tag, t)
                      ELSE CloseElement(acc, t)
      parsed[t \in 0..Len(tags)] ==
        IF t = 0 THEN [stack |-> <<>>, units |-> 0, spans |-> [path \in {} |-> NoSpan]]
        ELSE Next(parsed[t - 1], t)
  IN  parsed

BuildXmlSpanIndex(doc, include) ==
  LET Index(tags) == ParsedTo(doc, tags, include)[Len(tags)].spans
  IN  Index(Tags(doc))

(* validate_xml_span_index: an index of a document with file units is not    *)
(* empty, and no span ends before it starts.                                 *)
XmlSpanIndexIsValid(doc, spans) ==
  /\ DOMAIN spans = {} => FileUnits(doc) = <<>>
  /\ \A path \in DOMAIN spans :
       Head(path)[1] = "unit" /\ spans[path][1] <= spans[path][2]
=============================================================================
