--------------------------- MODULE MCVisualization ---------------------------
(* Documents of one or two small files, srcDiff and srcMove on them, and a   *)
(* browser with small bounds.                                                *)
EXTENDS ArtifactBrowsing

CONSTANT DeletedFiles   \* whether the two files are deleted ones of the same name

(* What a file is made of: a sequence of regions.                            *)
Bodies == {<<"same", "deleted", "lines", "added">>, <<"gone", "nested", "come">>,
           <<"deleted", "deleted", "feed", "added", "added">>, <<"blank", "same", "added">>}

PairsOfBodies ==
  IF DeletedFiles THEN {<<<<"deleted">>, <<"gone">>>>}
  ELSE {<<<<"deleted", "same">>, <<"added">>>>, <<<<"come">>, <<"lines", "gone">>>>}

T1 == <<"x", "n">>
T2 == <<"x", "n", "x", "x", "n">>

(* A region is a sequence of elements whose parents count within it.         *)
Region ==
  [same    |-> <<Element("expr", 0, T1, <<"x">>)>>,
   lines   |-> <<Element("expr", 0, <<"n", "x", "n", "x", "n">>, <<>>)>>,
   feed    |-> <<Element("expr", 0, <<"x", "f", "x">>, <<"n">>)>>,
   deleted |-> <<Element("diff:delete", 0, T1, <<>>)>>,
   added   |-> <<Element("diff:insert", 0, T1, <<>>)>>,
   gone    |-> <<Element("diff:delete", 0, <<"x">>, <<"n">>),
                 Element("expr", 1, T2, <<>>), Element("call", 1, <<>>, <<"x">>)>>,
   come    |-> <<Element("diff:insert", 0, <<"x">>, <<>>),
                 Element("diff:ws", 1, <<>>, <<>>),
                 Element("expr", 1, T2, <<>>), Element("call", 1, <<>>, <<"x">>)>>,
   nested  |-> <<Element("expr", 0, <<>>, <<"n">>), Element("diff:delete", 1, T1, <<>>),
                 Element("diff:common", 2, <<"x">>, <<>>),
                 Element("diff:insert", 1, T1, <<"x">>)>>,
   blank   |-> <<Element("diff:ws", 0, <<"x">>, <<>>),
                 Element("diff:delete", 1, <<"n">>, <<>>),
                 Element("diff:insert", 1, T1, <<>>)>>]

WithBody(doc, body) ==
  LET Add(acc, name) ==
        acc \o [k \in DOMAIN Region[name] |-> [Region[name][k] EXCEPT
                  !.parent = IF @ = 0 THEN Len(doc) ELSE Len(acc) + @]]
  IN  FoldLeft(Add, doc, body)

Named(filename) == [Element("unit", 0, <<>>, <<>>) EXCEPT !.filename = filename]

Single(body) == WithBody(<<Named(<<<<"d", "u">>, <<"e", "u">>>>)>>, body)

Names == IF DeletedFiles
         THEN << <<<<"d", "a", "u">>, <<>>>>, <<<<"d", "b", "u">>, <<>>>> >>
         ELSE << <<<<"d", "u">>>>, <<<<"d", "v">>, <<"e", "w">>>> >>

Archive(bodies) ==
  LET Add(acc, n) == WithBody(Append(acc, [Named(Names[n]) EXCEPT !.parent = 1]), bodies[n])
  IN  FoldLeftDomain(Add, <<Element("unit", 0, <<>>, <<>>)>>, bodies)

Unnamed(doc) == [doc EXCEPT ![FileUnits(doc)[2]].filename = <<>>]

Documents ==
  {Archive(pair) : pair \in PairsOfBodies}
  \cup IF DeletedFiles THEN {}
       ELSE {Single(body) : body \in Bodies}
            \cup {Unnamed(Archive(pair)) : pair \in PairsOfBodies}

-----------------------------------------------------------------------------
(* srcDiff: a document with positions for what is in the directories; the    *)
(* order of the files is its own, and so is the name of a single one.        *)
Span == <<1, 1, 1, 1>>
Position(tag) == IF tag \in {"diff:delete", "diff:insert"} THEN <<Span>> ELSE <<Span, Span>>

Positioned(doc) == [el \in DOMAIN doc |-> [doc[el] EXCEPT !.pos = Position(doc[el].tag)]]

Orders(doc) ==
  IF Len(FileUnits(doc)) = 1
  THEN {[doc EXCEPT ![1].filename = <<<<"tmp", "u">>>>]}
  ELSE {doc, WithUnits(doc, Reverse(FileUnits(doc)))}

Layouts == [doc \in Documents |-> ExtractedLayout(doc)]

MCRegenerate(files_) ==
  UNION {{Positioned(again) : again \in Orders(doc)}
         : doc \in {d \in Documents : Layouts[d] = files_}}

-----------------------------------------------------------------------------
(* srcMove: a deleted region and an inserted one of the same text are a      *)
(* move. Its paths name files where that is unambiguous.                     *)
Regions(doc, tag) ==
  SelectSeq(Walk(doc, TRUE),
    LAMBDA w : /\ doc[w.el].tag = tag /\ doc[w.el].id = 0 /\ doc[w.el].plain = 0
               /\ doc[doc[w.el].parent].tag # "diff:ws")

Matches(doc) ==
  LET Free(inserts, d, acc) == {k \in DOMAIN inserts :
        /\ RawText(doc, inserts[k].el) = RawText(doc, d.el)
        /\ \A m \in ToSet(acc) : m[2] # inserts[k]}
      Add(inserts, acc, d, free) ==
        IF free = {} THEN acc ELSE Append(acc, <<d, inserts[Min(free)]>>)
      Match(deletes, inserts) ==
        FoldLeft(LAMBDA acc, d : Add(inserts, acc, d, Free(inserts, d, acc)), <<>>, deletes)
  IN  Match(Regions(doc, "diff:delete"), Regions(doc, "diff:insert"))

ProducerPath(doc, path) ==
  LET name == doc[FileUnits(doc)[path[1][2]]].filename
      Prefix(step) == IF step[1] \in {"expr", "call"}
                      THEN <<IF step[1] = "expr" THEN "src:expr" ELSE "src:call", step[2]>>
                      ELSE step
  IN  <<IF IsSingleFileRoot(doc) THEN path[1] ELSE <<"file", name>>>>
      \o [k \in DOMAIN Tail(path) |-> Prefix(Tail(path)[k])]

MoveOf(doc, match, id) ==
  [id |-> id, relationship |-> "type1",
   from |-> <<ProducerPath(doc, match[1].path)>>,
   to |-> <<ProducerPath(doc, match[2].path)>>,
   fromTexts |-> <<RawText(doc, match[1].el)>>, toTexts |-> <<RawText(doc, match[2].el)>>,
   fromNodes |-> <<>>, toNodes |-> <<>>, provenance |-> "", kind |-> "", members |-> <<>>]

MovesOfDoc(doc) ==
  LET Moves(matches) == [k \in DOMAIN matches |-> MoveOf(doc, matches[k], k)]
  IN  Moves(Matches(doc))

AtomicReport(m) == [id |-> m.id, kind |-> "atomic", members |-> <<m.id>>,
                    relationship |-> m.relationship, from |-> m.from, to |-> m.to,
                    fromTexts |-> m.fromTexts, toTexts |-> m.toTexts]

Sequence(moves) ==
  LET All(key) == [k \in DOMAIN moves |-> moves[k][key][1]]
  IN  [id |-> 9, kind |-> "ordered_sequence", members |-> [k \in DOMAIN moves |-> moves[k].id],
       relationship |-> "type1", from |-> All("from"), to |-> All("to"),
       fromTexts |-> All("fromTexts"), toTexts |-> All("toTexts")]

Reports(moves, style) ==
  CASE style = "atomic" -> [k \in DOMAIN moves |-> AtomicReport(moves[k])]
    [] style = "sequence" -> <<Sequence(moves)>>
    [] style = "partial" -> [k \in DOMAIN Tail(moves) |-> AtomicReport(Tail(moves)[k])]
    [] OTHER -> <<>>

Styles(moves) ==
  {"none"} \cup (IF moves = <<>> THEN {} ELSE {"atomic", "partial"})
           \cup (IF Len(moves) > 1 THEN {"sequence"} ELSE {})

Candidates(doc) ==
  LET All(regions, side, from) == [k \in DOMAIN regions |->
        [id |-> from + k, side |-> side, rawText |-> RawText(doc, regions[k].el),
         path |-> ProducerPath(doc, regions[k].path)]]
      Then(deletes) == deletes \o All(Regions(doc, "diff:insert"), "insert", Len(deletes))
  IN  Then(All(Regions(doc, "diff:delete"), "delete", 0))

CandidatePairs(doc) ==
  LET Pair(d, i, n) == [delete |-> d, insert |-> i + n, change |-> "none",
                        kind |-> IF d = i THEN "group" ELSE "single", outcome |-> "none"]
      Pairs(n, m) == FlattenSeq([d \in 1..n |-> [i \in 1..m |-> Pair(d, i, n)]])
  IN  Pairs(Len(Regions(doc, "diff:delete")), Len(Regions(doc, "diff:insert")))

ResultsWith(doc, style, diagnostics, moves, reports) ==
  [moves |-> moves, count |-> Len(moves), merged |-> FALSE,
   meta |-> [NoMeta EXCEPT
     !.schema = 2, !.relationships = CountRelationships(moves),
     !.reported = (style # "none"), !.reports = reports, !.reportCount = Len(reports),
     !.reportRelationships = IF style = "none" THEN <<>> ELSE CountRelationships(reports),
     !.diagnostics = IF diagnostics THEN 4 ELSE 0,
     !.candidates = IF diagnostics THEN Candidates(doc) ELSE <<>>,
     !.pairs = IF diagnostics THEN CandidatePairs(doc) ELSE <<>>]]

ResultsOf(doc, moves, style, diagnostics) ==
  ResultsWith(doc, style, diagnostics, moves, Reports(moves, style))

Annotated(doc, moves) ==
  LET EndingAt(el, key) ==
        {k \in DOMAIN moves : ElementAt(doc, NormalizePath(doc, moves[k][key][1])) = {el}}
      Mark(e, from, to) ==
        IF from # {} THEN [e EXCEPT !.id = moves[Min(from)].id, !.to = moves[Min(from)].to]
        ELSE IF to # {} THEN [e EXCEPT !.id = moves[Min(to)].id, !.from = moves[Min(to)].from]
        ELSE e
  IN  [el \in DOMAIN doc |-> Mark(doc[el], EndingAt(el, "from"), EndingAt(el, "to"))]

(* srcMove's output may have other text outside the moves than its input.    *)
Rewordings(doc) ==
  LET others == {el \in DOMAIN doc : doc[el].tag = "expr" /\ doc[doc[el].parent].tag = "unit"
                                     /\ doc[el].text = T1}
  IN  {[doc EXCEPT ![el].text = <<"n", "x", "n">>] : el \in others}

Found(doc, moved, moves, diagnostics) ==
  {[doc |-> d, results |-> ResultsOf(doc, moves, style, diagnostics)]
   : d \in {moved} \cup (IF diagnostics THEN Rewordings(moved) ELSE {}),
     style \in (IF diagnostics THEN {"none"} ELSE Styles(moves))}

MCDetect(doc, diagnostics) ==
  LET With(moves) == Found(doc, Annotated(doc, moves), moves, diagnostics)
  IN  With(MovesOfDoc(doc))

-----------------------------------------------------------------------------
(* What is uploaded: documents with or without positions, and documents that *)
(* carry annotations, with the results kept beside them or without; some of  *)
(* these results do not belong to the document.                              *)
Upload(doc) == [doc |-> doc, producer |-> NoProducer, retained |-> FALSE,
                diagnostics |-> FALSE, validate |-> TRUE, strict |-> FALSE]

(* Two srcDiff moves of the document's own, beside srcMove's.                *)
OwnMoves(doc) ==
  LET blanks == {el \in DOMAIN doc : doc[el].tag = "call"}
  IN  IF Cardinality(blanks) = 2
      THEN [el \in DOMAIN doc |->
              IF \E b \in blanks : doc[b].parent = el
              THEN [doc[el] EXCEPT !.plain = 7] ELSE doc[el]]
      ELSE doc

Kept(own, moved, right) ==
  LET wrong == {[r EXCEPT !.moves[1].fromTexts[1] = <<"n">>]
                : r \in {q \in right : q.moves # <<>>}}
               \cup {[r EXCEPT !.count = @ + 1] : r \in right}
  IN  {[Upload(moved) EXCEPT !.producer = r] : r \in right \cup wrong}
      \cup {[Upload(own) EXCEPT !.producer = r, !.retained = TRUE] : r \in right \cup wrong}

(* A move of which one end lost its annotation, or only its id.              *)
Broken(moved) ==
  LET ends == {el \in DOMAIN moved : moved[el].id # 0}
  IN  {[moved EXCEPT ![el].id = 0] : el \in ends}
      \cup {[moved EXCEPT ![el].id = 0, ![el].from = <<>>, ![el].to = <<>>] : el \in ends}

UploadsOf(doc, own, moved, moves) ==
  {Upload(doc)} \cup {Upload(d) : d \in Broken(moved)}
  \cup {[Upload(moved) EXCEPT !.diagnostics = TRUE]}
  \cup {[Upload(Positioned(own)) EXCEPT !.diagnostics = d] : d \in BOOLEAN}
  \cup {[Upload(moved) EXCEPT !.strict = s, !.validate = v] : s, v \in BOOLEAN}
  \cup Kept(own, moved, {ResultsOf(own, moves, style, FALSE) : style \in Styles(moves)})

(* Moves with an end within diff:ws: both ends, or the deleted one alone.    *)
(* They are annotated as srcMove does, or marked as srcDiff does.            *)
SkippedMoves(doc) ==
  LET Inside(el) == doc[doc[el].parent].tag = "diff:ws"
      In(tag) == {el \in DOMAIN doc : doc[el].tag = tag /\ Inside(el)}
      Out(tag) == {el \in DOMAIN doc : doc[el].tag = tag /\ ~Inside(el)}
      Ends == {<<d, i>> : d \in In("diff:delete"), i \in In("diff:insert") \cup Out("diff:insert")}
      Annotate(ends) == [el \in DOMAIN doc |->
                           IF el \in ToSet(ends) THEN [doc[el] EXCEPT !.id = 8] ELSE doc[el]]
      MarkPlain(ends) == Positioned([el \in DOMAIN doc |->
                           IF el \in ToSet(ends) THEN [doc[el] EXCEPT !.plain = 8] ELSE doc[el]])
  IN  UNION {{Upload(Annotate(ends)), Upload(MarkPlain(ends))} : ends \in Ends}

MCRequests ==
  LET Of(doc, own, moves) == UploadsOf(doc, own, Annotated(own, moves), moves)
      With(doc, own) == Of(doc, own, MovesOfDoc(own))
  IN  UNION {With(doc, OwnMoves(doc)) \cup SkippedMoves(doc) : doc \in Documents}

-----------------------------------------------------------------------------
(* difflib on small files: what they begin and end with is equal.            *)
CommonPrefix(s, t, upTo) == Max({k \in 0..upTo : SubSeq(s, 1, k) = SubSeq(t, 1, k)})

MCOpcodes(left, right) ==
  LET Kind(l, r) == CASE l[1] < l[2] /\ r[1] < r[2] -> "replace"
                      [] l[1] < l[2] -> "delete"
                      [] OTHER -> "insert"
      Ops(l, r) == SelectSeq(
        <<<<"equal", <<0, l[1]>>, <<0, r[1]>>>>, <<Kind(l, r), l, r>>,
          <<"equal", <<l[2], Len(left)>>, <<r[2], Len(right)>>>>>>,
        LAMBDA op : op[2][1] < op[2][2] \/ op[3][1] < op[3][2])
      Both(head, tail) == Ops(<<head, Len(left) - tail>>, <<head, Len(right) - tail>>)
      From(head, most) ==
        Both(head, CommonPrefix(Reverse(left), Reverse(right), most - head))
      With(most) == From(CommonPrefix(left, right, most), most)
  IN  With(Min({Len(left), Len(right)}))

(* It keeps difflib's promise.                                               *)
SmallTexts == UNION {[1..n -> {"a", "b"}] : n \in 0..3}

ASSUME DifflibAssumption ==
  \A left, right \in SmallTexts : IsAlignment(MCOpcodes(left, right), left, right)
=============================================================================
