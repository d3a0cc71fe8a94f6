------------------------------ MODULE SourceCard ------------------------------
(* The card of one file's source (ArtifactSourceFile.tsx): its focus is      *)
(* switched and its gaps are opened step by step, while answers arrive in    *)
(* any order or not at all.  What the server reads for every request, the    *)
(* rows of the file and the anchors of its nodes, is that of a published     *)
(* artifact: it is read once and stays.                                      *)
EXTENDS SourceRows

CONSTANTS
  CONTEXT,       \* context rows asked for, 3 in the code
  CONTEXT_STEP,  \* lines a click on a gap asks for, 20 in the code
  MaxClicks      \* bound: what the user does with one card

ASSUME CardAssumption ==
  CONTEXT \in Nat /\ CONTEXT_STEP \in Nat \ {0} /\ MaxClicks \in Nat

VARIABLES
  source,   \* [lines, rows, anchors] of the file that is open
  card,     \* the card's state: focus, shown, ranges, loading
  pending,  \* its requests that are not answered
  clicks    \* how often the user acted

cardVars == <<source, card, pending, clicks>>

NoSource == <<>>
NoView == <<>>
NoCard == [focus |-> "changes-and-moves", shown |-> NoView, ranges |-> <<>>,
           loading |-> FALSE]

View(focus, ranges) ==
  SourceProjection(source.rows, source.anchors, focus, CONTEXT, <<NoRange, NoRange>>, ranges)

Request(kind, focus, ranges) == [kind |-> kind, focus |-> focus, ranges |-> ranges]

Clicks == clicks < MaxClicks /\ clicks' = clicks + 1

CardInit == source = NoSource /\ card = NoCard /\ pending = {} /\ clicks = 0

OpenSource(lines, anchors) ==
  /\ source = NoSource
  /\ source' = [lines |-> lines, rows |-> AlignLines(lines[1], lines[2]),
                anchors |-> anchors]
  /\ card' = [card EXCEPT !.loading = TRUE]
  /\ pending' = {Request("open", card.focus, <<>>)}
  /\ UNCHANGED clicks

(* The effect on a new focus forgets the view and its own earlier request,   *)
(* but no request that was made by a click.                                  *)
SwitchFocus(profile) ==
  /\ source # NoSource /\ profile # card.focus /\ Clicks
  /\ card' = [focus |-> profile, shown |-> NoView, ranges |-> <<>>, loading |-> TRUE]
  /\ pending' = {r \in pending : r.kind # "open"} \cup {Request("open", profile, <<>>)}
  /\ UNCHANGED source

(* gapEdges: a gap is opened next to what is visible.                        *)
GapEdges(blocks, b) ==
  LET HunkIn(part) == \E k \in part : blocks[k].type = "hunk"
      before == HunkIn(1..(b - 1))
      after == HunkIn((b + 1)..Len(blocks))
  IN  IF before /\ after THEN {"start", "end"}
      ELSE IF after THEN {"end"} ELSE {"start"}

\* Mutant: the range at the end of a gap stops one line short.
ContextRangeShort(range, edge) ==
  IF range = NoRange THEN NoRange
  ELSE IF edge = "end" THEN <<Max({range[1], range[2] - CONTEXT_STEP}), range[2] - 1>>
       ELSE <<range[1], Min({range[2], range[1] + CONTEXT_STEP - 1})>>

ContextRange(range, edge) ==
  IF range = NoRange THEN NoRange
  ELSE IF edge = "end" THEN <<Max({range[1], range[2] - CONTEXT_STEP + 1}), range[2]>>
       ELSE <<range[1], Min({range[2], range[1] + CONTEXT_STEP - 1})>>

GapRanges(block, edge) == [side \in Sides |-> ContextRange(block.range[side], edge)]

ShowGap(b, edge) ==
  /\ card.shown # NoView /\ ~card.loading
  /\ LET block == card.shown.blocks[b]
     IN  /\ block.type = "gap" /\ \E side \in Sides : block.count[side] > 0
         /\ edge \in GapEdges(card.shown.blocks, b)
         /\ pending' = pending \cup {Request("gap", card.focus,
                                       Append(card.ranges, GapRanges(block, edge)))}
  /\ Clicks
  /\ card' = [card EXCEPT !.loading = TRUE]
  /\ UNCHANGED source

ReturnToFocus ==
  /\ source # NoSource /\ card.ranges # <<>> /\ Clicks
  /\ pending' = pending \cup {Request("collapse", card.focus, <<>>)}
  /\ card' = [card EXCEPT !.loading = TRUE]
  /\ UNCHANGED source

(* An answer, whichever request it is to: a click's brings its ranges along. *)
Answer(asked) ==
  /\ asked \in pending
  /\ pending' = pending \ {asked}
  /\ card' = IF RangesAccepted(asked.ranges)
             THEN [card EXCEPT !.loading = FALSE,
                     !.shown = View(asked.focus, asked.ranges),
                     !.ranges = IF asked.kind = "open" THEN @ ELSE asked.ranges]
             ELSE [card EXCEPT !.loading = FALSE]
  /\ UNCHANGED <<source, clicks>>

Fail(asked) ==
  /\ asked \in pending
  /\ pending' = pending \ {asked}
  /\ card' = [card EXCEPT !.loading = FALSE]
  /\ UNCHANGED <<source, clicks>>

CardMoves ==
  \/ \E p \in FOCUS_PROFILES : SwitchFocus(p)
  \/ /\ card.shown # NoView
     /\ \E b \in DOMAIN card.shown.blocks : \E edge \in {"start", "end"} : ShowGap(b, edge)
  \/ ReturnToFocus
  \/ \E r \in pending : Answer(r) \/ Fail(r)

(* The card of any two files that difflib keeps its promise for, with moves  *)
(* whose spans are lines of theirs.                                          *)
MovesStand(lines, anchors) ==
  \A a \in ToSet(anchors) : \A side \in Sides :
    a.kind = "move" /\ a.spans[side] # NoSpan =>
      a.spans[side][1]..a.spans[side][3] \subseteq 1..Len(lines[side])

OpenAnySource ==
  \E left, right, anchors :
    /\ IsAlignment(Opcodes(left, right), left, right)
    /\ MovesStand(<<left, right>>, anchors)
    /\ OpenSource(<<left, right>>, anchors)

CardSpec == CardInit /\ [][OpenAnySource \/ CardMoves]_cardVars

-----------------------------------------------------------------------------
ShownRows(view) ==
  UNION {view.blocks[b].first..view.blocks[b].last
         : b \in {k \in DOMAIN view.blocks : view.blocks[k].type = "hunk"}}

GapOpensAt(block, edge) ==
  LET ranges == Append(card.ranges, GapRanges(block, edge))
      view == View(card.focus, ranges)
  IN  RangesAccepted(ranges) /\ ~view.truncated =>
        /\ (IF edge = "start" THEN block.first ELSE block.last) \in ShownRows(view)
        /\ card.shown.profile = card.focus => ShownRows(card.shown) \subseteq ShownRows(view)

(* Every gap can be opened: what a click on it asks for is answered, within  *)
(* the bounds of an answer, by a view that shows more of it next to the edge *)
(* that was clicked, and still all that was shown; and the lines a gap names *)
(* are, asked for on their own, the rows that it hides and no other.         *)
GapsOpen ==
  card.shown # NoView /\ ~card.loading =>
    \A b \in DOMAIN card.shown.blocks :
      LET block == card.shown.blocks[b]
          alone == SourceProjection(source.rows, source.anchors, card.focus, CONTEXT,
                                    block.range, <<>>)
      IN  block.type = "gap" =>
            /\ ~alone.truncated => ShownRows(alone) = block.first..block.last
            /\ \A edge \in GapEdges(card.shown.blocks, b) : GapOpensAt(block, edge)

(* Unless an answer says it is cut short, a view whose focus takes moves in  *)
(* shows every line of every moved region, one that takes changes in every   *)
(* row that is not the same in both revisions, and one of the complete file  *)
(* every line there is.                                                      *)
(* (projections.py: _align_lines, _focus_row_indexes, read_source_projection)*)
FocusIsShown ==
  LET view == card.shown
      LinesShown(side) == {source.rows[k].line[side] : k \in ShownRows(view)}
  IN  view # NoView /\ ~view.truncated =>
        /\ view.profile \in {"moves", "changes-and-moves"} =>
             \A a \in ToSet(source.anchors) : \A side \in Sides :
               a.kind = "move" /\ a.spans[side] # NoSpan =>
                 a.spans[side][1]..a.spans[side][3] \subseteq LinesShown(side)
        /\ view.profile \in {"changes", "changes-and-moves"} =>
             \A k \in DOMAIN source.rows :
               LET line == source.rows[k].line
                   Text(side) == source.lines[side][line[side]]
               IN  (NoLine \in {line[1], line[2]} \/ Text(1) # Text(2))
                     => k \in ShownRows(view)
        /\ view.profile = "complete-file" =>
             \A side \in Sides : 1..Len(source.lines[side]) \subseteq LinesShown(side)
=============================================================================
