------------------------------ MODULE SourceRows ------------------------------
(* read_source_projection: the rows of a file, the two revisions side by     *)
(* side, of which a view shows those in focus and names the rest as gaps.    *)
(* A line is its number, 0 where a row has none; a span of rows is the pair  *)
(* of its first and last.                                                    *)
EXTENDS SourceText

CONSTANTS
  Opcodes(_, _),       \* external: difflib's <<tag, left, right>> for two files,
                       \* left and right being <<lines before, lines up to>>
  MAX_SOURCE_ROWS,     \* the rows an answer holds, and the lines of a range, at most
  MAX_EXPANDED_RANGES  \* the ranges a request may ask for, _repeated_line_ranges

ASSUME RowsAssumption == {MAX_SOURCE_ROWS, MAX_EXPANDED_RANGES} \subseteq Nat

NoLine == 0
NoRange == <<>>
Sides == 1..2

(* What difflib promises of its opcodes: together they cover both files from *)
(* beginning to end, and the lines of an equal block are pairwise the same.  *)
IsAlignment(ops, left, right) ==
  LET From(k) == IF k = 1 THEN <<0, 0>> ELSE <<ops[k - 1][2][2], ops[k - 1][3][2]>>
      End == IF ops = <<>> THEN <<0, 0>> ELSE <<ops[Len(ops)][2][2], ops[Len(ops)][3][2]>>
  IN  /\ ops \in Seq({"equal", "replace", "delete", "insert"} \X (Nat \X Nat) \X (Nat \X Nat))
      /\ End = <<Len(left), Len(right)>>
      /\ \A k \in DOMAIN ops :
           /\ From(k) = <<ops[k][2][1], ops[k][3][1]>>
           /\ ops[k][2][1] <= ops[k][2][2] /\ ops[k][3][1] <= ops[k][3][2]
           /\ ops[k][1] = "equal" =>
                /\ ops[k][2][2] - ops[k][2][1] = ops[k][3][2] - ops[k][3][1]
                /\ \A j \in 1..(ops[k][2][2] - ops[k][2][1]) :
                     left[ops[k][2][1] + j] = right[ops[k][3][1] + j]

(* _align_lines: a block of the alignment takes as many rows as its longer   *)
(* side, the shorter one runs out of lines first.                            *)
RowsOf(op) ==
  LET Line(block, k) == IF block[1] + k <= block[2] THEN block[1] + k ELSE NoLine
  IN  [k \in 1..Max({op[2][2] - op[2][1], op[3][2] - op[3][1]}) |->
         [kind |-> IF op[1] = "equal" THEN "context" ELSE op[1],
          line |-> <<Line(op[2], k), Line(op[3], k)>>]]

AlignLines(left, right) ==
  LET AllRows(ops) == FlattenSeq([k \in DOMAIN ops |-> RowsOf(ops[k])])
  IN  AllRows(Opcodes(left, right))

\* Mutant: the last line of a span is left out.
OnLineBeforeLast(span, line) == span # NoSpan /\ span[1] <= line /\ line < span[3]

OnLine(span, line) == span # NoSpan /\ span[1] <= line /\ line <= span[3]

(* _attach_anchors: each line gets those of its side whose span crosses it.  *)
LineAnchors(anchors, row, side) ==
  SelectSeq(anchors, LAMBDA a : /\ row.line[side] # NoLine
                                /\ OnLine(a.spans[side], row.line[side]))

(* _focus_row_indexes: the rows a profile looks for, with their context.     *)
HasMoveOn(anchors, row) ==
  \E a \in ToSet(anchors) : \E side \in Sides :
    a.kind = "move" /\ row.line[side] # NoLine /\ OnLine(a.spans[side], row.line[side])

InFocus(anchors, row, profile) ==
  \/ profile = "complete-file"
  \/ profile \in {"moves", "changes-and-moves"} /\ HasMoveOn(anchors, row)
  \/ profile \in {"changes", "changes-and-moves"} /\ row.kind # "context"

FocusRows(rows, anchors, profile, context) ==
  {k \in DOMAIN rows : \E j \in DOMAIN rows :
     j \in (k - context)..(k + context) /\ InFocus(anchors, rows[j], profile)}

(* _range_row_indexes                                                        *)
InRange(line, range) ==
  line # NoLine /\ range # NoRange /\ range[1] <= line /\ line <= range[2]

RangeRows(rows, range) ==
  {k \in DOMAIN rows : \E side \in Sides : InRange(rows[k].line[side], range[side])}

(* _build_source_blocks: runs of selected rows, and gaps for all the others. *)
RowRange(rows, first, last, side) ==
  LET lines == {rows[k].line[side] : k \in first..last} \ {NoLine}
  IN  IF lines = {} THEN NoRange ELSE <<Min(lines), Max(lines)>>

Block(rows, selected, first, last) ==
  [type |-> IF first \in selected THEN "hunk" ELSE "gap",
   first |-> first, last |-> last,
   range |-> [side \in Sides |-> RowRange(rows, first, last, side)],
   count |-> [side \in Sides |->
     Cardinality({k \in first..last : rows[k].line[side] # NoLine})]]

BlockStarts(rows, selected) ==
  Positions(rows, {k \in DOMAIN rows : k = 1 \/ (k \in selected) # (k - 1 \in selected)})

SourceBlocks(rows, selected) ==
  LET starts == BlockStarts(rows, selected)
  IN  [b \in DOMAIN starts |->
         Block(rows, selected, starts[b],
               IF b = Len(starts) THEN Len(rows) ELSE starts[b + 1] - 1)]

(* The web handler's check of the ranges that are asked for.                 *)
RangesAccepted(expanded) ==
  /\ Len(expanded) <= MAX_EXPANDED_RANGES
  /\ \A k \in DOMAIN expanded : \A side \in Sides :
       LET range == expanded[k][side]
       IN  range # NoRange => /\ 1 <= range[1] /\ range[1] <= range[2]
                              /\ range[2] - range[1] + 1 <= MAX_SOURCE_ROWS

(* An explicit range replaces the focus; expanded ranges are added to it. An *)
(* answer holds the first rows of what is selected.                          *)
SelectedRows(rows, anchors, profile, context, range, expanded) ==
  IF range # <<NoRange, NoRange>> THEN RangeRows(rows, range)
  ELSE FocusRows(rows, anchors, profile, context)
       \cup UNION {RangeRows(rows, expanded[k]) : k \in DOMAIN expanded}

AnsweredRows(selected) ==
  {k \in selected : Cardinality({j \in selected : j <= k}) <= MAX_SOURCE_ROWS}

SourceProjection(rows, anchors, profile, context, range, expanded) ==
  LET Answer(selected, answered) ==
        [profile |-> profile,
         truncated |-> selected # answered,
         blocks |-> SourceBlocks(rows, answered),
         anchors |-> [k \in answered |->
                        [side \in Sides |-> LineAnchors(anchors, rows[k], side)]]]
      Of(selected) == Answer(selected, AnsweredRows(selected))
  IN  Of(SelectedRows(rows, anchors, profile, context, range, expanded))
=============================================================================
