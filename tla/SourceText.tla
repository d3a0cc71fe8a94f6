------------------------------ MODULE SourceText ------------------------------
(* Texts, their lines and the spans that name a part of them.  A text is a   *)
(* sequence over a small alphabet in which "n" ends a line.  A span is       *)
(* <<first line, first column, last line, last column>>.                     *)
EXTENDS Sorting, Sequences, SequencesExt

(* The positions of `seq` that are in S, in order, and what stands there.    *)
Positions(seq, S) == Sorted(S \cap DOMAIN seq, <)

Selected(seq, S) == [k \in DOMAIN Positions(seq, S) |-> seq[Positions(seq, S)[k]]]

REVISION_0 == 0
REVISION_1 == 1
ALL_REVISIONS == {REVISION_0, REVISION_1}

NoSpan == <<>>

FOCUS_PROFILES == {"changes-and-moves", "moves", "changes", "complete-file"}

(* Offsets count from 0, lines and columns from 1.                           *)
ComputeLineStarts(source) ==
  <<0>> \o Positions(source, {i \in DOMAIN source : source[i] = "n"})

OffsetToLineCol(offset, lineStarts) ==
  LET line == Cardinality({i \in DOMAIN lineStarts : lineStarts[i] <= offset})
  IN  <<line, offset - lineStarts[line] + 1>>

\* Mutant: the last character of a span is left out.
OffsetRangeShort(range, lineStarts) ==
  OffsetToLineCol(range[1], lineStarts)
  \o OffsetToLineCol(Max({range[2] - 2, range[1]}), lineStarts)

OffsetRangeToSpan(range, lineStarts) ==
  OffsetToLineCol(range[1], lineStarts)
  \o OffsetToLineCol(Max({range[2] - 1, range[1]}), lineStarts)

(* What a span stands for: the text of the lines it names, first and last    *)
(* column included. Lines end at the marks in `ends`.                        *)
LinesOf(source, ends) ==
  LET stops == <<0>> \o Positions(source, {i \in DOMAIN source :
                                            source[i] \in ends \/ i = Len(source)})
  IN  [k \in 1..(Len(stops) - 1) |-> SubSeq(source, stops[k] + 1, stops[k + 1])]

CutBySpan(source, span, ends) ==
  LET Offset(lines, line, column) ==
        Len(FlattenSeq(SubSeq(lines, 1, line - 1))) + column
      Cut(lines) == SubSeq(source, Offset(lines, span[1], span[2]),
                           Offset(lines, span[3], span[4]))
  IN  Cut(LinesOf(source, ends))
=============================================================================
