------------------------------- MODULE NodeRows -------------------------------
(* The nodes of a file's tree as the index keeps them, one row for a node,   *)
(* and what is read from these rows: the window of the tree that is in       *)
(* focus, the tree of its diff regions, pages of a node's children.          *)
EXTENDS SourceText

NoOrdinal == -1
NoNode == -1

NodeId(fileId, ordinal) == <<fileId, ordinal>>

DiffKind(tag) ==
  CASE tag = "diff:common" -> "common"
    [] tag = "diff:delete" -> "delete"
    [] tag = "diff:insert" -> "insert"
    [] OTHER -> "none"

(* A tree is the sequence of its nodes in document order. The parent of a    *)
(* node is the innermost node around it in the XML text.                     *)
IsTree(tree) ==
  LET Encloses(j, k) == /\ tree[j].xmlSpan[1] < tree[k].xmlSpan[1]
                        /\ tree[k].xmlSpan[2] < tree[j].xmlSpan[2]
  IN  /\ tree \in Seq(ToSet(tree)) /\ tree # <<>>
      /\ \A k \in DOMAIN tree : /\ "xmlSpan" \in DOMAIN tree[k]
                                /\ tree[k].xmlSpan \in Nat \X Nat
      /\ \A k \in DOMAIN tree : \/ k = 1 /\ tree[k].parent = 0
                                \/ k > 1 /\ tree[k].parent \in 1..(k - 1)
      /\ \A k \in 2..Len(tree) :
           /\ Encloses(tree[k].parent, k)
           /\ \A j \in DOMAIN tree :
                Encloses(j, k) => j = tree[k].parent \/ Encloses(j, tree[k].parent)

\* Mutant: a node is filed under the one before it.
NodeRecordsInLine(tree, fileId) ==
  LET Line(k, r, i) == IF tree[k].spans[r] = NoSpan THEN 0 ELSE tree[k].spans[r][i]
  IN  [k \in DOMAIN tree |->
         [file |-> fileId, ordinal |-> k - 1, parent |-> k - 2, sibling |-> 0,
          children |-> IF k < Len(tree) THEN 1 ELSE 0,
          kind |-> tree[k].kind, moveId |-> tree[k].moveId,
          lines |-> [r \in 1..2 |-> <<Line(k, r, 1), Line(k, r, 3)>>],
          payload |-> [tree[k] EXCEPT !.parent = 0]]]

(* _append_node_records: ordinals count a file's nodes in document order.    *)
NodeRecords(tree, fileId) ==
  [k \in DOMAIN tree |->
     LET Below(parent, last) == {j \in 1..last : tree[j].parent = parent}
         Line(r, i) == IF tree[k].spans[r] = NoSpan THEN 0 ELSE tree[k].spans[r][i]
     IN  [file |-> fileId, ordinal |-> k - 1, parent |-> tree[k].parent - 1,
          sibling |-> Cardinality(Below(tree[k].parent, k)) - 1,
          children |-> Cardinality(Below(k, Len(tree))),
          kind |-> tree[k].kind, moveId |-> tree[k].moveId,
          lines |-> <<<<Line(1, 1), Line(1, 3)>>, <<Line(2, 1), Line(2, 3)>>>>,
          payload |-> [tree[k] EXCEPT !.parent = 0]]]

Row(rows, ordinal) == rows[CHOOSE k \in DOMAIN rows : rows[k].ordinal = ordinal]
Ordinals(rows) == {rows[k].ordinal : k \in DOMAIN rows}
ParentOf(rows, ordinal) == Row(rows, ordinal).parent

(* A node and all those above it.                                            *)
Ancestors(rows) ==
  LET above[o \in Ordinals(rows)] ==
        {o} \cup (IF ParentOf(rows, o) < 0 THEN {} ELSE above[ParentOf(rows, o)])
  IN  above

-----------------------------------------------------------------------------
(* The climb from a node that is not included up to the first that is.       *)
Chain(rows, included, ordinal) ==
  {a \in Ancestors(rows)[ordinal] :
     \A b \in Ancestors(rows)[ordinal] : a <= b => b \notin included}

IsTreeFocus(row, profile) ==
  CASE profile = "complete-file" -> TRUE
    [] profile = "moves" -> row.kind = "move"
    [] profile = "changes" -> row.kind \in {"insert", "delete"}
    [] OTHER -> row.kind # "plain"

\* Mutant: a focused node joins without those above it.
FocusedAlone(rows, profile, limit) ==
  LET Join(included, row) ==
        IF ~IsTreeFocus(row, profile) \/ Cardinality(included) + 1 > limit
        THEN included ELSE included \cup {row.ordinal}
      joined[k \in DOMAIN rows] ==
        IF k = 1 THEN {rows[1].ordinal} ELSE Join(joined[k - 1], rows[k])
  IN  joined[Len(rows)]

(* _focused_tree_ordinals: focused nodes join in document order, each with   *)
(* its chain; one whose chain does not fit is passed over.                   *)
FocusedOrdinals(rows, profile, limit) ==
  LET Join(included, row) ==
        LET chain == Chain(rows, included, row.ordinal)
        IN  IF \/ ~IsTreeFocus(row, profile)
               \/ Cardinality(included) + Cardinality(chain) > limit
            THEN included ELSE included \cup chain
      joined[k \in DOMAIN rows] ==
        IF k = 1 THEN {rows[1].ordinal} ELSE Join(joined[k - 1], rows[k])
  IN  joined[Len(rows)]

FlatNode(row) ==
  [id |-> NodeId(row.file, row.ordinal), payload |-> row.payload,
   children |-> row.children]

(* read_tree_projection: the included nodes, each with the children shown.   *)
TreeProjection(rows, profile, limit) ==
  LET Node(row, children) ==
        [node |-> FlatNode(row), children |-> children,
         complete |-> Len(children) = row.children]
      Window(included) ==
        [nodes |-> [ordinal \in included |->
                      Node(Row(rows, ordinal),
                           Sorted({c \in included : ParentOf(rows, c) = ordinal}, <))],
         truncated |-> Cardinality(included) < Len(rows)]
  IN  Window(FocusedOrdinals(rows, profile, limit))

-----------------------------------------------------------------------------
(* read_diff_tree_projection: the diff regions, each below the nearest one   *)
(* above it; the first ones where there are more than asked for.             *)
DiffOrdinals(rows) ==
  {o \in Ordinals(rows) : DiffKind(Row(rows, o).payload.tag) # "none"}

DiffsAbove(rows, ordinal) == (Ancestors(rows)[ordinal] \ {ordinal}) \cap DiffOrdinals(rows)

DiffParent(rows, ordinal) ==
  IF DiffsAbove(rows, ordinal) = {} THEN NoNode ELSE Max(DiffsAbove(rows, ordinal))

BelowDiff(rows, diffs, ordinal) == {d \in diffs : DiffParent(rows, d) = ordinal}

(* The regions met from the roots down, as the answer is put together.       *)
ReachedDiffs(rows, included) == {d \in included : DiffsAbove(rows, d) \subseteq included}

FirstDiffs(rows, limit) ==
  {o \in DiffOrdinals(rows) : Cardinality({d \in DiffOrdinals(rows) : d <= o}) <= limit}

DiffTreeProjection(rows, limit) ==
  LET diffs == DiffOrdinals(rows)
      included == FirstDiffs(rows, limit)
      Node(o, all, shown) ==
        [kind |-> DiffKind(Row(rows, o).payload.tag), parent |-> DiffParent(rows, o),
         count |-> all, children |-> shown, complete |-> Len(shown) = all]
  IN  [roots |-> Sorted(BelowDiff(rows, included, NoNode), <),
       nodes |-> [o \in ReachedDiffs(rows, included) |->
                    Node(o, Cardinality(BelowDiff(rows, diffs, o)),
                         Sorted(BelowDiff(rows, included, o), <))],
       count |-> Cardinality(included), total |-> Cardinality(diffs),
       truncated |-> Cardinality(included) < Cardinality(diffs)]

-----------------------------------------------------------------------------
(* The rows that name a node as their parent, in sibling order.              *)
ChildrenAmong(rows, ordinal) ==
  Sorted({r \in rows : r.parent = ordinal}, LAMBDA a, b : a.sibling < b.sibling)

ChildRows(rows, ordinal) == ChildrenAmong(ToSet(rows), ordinal)

(* read_node_children: a page of a node's children, in sibling order.        *)
NodeChildren(rows, ordinal, offset, limit) ==
  LET all == ChildRows(rows, ordinal)
      page == SubSeq(all, offset + 1, Min({offset + limit, Len(all)}))
      next == offset + Len(page)
      count == Row(rows, ordinal).children
  IN  [count |-> count,
       children |-> [k \in DOMAIN page |-> FlatNode(page[k])],
       next |-> IF next < count THEN next ELSE NoNode]
=============================================================================
