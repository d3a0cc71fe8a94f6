------------------------ MODULE ArtifactViews_proofs ------------------------
(***************************************************************************)
(* Proofs about a published artifact, for files and trees of any size and  *)
(* any bounds: what the browser is shown of it, the card of a file's       *)
(* source (SourceCard) and a branch of its tree (TreeBranch); and, for the *)
(* publication of any document (Publication), that each node of its trees  *)
(* has the place of its own element in the XML, and that reading the       *)
(* artifact back gives what was published.                                 *)
(***************************************************************************)
EXTENDS SourceCard, TreeBranch, Publication, SourceText_proofs

(* The rows of an alignment.                                               *)

RowType == [kind : {"context", "replace", "delete", "insert"}, line : Nat \X Nat]

HasLine(row) == \E side \in Sides : row.line[side] # NoLine

\* The lines of a side are between two lines and go up.
GoesUp(rows, side, low, high) ==
    /\ \A k \in DOMAIN rows : rows[k].line[side] # NoLine =>
          low < rows[k].line[side] /\ rows[k].line[side] <= high
    /\ \A j, k \in DOMAIN rows :
          /\ j < k /\ rows[j].line[side] # NoLine /\ rows[k].line[side] # NoLine
          => rows[j].line[side] < rows[k].line[side]

RowsInOrder(rows) ==
    /\ rows \in Seq(RowType)
    /\ \A k \in DOMAIN rows : HasLine(rows[k])
    /\ \A side \in Sides : \A j, k \in DOMAIN rows :
          /\ j < k /\ rows[j].line[side] # NoLine /\ rows[k].line[side] # NoLine
          => rows[j].line[side] < rows[k].line[side]

Block2 == Nat \X Nat
OpType == {"equal", "replace", "delete", "insert"} \X Block2 \X Block2

\* Lines that are a number apart from where they stand go up.
LEMMA ShiftedGoUp ==
    ASSUME NEW rows, NEW side, NEW n \in Nat, NEW low \in Nat, NEW high \in Nat,
           DOMAIN rows = 1 .. n,
           \A k \in 1 .. n : rows[k].line[side] # NoLine =>
              rows[k].line[side] = low + k /\ rows[k].line[side] <= high
    PROVE  GoesUp(rows, side, low, high)
<1>. DEFINE L(k) == rows[k].line[side]
<1>1. \A k \in 1 .. n : L(k) # NoLine => L(k) = low + k /\ L(k) <= high
  OBVIOUS
<1>. HIDE DEF L
<1>2. \A k \in 1 .. n : L(k) # NoLine => low < L(k) /\ L(k) <= high
  BY <1>1
<1>3. \A j, k \in 1 .. n : j < k /\ L(j) # NoLine /\ L(k) # NoLine => L(j) < L(k)
  BY <1>1
<1>. QED BY <1>2, <1>3 DEF L, GoesUp

\* One block of the alignment.
\* The line of the k-th row of a block.
LineIn(block, k) == IF block[1] + k <= block[2] THEN block[1] + k ELSE NoLine

\* A block has as many rows as its longer side has lines.
LEMMA RowsOfBlock ==
    ASSUME NEW op \in OpType, op[2][1] <= op[2][2], op[3][1] <= op[3][2]
    PROVE  \E n \in {op[2][2] - op[2][1], op[3][2] - op[3][1]} :
              /\ n \in Nat /\ op[2][2] - op[2][1] <= n /\ op[3][2] - op[3][1] <= n
              /\ RowsOf(op) \in Seq(RowType) /\ DOMAIN RowsOf(op) = 1 .. n
              /\ \A k \in 1 .. n :
                   /\ RowsOf(op)[k].kind = (IF op[1] = "equal" THEN "context" ELSE op[1])
                   /\ RowsOf(op)[k].line[1] = LineIn(op[2], k)
                   /\ RowsOf(op)[k].line[2] = LineIn(op[3], k)
<1>. DEFINE sizes == {op[2][2] - op[2][1], op[3][2] - op[3][1]}
            n == Max(sizes)
            rows == [k \in 1 .. n |->
                       [kind |-> IF op[1] = "equal" THEN "context" ELSE op[1],
                        line |-> <<LineIn(op[2], k), LineIn(op[3], k)>>]]
<1>1. op[2] \in Block2 /\ op[3] \in Block2 /\ op[1] \in {"equal", "replace", "delete", "insert"}
  BY DEF OpType
<1>2. /\ op[2][1] \in Nat /\ op[2][2] \in Nat /\ op[3][1] \in Nat /\ op[3][2] \in Nat
  BY <1>1 DEF Block2
<1>3. n \in Nat /\ n \in sizes /\ \A m \in sizes : m <= n
  <2>1. sizes \subseteq Nat /\ sizes # {} /\ IsFiniteSet(sizes)
    <3>3. IsFiniteSet(sizes)
      BY PairIsFinite
    <3>4. op[2][2] - op[2][1] \in Nat /\ op[3][2] - op[3][1] \in Nat
      BY <1>2
    <3>. QED BY <3>3, <3>4
  <2>2. sizes \subseteq Int
    BY <2>1
  <2>. HIDE DEF sizes
  <2>. QED BY <2>1, <2>2, MinMaxOf
<1>4. RowsOf(op) = rows
  BY DEF RowsOf, LineIn
<1>5. op[2][2] - op[2][1] <= n /\ op[3][2] - op[3][1] <= n
  BY <1>3
<1>. HIDE DEF n, rows, sizes
<1>6. DOMAIN rows = 1 .. n
  BY DEF rows
<1>7. \A k \in 1 .. n : LineIn(op[2], k) \in Nat /\ LineIn(op[3], k) \in Nat
  BY <1>2, <1>3 DEF LineIn, NoLine
<1>8. ASSUME NEW k \in 1 .. n
      PROVE  /\ rows[k].kind = (IF op[1] = "equal" THEN "context" ELSE op[1])
             /\ rows[k].line = <<LineIn(op[2], k), LineIn(op[3], k)>>
             /\ rows[k] = [kind |-> rows[k].kind, line |-> rows[k].line]
             /\ rows[k] \in RowType
  <2>1. /\ rows[k].kind = (IF op[1] = "equal" THEN "context" ELSE op[1])
        /\ rows[k].line = <<LineIn(op[2], k), LineIn(op[3], k)>>
        /\ rows[k] = [kind |-> rows[k].kind, line |-> rows[k].line]
    BY DEF rows
  <2>2. rows[k].kind \in {"context", "replace", "delete", "insert"}
    BY <1>1, <2>1
  <2>. QED BY <1>7, <2>1, <2>2 DEF RowType
<1>9. rows \in Seq(RowType)
  <2>1. rows = [k \in 1 .. n |-> rows[k]]
    BY DEF rows
  <2>. QED BY <1>3, <1>8, <2>1
<1>. QED BY <1>3, <1>4, <1>5, <1>6, <1>8, <1>9 DEF sizes

LEMMA BlockInOrder ==
    ASSUME NEW op \in OpType, op[2][1] <= op[2][2], op[3][1] <= op[3][2]
    PROVE  /\ RowsOf(op) \in Seq(RowType)
           /\ \A k \in DOMAIN RowsOf(op) : HasLine(RowsOf(op)[k])
           /\ GoesUp(RowsOf(op), 1, op[2][1], op[2][2])
           /\ GoesUp(RowsOf(op), 2, op[3][1], op[3][2])
<1>. DEFINE rows == RowsOf(op)
<1>1. op[2] \in Block2 /\ op[3] \in Block2
  BY DEF OpType
<1>2. /\ op[2][1] \in Nat /\ op[2][2] \in Nat /\ op[3][1] \in Nat /\ op[3][2] \in Nat
  BY <1>1 DEF Block2
<1>3. PICK n \in {op[2][2] - op[2][1], op[3][2] - op[3][1]} :
        /\ n \in Nat /\ rows \in Seq(RowType) /\ DOMAIN rows = 1 .. n
        /\ \A k \in 1 .. n : /\ rows[k].line[1] = LineIn(op[2], k)
                             /\ rows[k].line[2] = LineIn(op[3], k)
  BY RowsOfBlock
<1>. HIDE DEF rows
<1>4. ASSUME NEW k \in 1 .. n PROVE HasLine(rows[k])
  <2>1. LineIn(op[2], k) # NoLine \/ LineIn(op[3], k) # NoLine
    <3>1. CASE n = op[2][2] - op[2][1]
      BY <1>2, <3>1 DEF NoLine, LineIn
    <3>2. CASE n = op[3][2] - op[3][1]
      BY <1>2, <3>2 DEF NoLine, LineIn
    <3>. QED BY <3>1, <3>2
  <2>. QED BY <1>3, <2>1 DEF HasLine, Sides
<1>5. \A block \in {op[2], op[3]} : \A k \in 1 .. n : LineIn(block, k) # NoLine =>
          LineIn(block, k) = block[1] + k /\ LineIn(block, k) <= block[2]
  BY <1>2, <1>3 DEF NoLine, LineIn
<1>6. GoesUp(rows, 1, op[2][1], op[2][2])
  <2>1. \A k \in 1 .. n : rows[k].line[1] # NoLine =>
          rows[k].line[1] = op[2][1] + k /\ rows[k].line[1] <= op[2][2]
    BY <1>3, <1>5
  <2>. QED BY <1>2, <1>3, <2>1, ShiftedGoUp
<1>7. GoesUp(rows, 2, op[3][1], op[3][2])
  <2>1. \A k \in 1 .. n : rows[k].line[2] # NoLine =>
          rows[k].line[2] = op[3][1] + k /\ rows[k].line[2] <= op[3][2]
    BY <1>3, <1>5
  <2>. QED BY <1>2, <1>3, <2>1, ShiftedGoUp
<1>. QED BY <1>3, <1>4, <1>6, <1>7 DEF rows

\* Two parts of an alignment, one after the other.
LEMMA JoinedInOrder ==
    ASSUME NEW r \in Seq(RowType), NEW s \in Seq(RowType),
           \A k \in DOMAIN r : HasLine(r[k]), \A k \in DOMAIN s : HasLine(s[k])
    PROVE  /\ r \o s \in Seq(RowType)
           /\ \A k \in DOMAIN (r \o s) : HasLine((r \o s)[k])
           /\ \A side \in Sides : \A low, middle, high \in Nat :
                 /\ low <= middle /\ middle <= high
                 /\ GoesUp(r, side, low, middle) /\ GoesUp(s, side, middle, high)
                 => GoesUp(r \o s, side, low, high)
<1>. DEFINE t == r \o s
<1>1. /\ t \in Seq(RowType) /\ Len(r) \in Nat /\ Len(s) \in Nat
      /\ Len(t) = Len(r) + Len(s) /\ DOMAIN t = 1 .. (Len(r) + Len(s))
      /\ DOMAIN r = 1 .. Len(r) /\ DOMAIN s = 1 .. Len(s)
  OBVIOUS
<1>2. \A k \in DOMAIN t : \/ k \in DOMAIN r /\ t[k] = r[k]
                          \/ k - Len(r) \in DOMAIN s /\ t[k] = s[k - Len(r)]
  OBVIOUS
<1>3. \A k \in DOMAIN t : k \in Nat /\ (k \in DOMAIN r <=> k <= Len(r))
  BY <1>1
<1>4. \A k \in DOMAIN t : ~(k \in DOMAIN r) => k - Len(r) \in DOMAIN s /\ t[k] = s[k - Len(r)]
  BY <1>2
<1>5. \A k \in DOMAIN t : k \in DOMAIN r => t[k] = r[k]
  OBVIOUS
<1>. HIDE DEF t
<1>6. \A k \in DOMAIN t : HasLine(t[k])
  BY <1>4, <1>5
<1>7. ASSUME NEW side \in Sides, NEW low \in Nat, NEW middle \in Nat, NEW high \in Nat,
             low <= middle, middle <= high,
             GoesUp(r, side, low, middle), GoesUp(s, side, middle, high)
      PROVE  GoesUp(t, side, low, high)
  <2>0. \A k \in DOMAIN t : t[k].line[side] \in Nat
    <3>. TAKE k \in DOMAIN t
    <3>1. t[k] \in RowType
      BY <1>1
    <3>2. t[k].line \in Nat \X Nat
      BY <3>1 DEF RowType
    <3>. QED BY <3>2 DEF Sides
  <2>1. ASSUME NEW k \in DOMAIN t, t[k].line[side] # NoLine
        PROVE  /\ low < t[k].line[side] /\ t[k].line[side] <= high
               /\ k \in DOMAIN r => t[k].line[side] <= middle
               /\ k \notin DOMAIN r => middle < t[k].line[side]
    <3>1. CASE k \in DOMAIN r
      BY <1>5, <1>7, <2>0, <2>1, <3>1 DEF GoesUp
    <3>2. CASE k \notin DOMAIN r
      BY <1>4, <1>7, <2>0, <2>1, <3>2 DEF GoesUp
    <3>. QED BY <3>1, <3>2
  <2>2. ASSUME NEW j \in DOMAIN t, NEW k \in DOMAIN t, j < k,
               t[j].line[side] # NoLine, t[k].line[side] # NoLine
        PROVE  t[j].line[side] < t[k].line[side]
    <3>1. CASE k \in DOMAIN r
      <4>1. j \in DOMAIN r
        BY <1>1, <1>3, <2>2, <3>1
      <4>. QED BY <1>5, <1>7, <2>2, <3>1, <4>1 DEF GoesUp
    <3>2. CASE j \in DOMAIN r /\ k \notin DOMAIN r
      BY <2>0, <2>1, <2>2, <3>2
    <3>3. CASE j \notin DOMAIN r /\ k \notin DOMAIN r
      <4>1. j - Len(r) < k - Len(r)
        BY <1>1, <1>3, <2>2
      <4>. QED BY <1>4, <1>7, <2>2, <3>3, <4>1 DEF GoesUp
    <3>. QED BY <3>1, <3>2, <3>3
  <2>. QED BY <2>1, <2>2 DEF GoesUp
<1>. QED BY <1>1, <1>6, <1>7 DEF t

\* _align_lines: every row has a line on some side, and the lines of a side go up.
LEMMA AlignedInOrder ==
    ASSUME NEW left, NEW right, IsAlignment(Opcodes(left, right), left, right)
    PROVE  RowsInOrder(AlignLines(left, right))
<1>. DEFINE ops == Opcodes(left, right)
            parts == [k \in DOMAIN ops |-> RowsOf(ops[k])]
            From(k) == IF k = 1 THEN <<0, 0>> ELSE <<ops[k - 1][2][2], ops[k - 1][3][2]>>
<1>1. AlignLines(left, right) = FlattenSeq(parts)
  BY DEF AlignLines
<1>2. /\ ops \in Seq(OpType)
      /\ \A k \in DOMAIN ops : /\ From(k) = <<ops[k][2][1], ops[k][3][1]>>
                               /\ ops[k][2][1] <= ops[k][2][2] /\ ops[k][3][1] <= ops[k][3][2]
  BY DEF IsAlignment, OpType, Block2
<1>. DEFINE n == Len(ops)
<1>. HIDE DEF ops
<1>3. n \in Nat /\ DOMAIN ops = 1 .. n
  BY <1>2
<1>4. ASSUME NEW k \in 1 .. n
      PROVE  /\ ops[k] \in OpType /\ ops[k][2][1] \in Nat /\ ops[k][2][2] \in Nat
             /\ ops[k][3][1] \in Nat /\ ops[k][3][2] \in Nat
             /\ RowsOf(ops[k]) \in Seq(RowType)
             /\ \A j \in DOMAIN RowsOf(ops[k]) : HasLine(RowsOf(ops[k])[j])
             /\ GoesUp(RowsOf(ops[k]), 1, ops[k][2][1], ops[k][2][2])
             /\ GoesUp(RowsOf(ops[k]), 2, ops[k][3][1], ops[k][3][2])
  <2>1. ops[k] \in OpType
    BY <1>2, <1>3
  <2>2. ops[k][2] \in Block2 /\ ops[k][3] \in Block2
    BY <2>1 DEF OpType
  <2>3. ops[k][2][1] <= ops[k][2][2] /\ ops[k][3][1] <= ops[k][3][2]
    BY <1>2, <1>3
  <2>. QED BY <2>1, <2>2, <2>3, BlockInOrder DEF Block2
<1>5. parts \in Seq(Seq(RowType)) /\ Len(parts) = n /\ \A k \in 1 .. n : parts[k] = RowsOf(ops[k])
  BY <1>3, <1>4
<1>. HIDE DEF parts
<1>6. CASE n = 0
  <2>1. FlattenSeq(parts) = parts
    BY <1>5, <1>6 DEF FlattenSeq
  <2>2. parts = <<>>
    BY <1>5, <1>6
  <2>3. parts \in Seq(RowType) /\ DOMAIN parts = {}
    BY <2>2
  <2>. QED BY <1>1, <2>1, <2>3 DEF RowsInOrder
<1>7. CASE n # 0
  <2>. DEFINE InOrder(m, rows) ==
                /\ \A k \in DOMAIN rows : HasLine(rows[k])
                /\ GoesUp(rows, 1, 0, ops[m][2][2]) /\ GoesUp(rows, 2, 0, ops[m][3][2])
              Good == {p \in (1 .. n) \X Seq(RowType) : InOrder(p[1], p[2])}
  <2>1. parts # <<>> /\ 1 \in 1 .. n
    BY <1>3, <1>5, <1>7
  <2>2. <<1, parts[1]>> \in Good
    <3>1. From(1) = <<ops[1][2][1], ops[1][3][1]>>
      BY <1>2, <1>3, <2>1
    <3>2. ops[1][2][1] = 0 /\ ops[1][3][1] = 0 /\ parts[1] = RowsOf(ops[1])
      BY <1>5, <2>1, <3>1
    <3>3. InOrder(1, parts[1]) /\ parts[1] \in Seq(RowType)
      BY <1>4, <2>1, <3>2
    <3>. HIDE DEF InOrder
    <3>. QED BY <2>1, <3>3
  <2>3. ASSUME NEW i \in 1 .. (n - 1), NEW v \in Seq(RowType), <<i, v>> \in Good
        PROVE  <<i + 1, v \o parts[i + 1]>> \in Good
    <3>1. i \in 1 .. n /\ i + 1 \in 1 .. n /\ (i + 1) - 1 = i /\ i + 1 # 1
      BY <1>3
    <3>. DEFINE k == i + 1
                r == RowsOf(ops[k])
    <3>2. From(k) = <<ops[k][2][1], ops[k][3][1]>>
      BY <1>2, <1>3, <3>1
    <3>3. ops[k][2][1] = ops[i][2][2] /\ ops[k][3][1] = ops[i][3][2]
      BY <3>1, <3>2
    <3>4. k \in 1 .. n /\ parts[k] = r
      BY <1>5, <3>1
    <3>5. InOrder(i, v)
      BY <2>3
    <3>. HIDE DEF k, r, From
    <3>6. /\ 0 <= ops[i][2][2] /\ ops[i][2][2] <= ops[k][2][2]
          /\ 0 <= ops[i][3][2] /\ ops[i][3][2] <= ops[k][3][2]
      BY <1>2, <1>3, <1>4, <3>1, <3>3, <3>4
    <3>7. /\ r \in Seq(RowType) /\ \A j \in DOMAIN r : HasLine(r[j])
          /\ GoesUp(r, 1, ops[i][2][2], ops[k][2][2]) /\ GoesUp(r, 2, ops[i][3][2], ops[k][3][2])
      BY <1>4, <3>3, <3>4 DEF r
    <3>8. 1 \in Sides /\ 2 \in Sides
      BY DEF Sides
    <3>9. /\ ops[i][2][2] \in Nat /\ ops[k][2][2] \in Nat
          /\ ops[i][3][2] \in Nat /\ ops[k][3][2] \in Nat
      BY <1>4, <3>1, <3>4
    <3>10. /\ v \o r \in Seq(RowType) /\ \A j \in DOMAIN (v \o r) : HasLine((v \o r)[j])
           /\ \A side \in Sides : \A low, middle, high \in Nat :
                 /\ low <= middle /\ middle <= high
                 /\ GoesUp(v, side, low, middle) /\ GoesUp(r, side, middle, high)
                 => GoesUp(v \o r, side, low, high)
      BY <3>5, <3>7, JoinedInOrder
    <3>11. GoesUp(v \o r, 1, 0, ops[k][2][2])
      BY <3>5, <3>6, <3>7, <3>8, <3>9, <3>10
    <3>12. GoesUp(v \o r, 2, 0, ops[k][3][2])
      BY <3>5, <3>6, <3>7, <3>8, <3>9, <3>10
    <3>13. InOrder(k, v \o r)
      BY <3>10, <3>11, <3>12
    <3>. HIDE DEF InOrder
    <3>14. <<k, v \o r>> \in Good
      BY <3>4, <3>10, <3>13
    <3>. QED BY <3>4, <3>14 DEF k
  <2>4. FlattenSeq(parts) \in Seq(RowType) /\ <<n, FlattenSeq(parts)>> \in Good
    <3>. HIDE DEF Good
    <3>. QED BY <1>5, <2>1, <2>2, <2>3, FlattenInduction
  <2>. DEFINE all == FlattenSeq(parts)
  <2>. HIDE DEF all
  <2>5. InOrder(n, all)
    BY <2>4 DEF all
  <2>6. all \in Seq(RowType) /\ AlignLines(left, right) = all
    BY <1>1, <2>4 DEF all
  <2>7. \A side \in Sides : side = 1 \/ side = 2
    BY DEF Sides
  <2>. QED BY <2>5, <2>6, <2>7 DEF RowsInOrder, GoesUp
<1>. QED BY <1>3, <1>6, <1>7

\* What the rows of two texts tell: the lines of a side from one to another are there,
\* and where a row is of the context its lines are the same.
Covers(rows, side, low, high) ==
    \A l \in (low + 1) .. high : \E k \in DOMAIN rows : rows[k].line[side] = l

TellsSame(rows, left, right) ==
    \A k \in DOMAIN rows : rows[k].kind = "context" =>
       /\ rows[k].line[1] # NoLine /\ rows[k].line[2] # NoLine
       /\ left[rows[k].line[1]] = right[rows[k].line[2]]

SameBlock(op, left, right) ==
    op[1] = "equal" =>
       /\ op[2][2] - op[2][1] = op[3][2] - op[3][1]
       /\ \A j \in 1 .. (op[2][2] - op[2][1]) : left[op[2][1] + j] = right[op[3][1] + j]

LEMMA BlockIsComplete ==
    ASSUME NEW op \in OpType, op[2][1] <= op[2][2], op[3][1] <= op[3][2],
           NEW left, NEW right, SameBlock(op, left, right)
    PROVE  /\ Covers(RowsOf(op), 1, op[2][1], op[2][2])
           /\ Covers(RowsOf(op), 2, op[3][1], op[3][2])
           /\ TellsSame(RowsOf(op), left, right)
<1>. DEFINE rows == RowsOf(op)
<1>1. op[2] \in Block2 /\ op[3] \in Block2 /\ op[1] \in {"equal", "replace", "delete", "insert"}
  BY DEF OpType
<1>2. /\ op[2][1] \in Nat /\ op[2][2] \in Nat /\ op[3][1] \in Nat /\ op[3][2] \in Nat
  BY <1>1 DEF Block2
<1>3. PICK n \in {op[2][2] - op[2][1], op[3][2] - op[3][1]} :
        /\ n \in Nat /\ op[2][2] - op[2][1] <= n /\ op[3][2] - op[3][1] <= n
        /\ DOMAIN rows = 1 .. n
        /\ \A k \in 1 .. n :
             /\ rows[k].kind = (IF op[1] = "equal" THEN "context" ELSE op[1])
             /\ rows[k].line[1] = LineIn(op[2], k) /\ rows[k].line[2] = LineIn(op[3], k)
  BY RowsOfBlock
<1>. HIDE DEF rows
<1>4. Covers(rows, 1, op[2][1], op[2][2])
  <2>. SUFFICES ASSUME NEW l \in (op[2][1] + 1) .. op[2][2]
                PROVE  \E k \in DOMAIN rows : rows[k].line[1] = l
    BY DEF Covers
  <2>. DEFINE k == l - op[2][1]
  <2>1. k \in 1 .. n /\ op[2][1] + k = l /\ l <= op[2][2]
    <3>1. n \in Nat /\ op[2][2] - op[2][1] <= n
      BY <1>3
    <3>2. op[2][1] \in Nat /\ op[2][2] \in Nat
      BY <1>2
    <3>. QED BY <3>1, <3>2
  <2>2. LineIn(op[2], k) = l
    BY <2>1 DEF LineIn
  <2>. QED BY <1>3, <2>1, <2>2
<1>5. Covers(rows, 2, op[3][1], op[3][2])
  <2>. SUFFICES ASSUME NEW l \in (op[3][1] + 1) .. op[3][2]
                PROVE  \E k \in DOMAIN rows : rows[k].line[2] = l
    BY DEF Covers
  <2>. DEFINE k == l - op[3][1]
  <2>1. k \in 1 .. n /\ op[3][1] + k = l /\ l <= op[3][2]
    <3>1. n \in Nat /\ op[3][2] - op[3][1] <= n
      BY <1>3
    <3>2. op[3][1] \in Nat /\ op[3][2] \in Nat
      BY <1>2
    <3>. QED BY <3>1, <3>2
  <2>2. LineIn(op[3], k) = l
    BY <2>1 DEF LineIn
  <2>. QED BY <1>3, <2>1, <2>2
<1>6. TellsSame(rows, left, right)
  <2>. SUFFICES ASSUME NEW k \in 1 .. n, rows[k].kind = "context"
                PROVE  /\ rows[k].line[1] # NoLine /\ rows[k].line[2] # NoLine
                       /\ left[rows[k].line[1]] = right[rows[k].line[2]]
    BY <1>3 DEF TellsSame
  <2>1. op[1] = "equal"
    BY <1>1, <1>3
  <2>2. /\ op[2][2] - op[2][1] = op[3][2] - op[3][1]
        /\ \A j \in 1 .. (op[2][2] - op[2][1]) : left[op[2][1] + j] = right[op[3][1] + j]
    BY <2>1 DEF SameBlock
  <2>3. n = op[2][2] - op[2][1] /\ n = op[3][2] - op[3][1]
    BY <1>3, <2>2
  <2>4. /\ op[2][1] + k <= op[2][2] /\ op[3][1] + k <= op[3][2]
        /\ op[2][1] + k # 0 /\ op[3][1] + k # 0
    BY <1>2, <2>3
  <2>5. rows[k].line[1] = op[2][1] + k /\ rows[k].line[2] = op[3][1] + k
    BY <1>3, <2>4 DEF LineIn
  <2>6. left[op[2][1] + k] = right[op[3][1] + k]
    BY <2>2, <2>3
  <2>. QED BY <2>4, <2>5, <2>6 DEF NoLine
<1>. QED BY <1>4, <1>5, <1>6 DEF rows

LEMMA JoinedIsComplete ==
    ASSUME NEW r \in Seq(RowType), NEW s \in Seq(RowType)
    PROVE  /\ \A side \in Sides : \A low, middle, high \in Nat :
                 Covers(r, side, low, middle) /\ Covers(s, side, middle, high)
                 => Covers(r \o s, side, low, high)
           /\ \A left, right : TellsSame(r, left, right) /\ TellsSame(s, left, right)
                               => TellsSame(r \o s, left, right)
<1>. DEFINE t == r \o s
<1>1. /\ Len(r) \in Nat /\ Len(s) \in Nat /\ DOMAIN t = 1 .. (Len(r) + Len(s))
      /\ DOMAIN r = 1 .. Len(r) /\ DOMAIN s = 1 .. Len(s)
  OBVIOUS
<1>2. \A k \in DOMAIN t : \/ k \in DOMAIN r /\ t[k] = r[k]
                          \/ k - Len(r) \in DOMAIN s /\ t[k] = s[k - Len(r)]
  OBVIOUS
<1>3. \A k \in DOMAIN r : k \in DOMAIN t /\ t[k] = r[k]
  OBVIOUS
<1>4. \A k \in DOMAIN s : k + Len(r) \in DOMAIN t /\ t[k + Len(r)] = s[k]
  OBVIOUS
<1>. HIDE DEF t
<1>5. ASSUME NEW side \in Sides, NEW low \in Nat, NEW middle \in Nat, NEW high \in Nat,
             Covers(r, side, low, middle), Covers(s, side, middle, high)
      PROVE  Covers(t, side, low, high)
  <2>. SUFFICES ASSUME NEW l \in (low + 1) .. high
                PROVE  \E k \in DOMAIN t : t[k].line[side] = l
    BY DEF Covers
  <2>1. l \in (low + 1) .. middle \/ l \in (middle + 1) .. high
    OBVIOUS
  <2>2. CASE l \in (low + 1) .. middle
    BY <1>3, <1>5, <2>2 DEF Covers
  <2>3. CASE l \in (middle + 1) .. high
    <3>1. PICK k \in DOMAIN s : s[k].line[side] = l
      BY <1>5, <2>3 DEF Covers
    <3>. QED BY <1>4, <3>1
  <2>. QED BY <2>1, <2>2, <2>3
<1>6. ASSUME NEW left, NEW right, TellsSame(r, left, right), TellsSame(s, left, right)
      PROVE  TellsSame(t, left, right)
  BY <1>2, <1>6 DEF TellsSame
<1>. QED BY <1>5, <1>6 DEF t

\* _align_lines: every line of both files has a row, and rows of context are the same on
\* both sides.
LEMMA AlignedIsComplete ==
    ASSUME NEW left, NEW right, IsAlignment(Opcodes(left, right), left, right)
    PROVE  /\ Covers(AlignLines(left, right), 1, 0, Len(left))
           /\ Covers(AlignLines(left, right), 2, 0, Len(right))
           /\ TellsSame(AlignLines(left, right), left, right)
<1>. DEFINE ops == Opcodes(left, right)
            parts == [k \in DOMAIN ops |-> RowsOf(ops[k])]
            From(k) == IF k = 1 THEN <<0, 0>> ELSE <<ops[k - 1][2][2], ops[k - 1][3][2]>>
            n == Len(ops)
            End == IF ops = <<>> THEN <<0, 0>> ELSE <<ops[n][2][2], ops[n][3][2]>>
<1>1. AlignLines(left, right) = FlattenSeq(parts)
  BY DEF AlignLines
<1>2. /\ ops \in Seq(OpType)
      /\ \A k \in DOMAIN ops : /\ From(k) = <<ops[k][2][1], ops[k][3][1]>>
                               /\ ops[k][2][1] <= ops[k][2][2] /\ ops[k][3][1] <= ops[k][3][2]
                               /\ SameBlock(ops[k], left, right)
      /\ End = <<Len(left), Len(right)>>
  BY DEF IsAlignment, OpType, Block2, SameBlock
<1>. HIDE DEF ops, n
<1>3. n \in Nat /\ DOMAIN ops = 1 .. n /\ (n = 0 => ops = <<>>) /\ (n # 0 => ops # <<>>)
  BY <1>2 DEF n
<1>4. ASSUME NEW k \in 1 .. n
      PROVE  /\ ops[k][2][2] \in Nat /\ ops[k][3][2] \in Nat
             /\ RowsOf(ops[k]) \in Seq(RowType)
             /\ Covers(RowsOf(ops[k]), 1, ops[k][2][1], ops[k][2][2])
             /\ Covers(RowsOf(ops[k]), 2, ops[k][3][1], ops[k][3][2])
             /\ TellsSame(RowsOf(ops[k]), left, right)
  <2>1. ops[k] \in OpType
    BY <1>2, <1>3
  <2>2. ops[k][2] \in Block2 /\ ops[k][3] \in Block2
    BY <2>1 DEF OpType
  <2>3. ops[k][2][1] <= ops[k][2][2] /\ ops[k][3][1] <= ops[k][3][2]
        /\ SameBlock(ops[k], left, right)
    BY <1>2, <1>3
  <2>. QED BY <2>1, <2>2, <2>3, BlockInOrder, BlockIsComplete DEF Block2
<1>5. parts \in Seq(Seq(RowType)) /\ Len(parts) = n /\ \A k \in 1 .. n : parts[k] = RowsOf(ops[k])
  BY <1>3, <1>4
<1>. HIDE DEF parts
<1>6. CASE n = 0
  <2>1. FlattenSeq(parts) = parts /\ parts = <<>>
    BY <1>5, <1>6 DEF FlattenSeq
  <2>2. Len(left) = 0 /\ Len(right) = 0
    BY <1>2, <1>3, <1>6
  <2>3. DOMAIN FlattenSeq(parts) = {}
    BY <2>1
  <2>. QED BY <1>1, <2>2, <2>3 DEF Covers, TellsSame
<1>7. CASE n # 0
  <2>. DEFINE Complete(m, rows) ==
                /\ Covers(rows, 1, 0, ops[m][2][2]) /\ Covers(rows, 2, 0, ops[m][3][2])
                /\ TellsSame(rows, left, right)
              Good == {p \in (1 .. n) \X Seq(RowType) : Complete(p[1], p[2])}
  <2>1. parts # <<>> /\ 1 \in 1 .. n
    BY <1>3, <1>5, <1>7
  <2>2. <<1, parts[1]>> \in Good
    <3>1. From(1) = <<ops[1][2][1], ops[1][3][1]>>
      BY <1>2, <1>3, <2>1
    <3>2. ops[1][2][1] = 0 /\ ops[1][3][1] = 0 /\ parts[1] = RowsOf(ops[1])
      BY <1>5, <2>1, <3>1
    <3>3. Complete(1, parts[1]) /\ parts[1] \in Seq(RowType)
      BY <1>4, <2>1, <3>2
    <3>. HIDE DEF Complete
    <3>. QED BY <2>1, <3>3
  <2>3. ASSUME NEW i \in 1 .. (n - 1), NEW v \in Seq(RowType), <<i, v>> \in Good
        PROVE  <<i + 1, v \o parts[i + 1]>> \in Good
    <3>1. i \in 1 .. n /\ i + 1 \in 1 .. n /\ (i + 1) - 1 = i /\ i + 1 # 1
      BY <1>3
    <3>. DEFINE k == i + 1
                r == RowsOf(ops[k])
    <3>2. From(k) = <<ops[k][2][1], ops[k][3][1]>>
      BY <1>2, <1>3, <3>1
    <3>3. ops[k][2][1] = ops[i][2][2] /\ ops[k][3][1] = ops[i][3][2]
      BY <3>1, <3>2
    <3>4. k \in 1 .. n /\ parts[k] = r
      BY <1>5, <3>1
    <3>5. Complete(i, v)
      BY <2>3
    <3>. HIDE DEF k, r, From
    <3>6. /\ r \in Seq(RowType) /\ TellsSame(r, left, right)
          /\ Covers(r, 1, ops[i][2][2], ops[k][2][2]) /\ Covers(r, 2, ops[i][3][2], ops[k][3][2])
      BY <1>4, <3>3, <3>4 DEF r
    <3>7. 1 \in Sides /\ 2 \in Sides /\ 0 \in Nat
      BY DEF Sides
    <3>8. /\ ops[i][2][2] \in Nat /\ ops[k][2][2] \in Nat
          /\ ops[i][3][2] \in Nat /\ ops[k][3][2] \in Nat
      BY <1>4, <3>1, <3>4
    <3>9. /\ \A side \in Sides : \A low, middle, high \in Nat :
               Covers(v, side, low, middle) /\ Covers(r, side, middle, high)
               => Covers(v \o r, side, low, high)
          /\ TellsSame(v, left, right) /\ TellsSame(r, left, right)
               => TellsSame(v \o r, left, right)
      BY <3>6, JoinedIsComplete
    <3>10. Covers(v \o r, 1, 0, ops[k][2][2])
      BY <3>5, <3>6, <3>7, <3>8, <3>9
    <3>11. Covers(v \o r, 2, 0, ops[k][3][2])
      BY <3>5, <3>6, <3>7, <3>8, <3>9
    <3>12. Complete(k, v \o r) /\ v \o r \in Seq(RowType)
      BY <3>5, <3>6, <3>9, <3>10, <3>11
    <3>. HIDE DEF Complete
    <3>13. <<k, v \o r>> \in Good
      BY <3>4, <3>12
    <3>. QED BY <3>4, <3>13 DEF k
  <2>4. <<n, FlattenSeq(parts)>> \in Good
    <3>. HIDE DEF Good
    <3>. QED BY <1>5, <2>1, <2>2, <2>3, FlattenInduction
  <2>. DEFINE all == FlattenSeq(parts)
  <2>. HIDE DEF all
  <2>5. Complete(n, all)
    BY <2>4 DEF all
  <2>6. ops[n][2][2] = Len(left) /\ ops[n][3][2] = Len(right)
    BY <1>2, <1>3, <1>7
  <2>. QED BY <1>1, <2>5, <2>6 DEF all
<1>. QED BY <1>3, <1>6, <1>7

-----------------------------------------------------------------------------
(* The blocks of a view.                                                   *)

LEMMA LinesAreNumbers ==
    ASSUME NEW rows, RowsInOrder(rows)
    PROVE  /\ DOMAIN rows = 1 .. Len(rows) /\ Len(rows) \in Nat
           /\ \A k \in DOMAIN rows : \A side \in Sides : rows[k].line[side] \in Nat
<1>. SUFFICES ASSUME NEW k \in DOMAIN rows, NEW side \in Sides
              PROVE  rows[k].line[side] \in Nat
  BY DEF RowsInOrder
<1>1. rows[k] \in RowType
  BY DEF RowsInOrder
<1>2. rows[k].line \in Nat \X Nat
  BY <1>1 DEF RowType
<1>. QED BY <1>2 DEF Sides

LEMMA LinesGoUp ==
    ASSUME NEW rows, RowsInOrder(rows), NEW side \in Sides,
           NEW j \in DOMAIN rows, NEW k \in DOMAIN rows, j < k,
           rows[j].line[side] # NoLine, rows[k].line[side] # NoLine
    PROVE  rows[j].line[side] < rows[k].line[side]
BY DEF RowsInOrder

\* The lines that a run of rows has on a side go from the first to the last of a range.
IsRangeOf(range, rows, first, last, side) ==
    /\ range = NoRange => \A k \in first .. last : rows[k].line[side] = NoLine
    /\ range # NoRange =>
          /\ range = <<range[1], range[2]>>
          /\ range[1] \in Nat \ {0} /\ range[2] \in Nat /\ range[1] <= range[2]
          /\ \E k \in first .. last : range[1] = rows[k].line[side]
          /\ \E k \in first .. last : range[2] = rows[k].line[side]
          /\ \A k \in first .. last : rows[k].line[side] # NoLine =>
                range[1] <= rows[k].line[side] /\ rows[k].line[side] <= range[2]

LEMMA RangeIsOfItsRows ==
    ASSUME NEW rows, RowsInOrder(rows), NEW first \in DOMAIN rows, NEW last \in DOMAIN rows,
           first <= last, NEW side \in Sides
    PROVE  IsRangeOf(RowRange(rows, first, last, side), rows, first, last, side)
<1>. DEFINE lines == {rows[k].line[side] : k \in first .. last} \ {NoLine}
<1>1. DOMAIN rows = 1 .. Len(rows) /\ Len(rows) \in Nat /\ first .. last \subseteq DOMAIN rows
  BY DEF RowsInOrder
<1>2. \A k \in DOMAIN rows : rows[k].line[side] \in Nat
  BY LinesAreNumbers
<1>3. lines \subseteq Nat \ {0}
  BY <1>1, <1>2 DEF NoLine
<1>4. IsFiniteSet(lines)
  <2>1. IsFiniteSet(first .. last)
    BY <1>1, FS_Interval
  <2>. DEFINE f == [k \in first .. last |-> rows[k].line[side]]
  <2>2. IsFiniteSet({f[k] : k \in first .. last})
    BY <2>1, ImageIsFinite
  <2>3. lines \subseteq {f[k] : k \in first .. last}
    OBVIOUS
  <2>. HIDE DEF f
  <2>. QED BY <2>2, <2>3, FS_Subset
<1>5. CASE lines = {}
  <2>1. RowRange(rows, first, last, side) = NoRange
    BY <1>5 DEF RowRange
  <2>2. \A k \in first .. last : rows[k].line[side] = NoLine
    BY <1>5
  <2>. QED BY <2>1, <2>2 DEF IsRangeOf
<1>6. CASE lines # {}
  <2>1. RowRange(rows, first, last, side) = <<Min(lines), Max(lines)>>
    BY <1>6 DEF RowRange
  <2>2. /\ Min(lines) \in lines /\ Max(lines) \in lines
        /\ \A x \in lines : Min(lines) <= x /\ x <= Max(lines)
    <3>. HIDE DEF lines
    <3>1. lines \subseteq Int
      BY <1>3
    <3>. QED BY <1>4, <1>6, <3>1, MinMaxOf
  <2>3. <<Min(lines), Max(lines)>> # NoRange
    BY DEF NoRange
  <2>4. Min(lines) <= Max(lines)
    BY <2>2
  <2>. DEFINE range == RowRange(rows, first, last, side)
  <2>5. range # NoRange /\ range[1] = Min(lines) /\ range[2] = Max(lines)
        /\ range = <<range[1], range[2]>>
    BY <2>1, <2>3
  <2>6. \A x \in lines : \E k \in first .. last : x = rows[k].line[side]
    OBVIOUS
  <2>7. \A k \in first .. last : rows[k].line[side] # NoLine => rows[k].line[side] \in lines
    OBVIOUS
  <2>8. range[1] \in lines /\ range[2] \in lines /\ range[1] <= range[2]
    BY <2>2, <2>4, <2>5
  <2>9. range[1] \in Nat \ {0} /\ range[2] \in Nat
    BY <1>3, <2>8
  <2>10. /\ \E k \in first .. last : range[1] = rows[k].line[side]
         /\ \E k \in first .. last : range[2] = rows[k].line[side]
    BY <2>6, <2>8
  <2>11. \A k \in first .. last : rows[k].line[side] # NoLine =>
            range[1] <= rows[k].line[side] /\ rows[k].line[side] <= range[2]
    <3>. HIDE DEF lines
    <3>. QED BY <2>2, <2>5, <2>7
  <2>. HIDE DEF range, lines
  <2>12. IsRangeOf(range, rows, first, last, side)
    BY <2>5, <2>8, <2>9, <2>10, <2>11 DEF IsRangeOf
  <2>. QED BY <2>12 DEF range
<1>. QED BY <1>5, <1>6

\* The ranges of a run of rows, on both sides.
RangesOf(rows, first, last) == [side \in Sides |-> RowRange(rows, first, last, side)]

RangePair == [Sides -> {NoRange} \cup (Nat \X Nat)]

LEMMA RangesOfRows ==
    ASSUME NEW rows, RowsInOrder(rows), NEW first \in DOMAIN rows, NEW last \in DOMAIN rows,
           first <= last
    PROVE  /\ RangesOf(rows, first, last) \in RangePair
           /\ RangesOf(rows, first, last) # <<NoRange, NoRange>>
           /\ RangeRows(rows, RangesOf(rows, first, last)) = first .. last
<1>. DEFINE range == RangesOf(rows, first, last)
<1>1. DOMAIN rows = 1 .. Len(rows) /\ Len(rows) \in Nat /\ first .. last \subseteq DOMAIN rows
  BY DEF RowsInOrder
<1>2. \A side \in Sides : IsRangeOf(range[side], rows, first, last, side)
  BY RangeIsOfItsRows DEF RangesOf
<1>3. range \in RangePair
  <2>1. range = [side \in Sides |-> range[side]]
    BY DEF RangesOf
  <2>2. \A side \in Sides : range[side] \in {NoRange} \cup (Nat \X Nat)
    <3>. TAKE side \in Sides
    <3>. DEFINE r == range[side]
    <3>1. IsRangeOf(r, rows, first, last, side)
      BY <1>2
    <3>. HIDE DEF r
    <3>2. r # NoRange => r = <<r[1], r[2]>> /\ r[1] \in Nat /\ r[2] \in Nat
      BY <3>1 DEF IsRangeOf
    <3>3. r \in {NoRange} \cup (Nat \X Nat)
      BY <3>2
    <3>. QED BY <3>3 DEF r
  <2>. HIDE DEF range
  <2>. QED BY <2>1, <2>2 DEF RangePair
<1>4. \A k \in first .. last : \E side \in Sides :
         rows[k].line[side] # NoLine /\ range[side] # NoRange
  <2>. TAKE k \in first .. last
  <2>1. PICK side \in Sides : rows[k].line[side] # NoLine
    BY <1>1 DEF RowsInOrder, HasLine
  <2>. HIDE DEF range
  <2>2. range[side] # NoRange
    BY <1>2, <2>1 DEF IsRangeOf
  <2>. QED BY <2>1, <2>2
<1>5. range # <<NoRange, NoRange>>
  <2>1. first \in first .. last
    BY <1>1
  <2>2. PICK side \in Sides : range[side] # NoRange
    BY <1>4, <2>1
  <2>3. <<NoRange, NoRange>>[side] = NoRange
    BY DEF Sides
  <2>. QED BY <2>2, <2>3
<1>. HIDE DEF range
<1>6. ASSUME NEW k \in first .. last PROVE k \in RangeRows(rows, range)
  <2>1. PICK side \in Sides : rows[k].line[side] # NoLine /\ range[side] # NoRange
    BY <1>4
  <2>2. InRange(rows[k].line[side], range[side])
    BY <1>2, <2>1 DEF InRange, IsRangeOf
  <2>. QED BY <1>1, <2>2 DEF RangeRows
<1>7. ASSUME NEW k \in RangeRows(rows, range) PROVE k \in first .. last
  <2>1. PICK side \in Sides : InRange(rows[k].line[side], range[side])
    BY DEF RangeRows
  <2>2. k \in DOMAIN rows /\ rows[k].line[side] \in Nat
    <3>1. k \in DOMAIN rows /\ rows[k] \in RowType
      BY DEF RowsInOrder, RangeRows
    <3>2. rows[k].line \in Nat \X Nat
      BY <3>1 DEF RowType
    <3>. QED BY <3>1, <3>2 DEF Sides
  <2>3. /\ rows[k].line[side] # NoLine /\ range[side] # NoRange
        /\ range[side][1] <= rows[k].line[side] /\ rows[k].line[side] <= range[side][2]
    BY <2>1 DEF InRange
  <2>4. PICK low \in first .. last : range[side][1] = rows[low].line[side]
    BY <1>2, <2>3 DEF IsRangeOf
  <2>5. PICK high \in first .. last : range[side][2] = rows[high].line[side]
    BY <1>2, <2>3 DEF IsRangeOf
  <2>6. rows[low].line[side] \in Nat \ {0} /\ rows[high].line[side] \in Nat
    BY <1>2, <2>3, <2>4, <2>5 DEF IsRangeOf
  <2>7. ~(k < low)
    BY <1>1, <2>2, <2>3, <2>4, <2>6 DEF RowsInOrder, NoLine
  <2>8. ~(high < k)
    BY <1>1, <2>2, <2>3, <2>5, <2>6 DEF RowsInOrder, NoLine
  <2>. QED BY <1>1, <2>2, <2>7, <2>8
<1>. QED BY <1>3, <1>5, <1>6, <1>7 DEF range

\* A click at an edge of a gap asks for the row that stands there.
LEMMA EdgeIsAskedFor ==
    ASSUME NEW rows, RowsInOrder(rows), NEW first \in DOMAIN rows, NEW last \in DOMAIN rows,
           first <= last, NEW block, block.range = RangesOf(rows, first, last),
           NEW edge \in {"start", "end"}
    PROVE  /\ GapRanges(block, edge) \in RangePair
           /\ (IF edge = "start" THEN first ELSE last)
                \in RangeRows(rows, GapRanges(block, edge))
<1>. DEFINE asked == GapRanges(block, edge)
            row == IF edge = "start" THEN first ELSE last
<1>1. /\ DOMAIN rows = 1 .. Len(rows) /\ Len(rows) \in Nat /\ first .. last \subseteq DOMAIN rows
      /\ row \in first .. last
  BY DEF RowsInOrder
<1>2. ASSUME NEW side \in Sides
      PROVE  /\ asked[side] \in {NoRange} \cup (Nat \X Nat)
             /\ rows[row].line[side] # NoLine => InRange(rows[row].line[side], asked[side])
  <2>. DEFINE range == RowRange(rows, first, last, side)
  <2>1. asked[side] = ContextRange(range, edge)
    BY DEF GapRanges, RangesOf
  <2>2. CASE range = NoRange
    <3>1. rows[row].line[side] = NoLine
      <4>1. \A k \in first .. last : rows[k].line[side] = NoLine
        BY <2>2, RangeIsOfItsRows DEF IsRangeOf
      <4>. HIDE DEF row
      <4>. QED BY <1>1, <4>1
    <3>. QED BY <2>1, <2>2, <3>1 DEF ContextRange
  <2>3. CASE range # NoRange
    <3>1. /\ range[1] \in Nat \ {0} /\ range[2] \in Nat /\ range[1] <= range[2]
          /\ \E k \in first .. last : range[1] = rows[k].line[side]
          /\ \E k \in first .. last : range[2] = rows[k].line[side]
          /\ \A k \in first .. last : rows[k].line[side] # NoLine =>
               range[1] <= rows[k].line[side] /\ rows[k].line[side] <= range[2]
      BY <2>3, RangeIsOfItsRows DEF IsRangeOf
    <3>. HIDE DEF range
    <3>2. PICK low \in first .. last : range[1] = rows[low].line[side]
      BY <3>1
    <3>3. PICK high \in first .. last : range[2] = rows[high].line[side]
      BY <3>1
    <3>4. CONTEXT_STEP \in Nat \ {0}
      BY CardAssumption
    <3>5. CASE edge = "start"
      <4>. DEFINE upTo == Min({range[2], range[1] + CONTEXT_STEP - 1})
      <4>1. asked[side] = <<range[1], upTo>>
        BY <2>1, <2>3, <3>5 DEF ContextRange
      <4>2. upTo \in Nat /\ range[1] <= upTo
        <5>. DEFINE S == {range[2], range[1] + CONTEXT_STEP - 1}
        <5>1. IsFiniteSet(S)
          BY PairIsFinite
        <5>2. S \subseteq Int /\ S # {}
          BY <3>1, <3>4
        <5>3. Min(S) \in S
          <6>. HIDE DEF S
          <6>. QED BY <5>1, <5>2, MinMaxOf
        <5>4. upTo \in {range[2], range[1] + CONTEXT_STEP - 1}
          BY <5>3
        <5>. HIDE DEF upTo
        <5>. QED BY <3>1, <3>4, <5>4
      <4>3. rows[row].line[side] # NoLine => rows[row].line[side] = range[1]
        <5>. SUFFICES ASSUME rows[first].line[side] # NoLine
                      PROVE  rows[first].line[side] = range[1]
          BY <3>5
        <5>1. first \in first .. last /\ low \in DOMAIN rows /\ ~(low < first)
          BY <1>1
        <5>2. rows[first].line[side] >= range[1]
          BY <3>1, <5>1
        <5>3. first = low \/ first < low
          BY <1>1, <5>1
        <5>4. first < low => rows[first].line[side] < rows[low].line[side]
          BY <3>1, <3>2, <5>1, LinesGoUp DEF NoLine
        <5>. QED BY <3>1, <3>2, <5>2, <5>3, <5>4, LinesAreNumbers
      <4>. HIDE DEF upTo
      <4>4. asked[side] \in Nat \X Nat /\ asked[side] # NoRange
        BY <3>1, <4>1, <4>2 DEF NoRange
      <4>5. asked[side][1] = range[1] /\ asked[side][2] = upTo
        BY <4>1
      <4>. HIDE DEF asked, row
      <4>. QED BY <3>1, <4>2, <4>3, <4>4, <4>5 DEF InRange
    <3>6. CASE edge = "end"
      <4>. DEFINE from == Max({range[1], range[2] - CONTEXT_STEP + 1})
      <4>1. asked[side] = <<from, range[2]>>
        BY <2>1, <2>3, <3>6 DEF ContextRange
      <4>2. from \in Nat /\ from <= range[2]
        <5>. DEFINE S == {range[1], range[2] - CONTEXT_STEP + 1}
        <5>1. IsFiniteSet(S)
          BY PairIsFinite
        <5>2. S \subseteq Int /\ S # {}
          BY <3>1, <3>4
        <5>3. Max(S) \in S /\ \A x \in S : x <= Max(S)
          <6>. HIDE DEF S
          <6>. QED BY <5>1, <5>2, MinMaxOf
        <5>4. from \in {range[1], range[2] - CONTEXT_STEP + 1} /\ range[1] <= from
          BY <5>3
        <5>. HIDE DEF from
        <5>. QED BY <3>1, <3>4, <5>4
      <4>3. rows[row].line[side] # NoLine => rows[row].line[side] = range[2]
        <5>. SUFFICES ASSUME rows[last].line[side] # NoLine
                      PROVE  rows[last].line[side] = range[2]
          BY <3>6
        <5>1. last \in first .. last /\ high \in DOMAIN rows /\ ~(last < high)
          BY <1>1
        <5>2. rows[last].line[side] <= range[2]
          BY <3>1, <5>1
        <5>3. last = high \/ high < last
          BY <1>1, <5>1
        <5>4. high < last => rows[high].line[side] < rows[last].line[side]
          BY <3>1, <3>3, <5>1, LinesGoUp DEF NoLine
        <5>. QED BY <3>1, <3>3, <5>2, <5>3, <5>4, LinesAreNumbers
      <4>. HIDE DEF from
      <4>4. asked[side] \in Nat \X Nat /\ asked[side] # NoRange
        BY <3>1, <4>1, <4>2 DEF NoRange
      <4>5. asked[side][1] = from /\ asked[side][2] = range[2]
        BY <4>1
      <4>. HIDE DEF asked, row
      <4>. QED BY <3>1, <4>2, <4>3, <4>4, <4>5 DEF InRange
    <3>. QED BY <3>5, <3>6
  <2>. QED BY <2>2, <2>3
<1>3. asked \in RangePair
  <2>1. asked = [side \in Sides |-> asked[side]]
    BY DEF GapRanges
  <2>. HIDE DEF asked
  <2>. QED BY <1>2, <2>1 DEF RangePair
<1>4. row \in RangeRows(rows, asked)
  <2>1. PICK side \in Sides : rows[row].line[side] # NoLine
    BY <1>1 DEF RowsInOrder, HasLine
  <2>. HIDE DEF asked, row
  <2>. QED BY <1>1, <1>2, <2>1 DEF RangeRows
<1>. QED BY <1>3, <1>4

\* Where blocks start and end, as SourceBlocks reads it.
EndOf(rows, starts, b) == IF b = Len(starts) THEN Len(rows) ELSE starts[b + 1] - 1

IsStart(selected, k) == k = 1 \/ (k \in selected) # (k - 1 \in selected)

\* The blocks' starts go up from 1; between two of them selection does not change,
\* and every row is in a block.
LEMMA StartsCutRows ==
    ASSUME NEW rows, RowsInOrder(rows), NEW selected, selected \subseteq DOMAIN rows
    PROVE  LET starts == BlockStarts(rows, selected)
           IN  /\ starts \in Seq(DOMAIN rows) /\ DOMAIN starts = 1 .. Len(starts)
               /\ \A b \in DOMAIN starts :
                    /\ starts[b] <= EndOf(rows, starts, b) /\ EndOf(rows, starts, b) \in DOMAIN rows
                    /\ \A k \in starts[b] .. EndOf(rows, starts, b) :
                         k \in selected <=> starts[b] \in selected
               /\ \A k \in DOMAIN rows : \E b \in DOMAIN starts :
                    k \in starts[b] .. EndOf(rows, starts, b)
<1>. DEFINE S == {k \in DOMAIN rows : k = 1 \/ (k \in selected) # (k - 1 \in selected)}
            starts == BlockStarts(rows, selected)
            End(b) == EndOf(rows, starts, b)
            n == Len(rows)
<1>1. n \in Nat /\ DOMAIN rows = 1 .. n
  BY LinesAreNumbers
<1>2. starts = Positions(rows, S)
  BY DEF BlockStarts
<1>3. S \cap DOMAIN rows = S /\ S \subseteq DOMAIN rows
  OBVIOUS
<1>4. /\ IsFiniteSet(S) /\ starts \in Seq(S) /\ DOMAIN starts = 1 .. Len(starts)
      /\ Len(starts) \in Nat /\ ToSet(starts) = S
      /\ \A i, j \in DOMAIN starts : i < j <=> starts[i] < starts[j]
  <2>. HIDE DEF S, starts
  <2>1. rows \in Seq(RowType)
    BY DEF RowsInOrder
  <2>. DEFINE at == S \cap DOMAIN rows
              p == Positions(rows, S)
  <2>2. /\ IsFiniteSet(at) /\ Cardinality(at) \in Nat
        /\ p \in Seq(at) /\ Len(p) = Cardinality(at) /\ DOMAIN p = 1 .. Cardinality(at)
        /\ ToSet(p) = at /\ \A i, j \in DOMAIN p : i < j <=> p[i] < p[j]
    BY <2>1, PositionsOf
  <2>3. at = S /\ p = starts
    BY <1>2, <1>3
  <2>. HIDE DEF at, p
  <2>. QED BY <2>2, <2>3
<1>5. \A k \in S : k = 1 \/ (k \in selected) # (k - 1 \in selected)
  OBVIOUS
<1>6. \A k \in DOMAIN rows : k \notin S => k # 1 /\ ((k \in selected) <=> (k - 1 \in selected))
  OBVIOUS
<1>7. n # 0 => 1 \in S
  BY <1>1
<1>. HIDE DEF S, starts
<1>8. \A b \in DOMAIN starts : starts[b] \in S /\ starts[b] \in 1 .. n /\ b \in 1 .. Len(starts)
  BY <1>1, <1>3, <1>4
<1>9. \A k \in S : \E b \in DOMAIN starts : starts[b] = k
  BY <1>4 DEF ToSet
<1>10. ASSUME NEW b \in DOMAIN starts
       PROVE  /\ End(b) \in 1 .. n /\ starts[b] <= End(b)
              /\ \A k \in S : starts[b] < k => End(b) < k
  <2>1. CASE b = Len(starts)
    <3>1. End(b) = n
      BY <2>1 DEF EndOf
    <3>2. \A j \in DOMAIN starts : ~(b < j)
      BY <1>4, <2>1
    <3>3. \A k \in S : ~(starts[b] < k)
      BY <1>4, <1>9, <3>2
    <3>. QED BY <1>1, <1>8, <3>1, <3>3
  <2>2. CASE b # Len(starts)
    <3>1. End(b) = starts[b + 1] - 1 /\ b + 1 \in DOMAIN starts /\ b < b + 1
      BY <1>4, <1>8, <2>2 DEF EndOf
    <3>2. starts[b] < starts[b + 1]
      BY <1>4, <3>1
    <3>3. \A k \in S : starts[b] < k => starts[b + 1] <= k
      <4>. SUFFICES ASSUME NEW j \in DOMAIN starts, starts[b] < starts[j]
                    PROVE  starts[b + 1] <= starts[j]
        BY <1>9
      <4>1. b < j
        BY <1>4
      <4>2. j = b + 1 \/ b + 1 < j
        BY <1>8, <4>1
      <4>. QED BY <1>4, <1>8, <3>1, <4>2
    <3>4. \A k \in S : k \in 1 .. n
      BY <1>1, <1>3
    <3>. QED BY <1>8, <3>1, <3>2, <3>3, <3>4
  <2>. QED BY <2>1, <2>2
<1>11. ASSUME NEW b \in DOMAIN starts, NEW k \in starts[b] .. End(b)
       PROVE  k \in selected <=> starts[b] \in selected
  <2>. DEFINE P == {m \in Nat : starts[b] + m <= End(b) =>
                      (starts[b] + m \in selected <=> starts[b] \in selected)}
  <2>0. starts[b] \in 1 .. n /\ End(b) \in 1 .. n
    BY <1>8, <1>10
  <2>1. 0 \in P
    BY <2>0
  <2>2. ASSUME NEW m \in Nat, m \in P PROVE m + 1 \in P
    <3>. DEFINE j == starts[b] + (m + 1)
    <3>. SUFFICES ASSUME j <= End(b) PROVE j \in selected <=> starts[b] \in selected
      OBVIOUS
    <3>1. j - 1 = starts[b] + m /\ starts[b] < j /\ j \in 1 .. n /\ starts[b] + m <= End(b)
      BY <2>0
    <3>2. j \notin S
      BY <1>1, <1>10, <2>0, <3>1
    <3>3. j \in selected <=> j - 1 \in selected
      BY <1>1, <1>6, <3>1, <3>2
    <3>. QED BY <2>2, <3>1, <3>3
  <2>3. \A m \in Nat : m \in P
    <3>. HIDE DEF P
    <3>. QED BY <2>1, <2>2, NatSetInduction
  <2>4. k - starts[b] \in Nat /\ starts[b] + (k - starts[b]) = k /\ k <= End(b)
    BY <2>0
  <2>5. k - starts[b] \in P
    BY <2>3, <2>4
  <2>. QED BY <2>4, <2>5
<1>12. ASSUME NEW k \in DOMAIN rows
       PROVE  \E b \in DOMAIN starts : k \in starts[b] .. End(b)
  <2>. DEFINE T == {j \in S : j <= k}
  <2>1. k \in 1 .. n /\ 1 \in T
    BY <1>1, <1>7
  <2>2. T \subseteq S /\ IsFiniteSet(T)
    BY <1>4, FS_Subset
  <2>3. T \subseteq Int /\ T # {}
    BY <1>1, <1>3, <2>1, <2>2
  <2>. DEFINE m == Max(T)
  <2>4. m \in T /\ \A j \in T : j <= m
    <3>. HIDE DEF T
    <3>. QED BY <2>2, <2>3, MinMaxOf
  <2>5. PICK b \in DOMAIN starts : starts[b] = m
    BY <1>9, <2>2, <2>4
  <2>. HIDE DEF m
  <2>6. m <= k /\ m \in 1 .. n
    BY <1>1, <1>3, <2>4
  <2>7. k <= End(b)
    <3>1. CASE b = Len(starts)
      BY <2>1, <3>1 DEF EndOf
    <3>2. CASE b # Len(starts)
      <4>1. End(b) = starts[b + 1] - 1 /\ b + 1 \in DOMAIN starts /\ b < b + 1
        BY <1>4, <1>8, <3>2 DEF EndOf
      <4>2. m < starts[b + 1] /\ starts[b + 1] \in S /\ starts[b + 1] \in 1 .. n
        BY <1>4, <1>8, <2>5, <4>1
      <4>3. ~(starts[b + 1] <= k)
        BY <2>4, <2>6, <4>2
      <4>. QED BY <2>1, <4>1, <4>2, <4>3
    <3>. QED BY <3>1, <3>2
  <2>. QED BY <1>10, <2>1, <2>5, <2>6, <2>7
<1>13. starts \in Seq(DOMAIN rows)
  BY <1>1, <1>4, <1>8
<1>14. \A b \in DOMAIN starts : End(b) \in DOMAIN rows
  BY <1>1, <1>10
<1>. QED BY <1>4, <1>10, <1>11, <1>12, <1>13, <1>14 DEF starts

\* Every block of a view is a run of rows that names its lines; the hunks are the
\* rows that were selected.
LEMMA BlocksOfRows ==
    ASSUME NEW rows, RowsInOrder(rows), NEW selected, selected \subseteq DOMAIN rows
    PROVE  LET blocks == SourceBlocks(rows, selected)
           IN  /\ \A b \in DOMAIN blocks :
                    /\ blocks[b].first \in DOMAIN rows /\ blocks[b].last \in DOMAIN rows
                    /\ blocks[b].first <= blocks[b].last
                    /\ blocks[b].range = RangesOf(rows, blocks[b].first, blocks[b].last)
               /\ UNION {blocks[b].first .. blocks[b].last :
                         b \in {k \in DOMAIN blocks : blocks[k].type = "hunk"}} = selected
<1>. DEFINE starts == BlockStarts(rows, selected)
            blocks == SourceBlocks(rows, selected)
            hunks == {k \in DOMAIN blocks : blocks[k].type = "hunk"}
            shown == UNION {blocks[b].first .. blocks[b].last : b \in hunks}
<1>1. /\ starts \in Seq(DOMAIN rows) /\ DOMAIN starts = 1 .. Len(starts)
      /\ \A b \in DOMAIN starts :
           /\ starts[b] <= EndOf(rows, starts, b) /\ EndOf(rows, starts, b) \in DOMAIN rows
           /\ \A k \in starts[b] .. EndOf(rows, starts, b) :
                k \in selected <=> starts[b] \in selected
      /\ \A k \in DOMAIN rows : \E b \in DOMAIN starts :
           k \in starts[b] .. EndOf(rows, starts, b)
  BY StartsCutRows
<1>2. blocks = [b \in DOMAIN starts |->
                  Block(rows, selected, starts[b], EndOf(rows, starts, b))]
  BY DEF SourceBlocks, EndOf
<1>. HIDE DEF starts, blocks
<1>3. DOMAIN blocks = DOMAIN starts
  BY <1>2
<1>4. ASSUME NEW b \in DOMAIN starts
      PROVE  /\ blocks[b].first = starts[b] /\ blocks[b].last = EndOf(rows, starts, b)
             /\ blocks[b].range = RangesOf(rows, starts[b], EndOf(rows, starts, b))
             /\ blocks[b].type = "hunk" <=> starts[b] \in selected
             /\ starts[b] \in DOMAIN rows
  <2>1. blocks[b] = Block(rows, selected, starts[b], EndOf(rows, starts, b))
    BY <1>2
  <2>2. starts[b] \in DOMAIN rows
    BY <1>1
  <2>. QED BY <2>1, <2>2 DEF Block, RangesOf
<1>5. \A b \in DOMAIN blocks :
        /\ blocks[b].first \in DOMAIN rows /\ blocks[b].last \in DOMAIN rows
        /\ blocks[b].first <= blocks[b].last
        /\ blocks[b].range = RangesOf(rows, blocks[b].first, blocks[b].last)
  BY <1>1, <1>3, <1>4
<1>6. \A k \in selected : \E b \in hunks : k \in blocks[b].first .. blocks[b].last
  <2>. TAKE k \in selected
  <2>1. PICK b \in DOMAIN starts : k \in starts[b] .. EndOf(rows, starts, b)
    BY <1>1
  <2>2. starts[b] \in selected
    BY <1>1, <2>1
  <2>. QED BY <1>3, <1>4, <2>1, <2>2
<1>7. \A b \in hunks : blocks[b].first .. blocks[b].last \subseteq selected
  <2>. TAKE b \in hunks
  <2>1. b \in DOMAIN starts /\ starts[b] \in selected
    BY <1>3, <1>4
  <2>. QED BY <1>1, <1>4, <2>1
<1>8. shown = selected
  <2>. HIDE DEF hunks
  <2>. QED BY <1>6, <1>7
<1>. QED BY <1>5, <1>8 DEF blocks

\* What a view shows are the rows it answers with.
LEMMA ViewShowsAnswered ==
    ASSUME NEW rows, RowsInOrder(rows), NEW anchors, NEW profile, NEW context, NEW range,
           NEW expanded
    PROVE  LET selected == SelectedRows(rows, anchors, profile, context, range, expanded)
               view == SourceProjection(rows, anchors, profile, context, range, expanded)
           IN  /\ selected \subseteq DOMAIN rows /\ AnsweredRows(selected) \subseteq selected
               /\ view.profile = profile
               /\ view.truncated = (selected # AnsweredRows(selected))
               /\ ShownRows(view) = AnsweredRows(selected)
               /\ \A b \in DOMAIN view.blocks : LET block == view.blocks[b] IN
                    /\ block.first \in DOMAIN rows /\ block.last \in DOMAIN rows
                    /\ block.first <= block.last
                    /\ block.range = RangesOf(rows, block.first, block.last)
<1>. DEFINE selected == SelectedRows(rows, anchors, profile, context, range, expanded)
            view == SourceProjection(rows, anchors, profile, context, range, expanded)
            blocks == SourceBlocks(rows, AnsweredRows(selected))
<1>1. selected \subseteq DOMAIN rows
  <2>1. FocusRows(rows, anchors, profile, context) \subseteq DOMAIN rows
    BY DEF FocusRows
  <2>2. \A r : RangeRows(rows, r) \subseteq DOMAIN rows
    BY DEF RangeRows
  <2>. QED BY <2>1, <2>2 DEF SelectedRows
<1>2. AnsweredRows(selected) \subseteq selected
  BY DEF AnsweredRows
<1>3. /\ view.profile = profile /\ view.blocks = blocks
      /\ view.truncated = (selected # AnsweredRows(selected))
  BY DEF SourceProjection
<1>. HIDE DEF selected, view
<1>4. /\ \A b \in DOMAIN blocks :
           /\ blocks[b].first \in DOMAIN rows /\ blocks[b].last \in DOMAIN rows
           /\ blocks[b].first <= blocks[b].last
           /\ blocks[b].range = RangesOf(rows, blocks[b].first, blocks[b].last)
      /\ UNION {blocks[b].first .. blocks[b].last :
                b \in {k \in DOMAIN blocks : blocks[k].type = "hunk"}} = AnsweredRows(selected)
  BY <1>1, <1>2, BlocksOfRows
<1>. HIDE DEF blocks
<1>5. ShownRows(view) = AnsweredRows(selected)
  BY <1>3, <1>4 DEF ShownRows
<1>. QED BY <1>1, <1>2, <1>3, <1>4, <1>5 DEF selected, view

-----------------------------------------------------------------------------
(* The card of a file's source.                                            *)

\* The rows of the open file are those of its lines, and its moves are lines of it.
RowsTell(file) ==
    /\ \A side \in Sides : Covers(file.rows, side, 0, Len(file.lines[side]))
    /\ TellsSame(file.rows, file.lines[1], file.lines[2])
    /\ MovesStand(file.lines, file.anchors)

\* What the card shows is the answer to a request it made: with the ranges it has, or
\* with none.  Only requests that a click made carry ranges.
CardInv ==
    /\ card = [focus |-> card.focus, shown |-> card.shown, ranges |-> card.ranges,
               loading |-> card.loading]
    /\ card.ranges \in Seq(RangePair)
    /\ \A r \in pending : /\ r.ranges \in Seq(RangePair)
                          /\ r.kind = "open" => r.ranges = <<>>
    /\ source = NoSource => card.shown = NoView /\ pending = {}
    /\ source # NoSource => RowsInOrder(source.rows) /\ RowsTell(source)
    /\ card.shown # NoView =>
          \/ card.shown = View(card.shown.profile, card.ranges)
          \/ card.shown = View(card.shown.profile, <<>>)

\* Rows of a view of the open file, with no range of its own.
Wanted(focus, ranges) ==
    FocusRows(source.rows, source.anchors, focus, CONTEXT)
    \cup UNION {RangeRows(source.rows, ranges[k]) : k \in DOMAIN ranges}

LEMMA ViewOfOpenFile ==
    ASSUME RowsInOrder(source.rows), NEW focus, NEW ranges
    PROVE  /\ View(focus, ranges).profile = focus
           /\ ShownRows(View(focus, ranges)) \subseteq Wanted(focus, ranges)
           /\ ~View(focus, ranges).truncated =>
                ShownRows(View(focus, ranges)) = Wanted(focus, ranges)
           /\ \A b \in DOMAIN View(focus, ranges).blocks :
                LET block == View(focus, ranges).blocks[b]
                IN  /\ block.first \in DOMAIN source.rows /\ block.last \in DOMAIN source.rows
                    /\ block.first <= block.last
                    /\ block.range = RangesOf(source.rows, block.first, block.last)
<1>. DEFINE all == <<NoRange, NoRange>>
<1>1. SelectedRows(source.rows, source.anchors, focus, CONTEXT, all, ranges)
        = Wanted(focus, ranges)
  BY DEF SelectedRows, Wanted
<1>2. View(focus, ranges)
        = SourceProjection(source.rows, source.anchors, focus, CONTEXT, all, ranges)
  BY DEF View
<1>. DEFINE selected == SelectedRows(source.rows, source.anchors, focus, CONTEXT, all, ranges)
            view == SourceProjection(source.rows, source.anchors, focus, CONTEXT, all, ranges)
<1>. HIDE DEF all
<1>3. /\ selected \subseteq DOMAIN source.rows /\ AnsweredRows(selected) \subseteq selected
      /\ view.profile = focus
      /\ view.truncated = (selected # AnsweredRows(selected))
      /\ ShownRows(view) = AnsweredRows(selected)
      /\ \A b \in DOMAIN view.blocks : LET block == view.blocks[b] IN
           /\ block.first \in DOMAIN source.rows /\ block.last \in DOMAIN source.rows
           /\ block.first <= block.last
           /\ block.range = RangesOf(source.rows, block.first, block.last)
  BY ViewShowsAnswered
<1>4. View(focus, ranges) = view /\ selected = Wanted(focus, ranges)
  BY <1>1, <1>2
<1>. HIDE DEF view, selected
<1>. QED BY <1>3, <1>4

\* Asked for on its own, a block is answered with its rows.
LEMMA BlockAlone ==
    ASSUME NEW rows, RowsInOrder(rows), NEW first \in DOMAIN rows, NEW last \in DOMAIN rows,
           first <= last, NEW anchors, NEW focus, NEW range,
           range = RangesOf(rows, first, last)
    PROVE  LET alone == SourceProjection(rows, anchors, focus, CONTEXT, range, <<>>)
           IN  ~alone.truncated => ShownRows(alone) = first .. last
<1>1. range # <<NoRange, NoRange>> /\ RangeRows(rows, range) = first .. last
  BY RangesOfRows
<1>. DEFINE selected == SelectedRows(rows, anchors, focus, CONTEXT, range, <<>>)
            alone == SourceProjection(rows, anchors, focus, CONTEXT, range, <<>>)
<1>2. selected = first .. last
  BY <1>1 DEF SelectedRows
<1>3. alone.truncated = (selected # AnsweredRows(selected)) /\ ShownRows(alone) = AnsweredRows(selected)
  BY ViewShowsAnswered
<1>. HIDE DEF selected, alone
<1>4. ~alone.truncated => ShownRows(alone) = first .. last
  BY <1>2, <1>3
<1>. QED BY <1>4 DEF alone

LEMMA GapsOpenFromInv == CardInv => GapsOpen
<1>. SUFFICES ASSUME CardInv, card.shown # NoView, ~card.loading,
                     NEW b \in DOMAIN card.shown.blocks
              PROVE  LET block == card.shown.blocks[b]
                         alone == SourceProjection(source.rows, source.anchors, card.focus,
                                                   CONTEXT, block.range, <<>>)
                     IN  block.type = "gap" =>
                           /\ ~alone.truncated => ShownRows(alone) = block.first..block.last
                           /\ \A edge \in GapEdges(card.shown.blocks, b) : GapOpensAt(block, edge)
  BY DEF GapsOpen
<1>. DEFINE rows == source.rows
            block == card.shown.blocks[b]
<1>1. RowsInOrder(rows)
  BY DEF CardInv
<1>2. PICK R : card.shown = View(card.shown.profile, R) /\ R \in {card.ranges, <<>>}
  BY DEF CardInv
<1>3. /\ block.first \in DOMAIN rows /\ block.last \in DOMAIN rows /\ block.first <= block.last
      /\ block.range = RangesOf(rows, block.first, block.last)
  BY <1>1, <1>2, ViewOfOpenFile
<1>4. LET alone == SourceProjection(rows, source.anchors, card.focus, CONTEXT, block.range, <<>>)
      IN  ~alone.truncated => ShownRows(alone) = block.first .. block.last
  <2>. DEFINE first == block.first
              last == block.last
              range == block.range
  <2>. HIDE DEF rows, first, last, range
  <2>1. RowsInOrder(rows) /\ first \in DOMAIN rows /\ last \in DOMAIN rows /\ first <= last
        /\ range = RangesOf(rows, first, last)
    BY <1>1, <1>3 DEF first, last, range
  <2>2. LET alone == SourceProjection(rows, source.anchors, card.focus, CONTEXT, range, <<>>)
        IN  ~alone.truncated => ShownRows(alone) = first .. last
    BY <2>1, BlockAlone
  <2>. QED BY <2>2 DEF first, last, range
<1>5. ASSUME NEW edge \in GapEdges(card.shown.blocks, b) PROVE GapOpensAt(block, edge)
  <2>1. edge \in {"start", "end"}
    BY DEF GapEdges
  <2>. DEFINE asked == GapRanges(block, edge)
              ranges == Append(card.ranges, asked)
              view == View(card.focus, ranges)
              row == IF edge = "start" THEN block.first ELSE block.last
  <2>2. asked \in RangePair /\ row \in RangeRows(rows, asked)
    BY <1>1, <1>3, <2>1, EdgeIsAskedFor
  <2>3. /\ DOMAIN ranges = 1 .. (Len(card.ranges) + 1) /\ Len(card.ranges) \in Nat
        /\ ranges[Len(card.ranges) + 1] = asked
        /\ \A k \in DOMAIN card.ranges : k \in DOMAIN ranges /\ ranges[k] = card.ranges[k]
    BY <2>2 DEF CardInv
  <2>. SUFFICES ASSUME ~view.truncated
                PROVE  /\ row \in ShownRows(view)
                       /\ card.shown.profile = card.focus =>
                            ShownRows(card.shown) \subseteq ShownRows(view)
    BY DEF GapOpensAt
  <2>4. ShownRows(view) = Wanted(card.focus, ranges)
    BY <1>1, ViewOfOpenFile
  <2>. HIDE DEF asked, ranges, view, row
  <2>5. row \in Wanted(card.focus, ranges)
    BY <2>2, <2>3 DEF Wanted
  <2>6. ASSUME card.shown.profile = card.focus
        PROVE  ShownRows(card.shown) \subseteq Wanted(card.focus, ranges)
    <3>1. ShownRows(card.shown) \subseteq Wanted(card.focus, R)
      BY <1>1, <1>2, <2>6, ViewOfOpenFile
    <3>2. \A k \in DOMAIN R : k \in DOMAIN ranges /\ R[k] = ranges[k]
      BY <1>2, <2>3
    <3>3. Wanted(card.focus, R) \subseteq Wanted(card.focus, ranges)
      BY <3>2 DEF Wanted
    <3>. QED BY <3>1, <3>3
  <2>. QED BY <2>4, <2>5, <2>6
<1>. QED BY <1>4, <1>5

\* What a focus looks for is wanted.
LEMMA FocusIsWanted ==
    ASSUME NEW focus, NEW ranges, NEW k \in DOMAIN source.rows, RowsInOrder(source.rows),
           InFocus(source.anchors, source.rows[k], focus)
    PROVE  k \in Wanted(focus, ranges)
<1>1. k \in Nat /\ CONTEXT \in Nat
  BY LinesAreNumbers, CardAssumption
<1>2. k \in (k - CONTEXT) .. (k + CONTEXT)
  BY <1>1
<1>. QED BY <1>2 DEF Wanted, FocusRows

LEMMA FocusFromInv == CardInv => FocusIsShown
<1>. DEFINE view == card.shown
            rows == source.rows
            LinesShown(side) == {rows[k].line[side] : k \in ShownRows(view)}
<1>. SUFFICES ASSUME CardInv, view # NoView, ~view.truncated
     PROVE  /\ view.profile \in {"moves", "changes-and-moves"} =>
                 \A a \in ToSet(source.anchors) : \A side \in Sides :
                   a.kind = "move" /\ a.spans[side] # NoSpan =>
                     a.spans[side][1]..a.spans[side][3] \subseteq LinesShown(side)
            /\ view.profile \in {"changes", "changes-and-moves"} =>
                 \A k \in DOMAIN rows :
                   LET line == rows[k].line
                       Text(side) == source.lines[side][line[side]]
                   IN  (NoLine \in {line[1], line[2]} \/ Text(1) # Text(2))
                         => k \in ShownRows(view)
            /\ view.profile = "complete-file" =>
                 \A side \in Sides : 1..Len(source.lines[side]) \subseteq LinesShown(side)
  BY DEF FocusIsShown
<1>1. RowsInOrder(rows) /\ RowsTell(source)
  BY DEF CardInv
<1>2. PICK R : view = View(view.profile, R)
  BY DEF CardInv
<1>3. ShownRows(view) = Wanted(view.profile, R)
  BY <1>1, <1>2, ViewOfOpenFile
<1>4. \A k \in DOMAIN rows : InFocus(source.anchors, rows[k], view.profile)
                             => k \in ShownRows(view)
  BY <1>1, <1>3, FocusIsWanted
<1>5. \A side \in Sides : \A l \in 1 .. Len(source.lines[side]) :
         \E k \in DOMAIN rows : rows[k].line[side] = l
  BY <1>1 DEF RowsTell, Covers
<1>. HIDE DEF view, rows
<1>6. ASSUME view.profile \in {"moves", "changes-and-moves"},
             NEW a \in ToSet(source.anchors), NEW side \in Sides,
             a.kind = "move", a.spans[side] # NoSpan,
             NEW l \in a.spans[side][1] .. a.spans[side][3]
      PROVE  l \in LinesShown(side)
  <2>1. l \in 1 .. Len(source.lines[side])
    BY <1>1, <1>6 DEF RowsTell, MovesStand
  <2>2. PICK k \in DOMAIN rows : rows[k].line[side] = l
    BY <1>5, <2>1
  <2>3. l # NoLine /\ OnLine(a.spans[side], l)
    BY <1>6, <2>1 DEF NoLine, OnLine
  <2>4. InFocus(source.anchors, rows[k], view.profile)
    BY <1>6, <2>2, <2>3 DEF InFocus, HasMoveOn
  <2>. QED BY <1>4, <2>2, <2>4
<1>7. ASSUME view.profile \in {"changes", "changes-and-moves"}, NEW k \in DOMAIN rows,
             \/ NoLine \in {rows[k].line[1], rows[k].line[2]}
             \/ source.lines[1][rows[k].line[1]] # source.lines[2][rows[k].line[2]]
      PROVE  k \in ShownRows(view)
  <2>1. rows[k].kind # "context"
    BY <1>1, <1>7 DEF RowsTell, TellsSame, rows
  <2>2. InFocus(source.anchors, rows[k], view.profile)
    BY <1>7, <2>1 DEF InFocus
  <2>. QED BY <1>4, <2>2
<1>8. ASSUME view.profile = "complete-file", NEW side \in Sides,
             NEW l \in 1 .. Len(source.lines[side])
      PROVE  l \in LinesShown(side)
  <2>1. PICK k \in DOMAIN rows : rows[k].line[side] = l
    BY <1>5
  <2>2. InFocus(source.anchors, rows[k], view.profile)
    BY <1>8 DEF InFocus
  <2>. QED BY <1>4, <2>1, <2>2
<1>. QED BY <1>6, <1>7, <1>8

LEMMA CardInvInit == CardInit => CardInv
  BY DEF CardInit, CardInv, NoCard, NoSource, NoView

LEMMA CardInvStep ==
    ASSUME CardInv, [OpenAnySource \/ CardMoves]_cardVars
    PROVE  CardInv'
<1>. USE DEF Request
<1>1. ASSUME NEW left, NEW right, NEW anchors,
             IsAlignment(Opcodes(left, right), left, right),
             MovesStand(<<left, right>>, anchors), OpenSource(<<left, right>>, anchors)
      PROVE  CardInv'
  <2>1. RowsInOrder(AlignLines(left, right))
    BY <1>1, AlignedInOrder
  <2>2. source' = [lines |-> <<left, right>>, rows |-> AlignLines(left, right),
                   anchors |-> anchors]
    BY <1>1 DEF OpenSource
  <2>3. (source # NoSource => RowsInOrder(source.rows) /\ RowsTell(source))' /\ source' # NoSource
    <3>1. /\ source'.rows = AlignLines(left, right) /\ source'.anchors = anchors
          /\ source'.lines = <<left, right>> /\ source'.lines[1] = left /\ source'.lines[2] = right
      BY <2>2
    <3>2. \A side \in Sides : Covers(source'.rows, side, 0, Len(source'.lines[side]))
      <4>1. Covers(source'.rows, 1, 0, Len(source'.lines[1]))
            /\ Covers(source'.rows, 2, 0, Len(source'.lines[2]))
        BY <1>1, <3>1, AlignedIsComplete
      <4>2. \A side \in Sides : side = 1 \/ side = 2
        BY DEF Sides
      <4>. QED BY <4>1, <4>2
    <3>3. TellsSame(source'.rows, source'.lines[1], source'.lines[2])
      BY <1>1, <3>1, AlignedIsComplete
    <3>4. RowsTell(source')
      BY <1>1, <3>1, <3>2, <3>3 DEF RowsTell
    <3>5. source' # NoSource
      BY <2>2 DEF NoSource
    <3>. QED BY <2>1, <3>1, <3>4, <3>5
  <2>4. source = NoSource /\ card.shown = NoView
    BY <1>1 DEF OpenSource, CardInv
  <2>5. card' = [card EXCEPT !.loading = TRUE]
        /\ pending' = {Request("open", card.focus, <<>>)}
    BY <1>1 DEF OpenSource
  <2>6. card' = [focus |-> card.focus, shown |-> NoView, ranges |-> card.ranges,
                 loading |-> TRUE]
    BY <2>4, <2>5 DEF CardInv
  <2>7. /\ card.ranges \in Seq(RangePair)
        /\ \A r \in pending' : r.ranges \in Seq(RangePair) /\ (r.kind = "open" => r.ranges = <<>>)
    <3>1. <<>> \in Seq(RangePair) /\ card.ranges \in Seq(RangePair)
      BY DEF CardInv
    <3>. QED BY <2>5, <3>1
  <2>. QED BY <2>3, <2>6, <2>7 DEF CardInv
<1>2. ASSUME NEW profile \in FOCUS_PROFILES, SwitchFocus(profile)
      PROVE  CardInv'
  <2>1. /\ source # NoSource /\ source' = source
        /\ card' = [focus |-> profile, shown |-> NoView, ranges |-> <<>>, loading |-> TRUE]
        /\ pending' = {r \in pending : r.kind # "open"} \cup {Request("open", profile, <<>>)}
    BY <1>2 DEF SwitchFocus
  <2>2. <<>> \in Seq(RangePair)
    OBVIOUS
  <2>3. \A r \in pending' : r.ranges \in Seq(RangePair) /\ (r.kind = "open" => r.ranges = <<>>)
    <3>. TAKE r \in pending'
    <3>1. CASE r \in pending
      BY <3>1 DEF CardInv
    <3>2. CASE r = Request("open", profile, <<>>)
      BY <2>2, <3>2
    <3>. QED BY <2>1, <3>1, <3>2
  <2>4. /\ card' = [focus |-> card'.focus, shown |-> card'.shown, ranges |-> card'.ranges,
                    loading |-> card'.loading]
        /\ card'.ranges \in Seq(RangePair) /\ card'.shown = NoView
    BY <2>1, <2>2
  <2>5. source' # NoSource /\ (source # NoSource => RowsInOrder(source.rows) /\ RowsTell(source))'
    BY <2>1 DEF CardInv
  <2>. QED BY <2>3, <2>4, <2>5 DEF CardInv
<1>3. ASSUME card.shown # NoView, NEW b \in DOMAIN card.shown.blocks,
             NEW edge \in {"start", "end"}, ShowGap(b, edge)
      PROVE  CardInv'
  <2>. DEFINE block == card.shown.blocks[b]
              asked == GapRanges(block, edge)
  <2>1. source # NoSource /\ RowsInOrder(source.rows)
    BY <1>3 DEF CardInv
  <2>2. PICK R : card.shown = View(card.shown.profile, R)
    BY <1>3 DEF CardInv
  <2>3. /\ block.first \in DOMAIN source.rows /\ block.last \in DOMAIN source.rows
        /\ block.first <= block.last
        /\ block.range = RangesOf(source.rows, block.first, block.last)
    BY <2>1, <2>2, ViewOfOpenFile
  <2>4. asked \in RangePair
    BY <2>1, <2>3, EdgeIsAskedFor
  <2>5. /\ pending' = pending \cup {Request("gap", card.focus, Append(card.ranges, asked))}
        /\ card' = [card EXCEPT !.loading = TRUE] /\ source' = source
    BY <1>3 DEF ShowGap
  <2>. HIDE DEF asked
  <2>6. Append(card.ranges, asked) \in Seq(RangePair)
    BY <2>4 DEF CardInv
  <2>7. card' = [focus |-> card.focus, shown |-> card.shown, ranges |-> card.ranges,
                 loading |-> TRUE]
    BY <2>5 DEF CardInv
  <2>8. \A r \in pending' : /\ r.ranges \in Seq(RangePair)
                            /\ r.kind = "open" => r.ranges = <<>>
    <3>. DEFINE wider == Append(card.ranges, asked)
    <3>1. wider \in Seq(RangePair)
      BY <2>6
    <3>. HIDE DEF wider
    <3>. TAKE r \in pending'
    <3>2. CASE r \in pending
      BY <3>2 DEF CardInv
    <3>3. CASE r = Request("gap", card.focus, wider)
      BY <3>1, <3>3 DEF Request
    <3>. QED BY <2>5, <3>2, <3>3 DEF wider
  <2>9. /\ card'.shown = card.shown /\ card'.ranges = card.ranges
        /\ card'.ranges \in Seq(RangePair)
        /\ card' = [focus |-> card'.focus, shown |-> card'.shown, ranges |-> card'.ranges,
                    loading |-> card'.loading]
    BY <2>7 DEF CardInv
  <2>10. \/ card.shown = View(card.shown.profile, card.ranges)
         \/ card.shown = View(card.shown.profile, <<>>)
    BY <1>3 DEF CardInv
  <2>11. source' # NoSource /\ (source # NoSource => RowsInOrder(source.rows) /\ RowsTell(source))'
    BY <2>1, <2>5 DEF CardInv
  <2>. QED BY <2>5, <2>8, <2>9, <2>10, <2>11 DEF CardInv, View
<1>4. ASSUME ReturnToFocus
      PROVE  CardInv'
  <2>1. card' = [focus |-> card.focus, shown |-> card.shown, ranges |-> card.ranges,
                 loading |-> TRUE]
    BY <1>4 DEF CardInv, ReturnToFocus
  <2>2. /\ source # NoSource /\ source' = source
        /\ pending' = pending \cup {Request("collapse", card.focus, <<>>)}
    BY <1>4 DEF ReturnToFocus
  <2>3. <<>> \in Seq(RangePair)
    OBVIOUS
  <2>4. \A r \in pending' : r.ranges \in Seq(RangePair) /\ (r.kind = "open" => r.ranges = <<>>)
    <3>. TAKE r \in pending'
    <3>1. CASE r \in pending
      BY <3>1 DEF CardInv
    <3>2. CASE r = Request("collapse", card.focus, <<>>)
      BY <2>3, <3>2
    <3>. QED BY <2>2, <3>1, <3>2
  <2>5. /\ card' = [focus |-> card'.focus, shown |-> card'.shown, ranges |-> card'.ranges,
                    loading |-> card'.loading]
        /\ card'.ranges = card.ranges /\ card'.shown = card.shown
    BY <2>1
  <2>6. source' # NoSource /\ (source # NoSource => RowsInOrder(source.rows) /\ RowsTell(source))'
    BY <2>2 DEF CardInv
  <2>7. card'.ranges \in Seq(RangePair)
    BY <2>5 DEF CardInv
  <2>8. (card.shown # NoView => \/ card.shown = View(card.shown.profile, card.ranges)
                              \/ card.shown = View(card.shown.profile, <<>>))'
    BY <2>2, <2>5 DEF CardInv, View
  <2>. QED BY <2>4, <2>5, <2>6, <2>7, <2>8 DEF CardInv
<1>5. ASSUME NEW asked \in pending, Answer(asked) \/ Fail(asked)
      PROVE  CardInv'
  <2>1. source # NoSource /\ source' = source /\ pending' \subseteq pending
    BY <1>5 DEF Answer, Fail, CardInv
  <2>2. CASE /\ Answer(asked) /\ RangesAccepted(asked.ranges)
    <3>. DEFINE view == View(asked.focus, asked.ranges)
    <3>1. card' = [card EXCEPT !.loading = FALSE, !.shown = view,
                     !.ranges = IF asked.kind = "open" THEN @ ELSE asked.ranges]
      BY <2>2 DEF Answer
    <3>2. view.profile = asked.focus
      BY <2>1, ViewOfOpenFile DEF CardInv
    <3>3. view = View(view.profile, asked.ranges)
      BY <3>2
    <3>. HIDE DEF view
    <3>4. card' = [focus |-> card.focus, shown |-> view,
                   ranges |-> IF asked.kind = "open" THEN card.ranges ELSE asked.ranges,
                   loading |-> FALSE]
      BY <3>1 DEF CardInv
    <3>5. asked.ranges \in Seq(RangePair) /\ (asked.kind = "open" => asked.ranges = <<>>)
      BY <1>5 DEF CardInv
    <3>6. card'.shown = View(card'.shown.profile, card'.ranges)
          \/ card'.shown = View(card'.shown.profile, <<>>)
      BY <3>3, <3>4, <3>5
    <3>. QED BY <2>1, <3>4, <3>5, <3>6 DEF CardInv, View
  <2>3. CASE ~(Answer(asked) /\ RangesAccepted(asked.ranges))
    <3>1. card' = [focus |-> card.focus, shown |-> card.shown, ranges |-> card.ranges,
                   loading |-> FALSE]
      BY <1>5, <2>3 DEF Answer, Fail, CardInv
    <3>. QED BY <2>1, <3>1 DEF CardInv, View
  <2>. QED BY <2>2, <2>3
<1>6. CASE UNCHANGED cardVars
  BY <1>6 DEF cardVars, CardInv, View
<1>. QED BY <1>1, <1>2, <1>3, <1>4, <1>5, <1>6 DEF OpenAnySource, CardMoves

\* The card of any two files: what it shows is always the answer to a request made
\* with the ranges it holds, or with none.  (ArtifactSourceFile.tsx)
THEOREM CardShowsItsRanges == CardSpec => []CardInv
<1>. QED BY CardInvInit, CardInvStep, PTL DEF CardSpec

\* However the user and the answers take turns, every gap that is shown can be opened:
\* a click on it asks for lines it hides, up to the edge that was clicked, and its own
\* range is that of its rows.  (projections.py: _build_source_blocks; contextRange in
\* ArtifactSourceFile.tsx)
THEOREM GapsAlwaysOpen == CardSpec => []GapsOpen
<1>. QED BY CardShowsItsRanges, GapsOpenFromInv, PTL

\* However the answers arrive, an uncut view shows every line of every move its focus
\* takes in, every row that differs, and in the complete file every line of both texts,
\* for any files, spans and context.  (projections.py: _align_lines, _focus_row_indexes)
THEOREM FocusAlwaysShown == CardSpec => []FocusIsShown
<1>. QED BY CardShowsItsRanges, FocusFromInv, PTL

-----------------------------------------------------------------------------
(* The rows of a file's tree.                                              *)

\* Rows in document order, each after its parent's; a row counts its siblings before
\* it and its children.
TreeRows(rows) ==
    /\ rows \in Seq(ToSet(rows)) /\ rows # <<>>
    /\ \A k \in DOMAIN rows :
         /\ rows[k].ordinal = k - 1
         /\ rows[k].parent \in Int /\ rows[k].parent < k - 1
         /\ IF k = 1 THEN rows[k].parent = -1 ELSE rows[k].parent >= 0
         /\ rows[k].sibling
              = Cardinality({j \in 1 .. k : rows[j].parent = rows[k].parent}) - 1
         /\ rows[k].children = Cardinality({j \in DOMAIN rows : rows[j].parent = k - 1})

LEMMA RecordsAreTreeRows ==
    ASSUME NEW nodes, IsTree(nodes), NEW file
    PROVE  TreeRows(NodeRecords(nodes, file)) /\ Len(NodeRecords(nodes, file)) = Len(nodes)
<1>. DEFINE rows == NodeRecords(nodes, file)
            n == Len(nodes)
<1>1. /\ nodes \in Seq(ToSet(nodes)) /\ n \in Nat \ {0} /\ DOMAIN nodes = 1 .. n
      /\ \A k \in 1 .. n : \/ k = 1 /\ nodes[k].parent = 0
                           \/ k > 1 /\ nodes[k].parent \in 1 .. (k - 1)
  BY DEF IsTree
<1>2. DOMAIN rows = 1 .. n
  BY <1>1 DEF NodeRecords
<1>3. ASSUME NEW k \in 1 .. n
      PROVE  /\ rows[k].ordinal = k - 1 /\ rows[k].parent = nodes[k].parent - 1
             /\ rows[k].sibling
                  = Cardinality({j \in 1 .. k : nodes[j].parent = nodes[k].parent}) - 1
             /\ rows[k].children = Cardinality({j \in 1 .. n : nodes[j].parent = k})
  BY <1>1 DEF NodeRecords
<1>11. \A k \in 1 .. n : rows[k].parent = nodes[k].parent - 1
  BY <1>3
<1>12. \A k \in 1 .. n : k \in Int
  BY <1>1
<1>4. rows = [k \in 1 .. n |-> rows[k]]
  BY <1>1 DEF NodeRecords
<1>. HIDE DEF rows
<1>5. rows \in Seq(ToSet(rows)) /\ Len(rows) = n /\ rows # <<>>
  <2>1. \A k \in 1 .. n : rows[k] \in ToSet(rows)
    BY <1>2 DEF ToSet
  <2>2. rows \in [1 .. n -> ToSet(rows)]
    BY <1>4, <2>1
  <2>. QED BY <1>1, <2>2
<1>6. \A j, k \in 1 .. n : /\ nodes[k].parent \in Int
                           /\ rows[j].parent = rows[k].parent <=> nodes[j].parent = nodes[k].parent
                           /\ rows[j].parent = k - 1 <=> nodes[j].parent = k
  <2>1. \A k \in 1 .. n : nodes[k].parent \in Int
    BY <1>1
  <2>. TAKE j, k \in 1 .. n
  <2>2. /\ nodes[k].parent \in Int /\ nodes[j].parent \in Int /\ k \in Int
        /\ rows[j].parent = nodes[j].parent - 1 /\ rows[k].parent = nodes[k].parent - 1
    BY <1>11, <1>12, <2>1
  <2>. QED BY <2>2
<1>7. ASSUME NEW k \in 1 .. n
      PROVE  /\ {j \in 1 .. k : rows[j].parent = rows[k].parent}
                  = {j \in 1 .. k : nodes[j].parent = nodes[k].parent}
             /\ {j \in DOMAIN rows : rows[j].parent = k - 1} = {j \in 1 .. n : nodes[j].parent = k}
  <2>1. 1 .. k \subseteq 1 .. n
    BY <1>1
  <2>. QED BY <1>2, <1>6, <2>1
<1>8. \A k \in 1 .. n : /\ rows[k].parent \in Int /\ rows[k].parent < k - 1
                        /\ IF k = 1 THEN rows[k].parent = -1 ELSE rows[k].parent >= 0
  <2>. TAKE k \in 1 .. n
  <2>1. rows[k].parent = nodes[k].parent - 1 /\ k \in Int
    BY <1>11, <1>12
  <2>2. \/ k = 1 /\ nodes[k].parent = 0
        \/ k > 1 /\ nodes[k].parent \in 1 .. (k - 1)
    BY <1>1
  <2>. QED BY <2>1, <2>2
<1>9. ASSUME NEW k \in DOMAIN rows
      PROVE  /\ rows[k].ordinal = k - 1
             /\ rows[k].parent \in Int /\ rows[k].parent < k - 1
             /\ IF k = 1 THEN rows[k].parent = -1 ELSE rows[k].parent >= 0
             /\ rows[k].sibling
                  = Cardinality({j \in 1 .. k : rows[j].parent = rows[k].parent}) - 1
             /\ rows[k].children = Cardinality({j \in DOMAIN rows : rows[j].parent = k - 1})
  <2>1. k \in 1 .. n
    BY <1>2
  <2>2. rows[k].ordinal = k - 1
    BY <1>3, <2>1
  <2>3. rows[k].sibling = Cardinality({j \in 1 .. k : rows[j].parent = rows[k].parent}) - 1
    BY <1>3, <1>7, <2>1
  <2>4. rows[k].children = Cardinality({j \in DOMAIN rows : rows[j].parent = k - 1})
    BY <1>3, <1>7, <2>1
  <2>. QED BY <1>8, <2>1, <2>2, <2>3, <2>4
<1>10. TreeRows(rows)
  BY <1>5, <1>9 DEF TreeRows
<1>. QED BY <1>5, <1>10 DEF rows

\* A row is found by its ordinal.
LEMMA RowsByOrdinal ==
    ASSUME NEW rows, TreeRows(rows)
    PROVE  /\ Len(rows) \in Nat \ {0} /\ DOMAIN rows = 1 .. Len(rows)
           /\ Ordinals(rows) = 0 .. (Len(rows) - 1)
           /\ \A o \in Ordinals(rows) :
                /\ Row(rows, o) = rows[o + 1] /\ o + 1 \in DOMAIN rows /\ o \in Nat
                /\ ParentOf(rows, o) = rows[o + 1].parent /\ Row(rows, o).ordinal = o
                /\ ParentOf(rows, o) \in Int /\ ParentOf(rows, o) < o
                /\ o = 0 => ParentOf(rows, o) = -1
                /\ o # 0 => ParentOf(rows, o) \in Ordinals(rows)
<1>1. Len(rows) \in Nat \ {0} /\ DOMAIN rows = 1 .. Len(rows)
  BY DEF TreeRows
<1>2. Ordinals(rows) = 0 .. (Len(rows) - 1)
  <2>1. \A k \in DOMAIN rows : rows[k].ordinal = k - 1
    BY DEF TreeRows
  <2>2. \A o \in 0 .. (Len(rows) - 1) : o + 1 \in DOMAIN rows /\ rows[o + 1].ordinal = o
    BY <1>1, <2>1
  <2>. QED BY <1>1, <2>1, <2>2 DEF Ordinals
<1>3. ASSUME NEW o \in Ordinals(rows)
      PROVE  /\ Row(rows, o) = rows[o + 1] /\ o + 1 \in DOMAIN rows /\ o \in Nat
             /\ Row(rows, o).ordinal = o
  <2>1. o + 1 \in DOMAIN rows /\ o \in Nat
    BY <1>1, <1>2
  <2>2. \A k \in DOMAIN rows : rows[k].ordinal = o <=> k = o + 1
    <3>1. \A k \in DOMAIN rows : rows[k].ordinal = k - 1 /\ k \in Int
      <4>1. \A k \in DOMAIN rows : rows[k].ordinal = k - 1
        BY DEF TreeRows
      <4>. QED BY <1>1, <4>1
    <3>. QED BY <2>1, <3>1
  <2>3. (CHOOSE k \in DOMAIN rows : rows[k].ordinal = o) = o + 1
    BY <2>1, <2>2
  <2>. QED BY <2>1, <2>2, <2>3 DEF Row
<1>4. ASSUME NEW o \in Ordinals(rows)
      PROVE  /\ ParentOf(rows, o) = rows[o + 1].parent
             /\ ParentOf(rows, o) \in Int /\ ParentOf(rows, o) < o
             /\ o = 0 => ParentOf(rows, o) = -1
             /\ o # 0 => ParentOf(rows, o) \in Ordinals(rows)
  <2>1. ParentOf(rows, o) = rows[o + 1].parent
    BY <1>3 DEF ParentOf
  <2>2. /\ rows[o + 1].parent \in Int /\ rows[o + 1].parent < (o + 1) - 1
        /\ IF o + 1 = 1 THEN rows[o + 1].parent = -1 ELSE rows[o + 1].parent >= 0
    BY <1>3 DEF TreeRows
  <2>3. o \in 0 .. (Len(rows) - 1)
    BY <1>2
  <2>. QED BY <1>1, <1>2, <2>1, <2>2, <2>3
<1>. QED BY <1>1, <1>2, <1>3, <1>4

\* A set of ordinals is finite.
LEMMA OrdinalsAreFinite ==
    ASSUME NEW rows, TreeRows(rows)
    PROVE  /\ IsFiniteSet(Ordinals(rows)) /\ Cardinality(Ordinals(rows)) = Len(rows)
           /\ Ordinals(rows) \subseteq Nat
           /\ \A S \in SUBSET Ordinals(rows) :
                IsFiniteSet(S) /\ S \subseteq Int /\ Cardinality(S) \in Nat
<1>1. Len(rows) \in Nat \ {0} /\ Ordinals(rows) = 0 .. (Len(rows) - 1)
  BY RowsByOrdinal
<1>2. IsFiniteSet(Ordinals(rows)) /\ Cardinality(Ordinals(rows)) = Len(rows)
  BY <1>1, FS_Interval
<1>. QED BY <1>1, <1>2, FS_Subset, FS_CardinalityType

\* The ordinals of a row's children, and how many there are.
Under(rows, o) == {c \in Ordinals(rows) : ParentOf(rows, c) = o}

LEMMA ChildrenAreCounted ==
    ASSUME NEW rows, TreeRows(rows), NEW o \in Ordinals(rows)
    PROVE  Row(rows, o).children = Cardinality(Under(rows, o))
<1>. DEFINE at == {j \in DOMAIN rows : rows[j].parent = o}
            f == [j \in at |-> j - 1]
<1>1. Len(rows) \in Nat /\ DOMAIN rows = 1 .. Len(rows)
      /\ Ordinals(rows) = 0 .. (Len(rows) - 1)
      /\ \A c \in Ordinals(rows) : ParentOf(rows, c) = rows[c + 1].parent
      /\ Row(rows, o) = rows[o + 1] /\ o + 1 \in DOMAIN rows /\ o \in Nat
  BY RowsByOrdinal
<1>2. rows[o + 1].children = Cardinality(at)
  <2>1. rows[o + 1].children = Cardinality({j \in DOMAIN rows : rows[j].parent = (o + 1) - 1})
    BY <1>1 DEF TreeRows
  <2>2. (o + 1) - 1 = o
    BY <1>1
  <2>. QED BY <2>1, <2>2
<1>3. f \in [at -> Under(rows, o)]
  <2>1. \A j \in at : j - 1 \in Ordinals(rows) /\ ParentOf(rows, j - 1) = rows[(j - 1) + 1].parent
                      /\ (j - 1) + 1 = j
    BY <1>1
  <2>. QED BY <2>1 DEF Under
<1>4. \A c \in Under(rows, o) : c + 1 \in at /\ f[c + 1] = c
  BY <1>1 DEF Under
<1>5. \A i, j \in at : f[i] = f[j] => i = j
  BY <1>1
<1>6. f \in Bijection(at, Under(rows, o))
  <2>. HIDE DEF f, at
  <2>1. f \in Injection(at, Under(rows, o))
    BY <1>3, <1>5 DEF Injection, IsInjective
  <2>2. f \in Surjection(at, Under(rows, o))
    BY <1>3, <1>4 DEF Surjection
  <2>. QED BY <2>1, <2>2 DEF Bijection
<1>7. IsFiniteSet(at)
  <2>1. at \in SUBSET (1 .. Len(rows))
    BY <1>1
  <2>2. IsFiniteSet(1 .. Len(rows))
    BY <1>1, FS_Interval
  <2>. HIDE DEF at
  <2>. QED BY <2>1, <2>2, FS_Subset
<1>. HIDE DEF f, at
<1>. QED BY <1>1, <1>2, <1>6, <1>7, FS_Bijection DEF ExistsBijection

\* The siblings of a row number it, in the order of the file.
LEMMA SiblingsGoUp ==
    ASSUME NEW rows, TreeRows(rows), NEW j \in DOMAIN rows, NEW k \in DOMAIN rows,
           rows[j].parent = rows[k].parent, j < k
    PROVE  rows[j].sibling \in Nat /\ rows[k].sibling \in Nat /\ rows[j].sibling < rows[k].sibling
<1>. DEFINE Earlier(m) == {i \in 1 .. m : rows[i].parent = rows[k].parent}
<1>1. Len(rows) \in Nat /\ DOMAIN rows = 1 .. Len(rows) /\ j \in Nat \ {0} /\ k \in Nat \ {0}
  BY RowsByOrdinal
<1>2. rows[j].sibling = Cardinality(Earlier(j)) - 1 /\ rows[k].sibling = Cardinality(Earlier(k)) - 1
  <2>1. /\ rows[j].sibling = Cardinality({i \in 1 .. j : rows[i].parent = rows[j].parent}) - 1
        /\ rows[k].sibling = Cardinality({i \in 1 .. k : rows[i].parent = rows[k].parent}) - 1
    BY DEF TreeRows
  <2>2. {i \in 1 .. j : rows[i].parent = rows[j].parent} = Earlier(j)
    OBVIOUS
  <2>. QED BY <2>1, <2>2
<1>3. Earlier(j) \subseteq Earlier(k) \ {k} /\ k \in Earlier(k) /\ j \in Earlier(j)
  BY <1>1
<1>4. \A m \in Nat : IsFiniteSet(Earlier(m))
  <2>. TAKE m \in Nat
  <2>1. Earlier(m) \in SUBSET (1 .. m) /\ IsFiniteSet(1 .. m)
    BY FS_Interval
  <2>. HIDE DEF Earlier
  <2>. QED BY <2>1, FS_Subset
<1>. HIDE DEF Earlier
<1>5. /\ IsFiniteSet(Earlier(j)) /\ IsFiniteSet(Earlier(k)) /\ IsFiniteSet(Earlier(k) \ {k})
      /\ Cardinality(Earlier(k) \ {k}) = Cardinality(Earlier(k)) - 1
      /\ Cardinality(Earlier(j)) \in Nat /\ Cardinality(Earlier(k)) \in Nat
  BY <1>1, <1>3, <1>4, FS_RemoveElement, FS_CardinalityType
<1>6. Cardinality(Earlier(j)) <= Cardinality(Earlier(k)) - 1
  BY <1>3, <1>5, FS_Subset
<1>7. Cardinality(Earlier(j)) # 0
  BY <1>3, <1>5, FS_EmptySet
<1>. QED BY <1>2, <1>5, <1>6, <1>7

\* The rows of a node's children, each of them once.
AreChildRows(all, rows, o) ==
    /\ all \in Seq(ToSet(rows)) /\ Len(all) = Cardinality(Under(rows, o))
    /\ \A k \in DOMAIN all : all[k].ordinal \in Under(rows, o)
    /\ \A c \in Under(rows, o) : \E k \in DOMAIN all : all[k].ordinal = c
    /\ \A j, k \in DOMAIN all : all[j].ordinal = all[k].ordinal => j = k
    /\ \A j, k \in DOMAIN all : j < k => all[j].ordinal < all[k].ordinal

LEMMA ChildRowsAreThere ==
    ASSUME NEW rows, TreeRows(rows), NEW o \in Ordinals(rows)
    PROVE  AreChildRows(ChildRows(rows, o), rows, o)
<1>. DEFINE S == {r \in ToSet(rows) : r.parent = o}
            U == Under(rows, o)
            g == [c \in U |-> rows[c + 1]]
            L == {p \in S \X S : p[1].sibling < p[2].sibling}
            s == ChildRows(rows, o)
<1>1. Len(rows) \in Nat /\ DOMAIN rows = 1 .. Len(rows)
      /\ Ordinals(rows) = 0 .. (Len(rows) - 1)
      /\ \A c \in Ordinals(rows) : ParentOf(rows, c) = rows[c + 1].parent /\ c + 1 \in DOMAIN rows
  BY RowsByOrdinal
<1>2. /\ U \subseteq Ordinals(rows) /\ IsFiniteSet(U) /\ Cardinality(U) \in Nat
  BY OrdinalsAreFinite DEF Under
<1>3. \A c \in U : rows[c + 1] \in S /\ rows[c + 1].ordinal = c /\ c \in Int
  <2>. TAKE c \in U
  <2>1. c + 1 \in DOMAIN rows /\ rows[c + 1].parent = o /\ c \in Int
    BY <1>1, <1>2 DEF Under
  <2>2. rows[c + 1].ordinal = (c + 1) - 1
    BY <2>1 DEF TreeRows
  <2>. QED BY <2>1, <2>2 DEF ToSet
<1>4. \A r \in S : r.ordinal \in U /\ r = rows[r.ordinal + 1]
  <2>. TAKE r \in S
  <2>1. PICK k \in DOMAIN rows : r = rows[k]
    BY DEF ToSet
  <2>2. rows[k].ordinal = k - 1
    BY <2>1 DEF TreeRows
  <2>3. k - 1 \in Ordinals(rows) /\ (k - 1) + 1 = k
    BY <1>1
  <2>. QED BY <1>1, <2>1, <2>2, <2>3 DEF Under
<1>5. IsFiniteSet(S) /\ Cardinality(S) = Cardinality(U)
  <2>. HIDE DEF U, S
  <2>1. g \in Injection(U, S)
    BY <1>3 DEF Injection, IsInjective
  <2>2. g \in Surjection(U, S)
    BY <1>3, <1>4 DEF Surjection
  <2>3. ExistsBijection(U, S)
    BY <2>1, <2>2 DEF ExistsBijection, Bijection
  <2>. QED BY <1>2, <2>3, FS_Bijection
<1>6. \A r \in S : r.sibling \in Int
  <2>. TAKE r \in S
  <2>1. PICK k \in DOMAIN rows : r = rows[k]
    BY DEF ToSet
  <2>2. rows[k].sibling = Cardinality({j \in 1 .. k : rows[j].parent = rows[k].parent}) - 1
    BY <2>1 DEF TreeRows
  <2>. DEFINE at == {j \in 1 .. k : rows[j].parent = rows[k].parent}
  <2>3. at \in SUBSET (1 .. k) /\ IsFiniteSet(1 .. k)
    <3>1. k \in Nat
      BY <1>1
    <3>. QED BY <3>1, FS_Interval
  <2>. HIDE DEF at
  <2>4. Cardinality(at) \in Nat
    BY <2>3, FS_Subset, FS_CardinalityType
  <2>5. rows[k].sibling = Cardinality(at) - 1
    BY <2>2 DEF at
  <2>. QED BY <2>1, <2>4, <2>5
<1>7. \A q, r \in S : q.ordinal < r.ordinal => q.sibling < r.sibling
  <2>. TAKE q, r \in S
  <2>. HAVE q.ordinal < r.ordinal
  <2>1. /\ q.ordinal \in U /\ r.ordinal \in U
        /\ q = rows[q.ordinal + 1] /\ r = rows[r.ordinal + 1]
    BY <1>4
  <2>2. /\ q.ordinal + 1 \in DOMAIN rows /\ r.ordinal + 1 \in DOMAIN rows
        /\ q.ordinal + 1 < r.ordinal + 1
    BY <1>1, <1>2, <2>1
  <2>3. q.parent = r.parent
    OBVIOUS
  <2>4. rows[q.ordinal + 1].parent = rows[r.ordinal + 1].parent
    BY <2>1, <2>3
  <2>5. rows[q.ordinal + 1].sibling < rows[r.ordinal + 1].sibling
    BY <2>2, <2>4, SiblingsGoUp
  <2>. QED BY <2>1, <2>5
<1>8. IsOrder(L, S)
  <2>1. \A x \in S : <<x, x>> \notin L
    BY <1>6
  <2>2. \A x, y, z \in S : <<x, y>> \in L /\ <<y, z>> \in L => <<x, z>> \in L
    BY <1>6
  <2>3. \A x, y \in S : x = y \/ <<x, y>> \in L \/ <<y, x>> \in L
    <3>. TAKE x, y \in S
    <3>1. x.ordinal \in Int /\ y.ordinal \in Int /\ (x.ordinal = y.ordinal => x = y)
      BY <1>1, <1>2, <1>4
    <3>2. x.ordinal < y.ordinal \/ y.ordinal < x.ordinal \/ x = y
      BY <3>1
    <3>. QED BY <1>7, <3>2
  <2>. HIDE DEF L, S
  <2>. QED BY <2>1, <2>2, <2>3 DEF IsOrder
<1>9. \A x \in S : Rank(L, S, x) = Cardinality({y \in S : y.sibling < x.sibling})
  <2>. TAKE x \in S
  <2>1. {y \in S : <<y, x>> \in L} = {y \in S : y.sibling < x.sibling}
    OBVIOUS
  <2>. HIDE DEF L, S
  <2>. QED BY <2>1 DEF Rank
<1>10. s = [k \in 1 .. Cardinality(S) |->
              CHOOSE x \in S : Cardinality({y \in S : y.sibling < x.sibling}) = k - 1]
  BY DEF ChildRows, ChildrenAmong, Sorted
<1>. HIDE DEF s, S, L
<1>11. \A k \in 1 .. Cardinality(S) : s[k] \in S /\ Rank(L, S, s[k]) = k - 1
  <2>. TAKE k \in 1 .. Cardinality(S)
  <2>1. \E x \in S : Rank(L, S, x) = k - 1
    BY <1>5, <1>8, RanksOfOrder
  <2>2. \E x \in S : Cardinality({y \in S : y.sibling < x.sibling}) = k - 1
    BY <1>9, <2>1
  <2>3. s[k] \in S /\ Cardinality({y \in S : y.sibling < s[k].sibling}) = k - 1
    BY <1>10, <2>2
  <2>. QED BY <1>9, <2>3
<1>12. s = [k \in 1 .. Cardinality(S) |-> s[k]]
  <2>. DEFINE At(k) == CHOOSE x \in S : Cardinality({y \in S : y.sibling < x.sibling}) = k - 1
  <2>1. s = [k \in 1 .. Cardinality(S) |-> At(k)]
    BY <1>10
  <2>. HIDE DEF At
  <2>. QED BY <2>1
<1>13. IsSorting(s, L, S)
  BY <1>5, <1>8, <1>11, <1>12, SortedByRank
<1>14. s \in Seq(S) /\ Len(s) = Cardinality(S) /\ ToSet(s) = S /\ IsInjective(s)
  BY <1>13 DEF IsSorting
<1>15. s \in Seq(ToSet(rows))
  BY <1>14 DEF S
<1>16. \A k \in DOMAIN s : s[k] \in S /\ s[k].ordinal \in U
  BY <1>4, <1>14
<1>17. \A c \in U : \E k \in DOMAIN s : s[k].ordinal = c
  <2>. TAKE c \in U
  <2>1. rows[c + 1] \in ToSet(s) /\ rows[c + 1].ordinal = c
    BY <1>3, <1>14
  <2>2. PICK k \in DOMAIN s : s[k] = rows[c + 1]
    BY <2>1 DEF ToSet
  <2>. QED BY <2>1, <2>2
<1>18. \A j, k \in DOMAIN s : s[j].ordinal = s[k].ordinal => j = k
  <2>. TAKE j, k \in DOMAIN s
  <2>. HAVE s[j].ordinal = s[k].ordinal
  <2>1. s[j] = s[k]
    BY <1>4, <1>16
  <2>. QED BY <1>14, <2>1 DEF IsInjective
<1>19. \A j, k \in DOMAIN s : j < k => s[j].ordinal < s[k].ordinal
  <2>. TAKE j, k \in DOMAIN s
  <2>. HAVE j < k
  <2>1. <<s[j], s[k]>> \in L /\ s[j] \in S /\ s[k] \in S
    BY <1>13, <1>16 DEF IsSorting
  <2>2. s[j].sibling < s[k].sibling
    BY <2>1 DEF L
  <2>3. s[j].ordinal \in Int /\ s[k].ordinal \in Int /\ s[j].ordinal # s[k].ordinal
    <3>1. j # k
      BY <1>5, <1>14
    <3>. QED BY <1>3, <1>16, <1>18, <3>1
  <2>4. s[j].sibling \in Int /\ s[k].sibling \in Int
    BY <1>6, <2>1
  <2>5. ~(s[k].ordinal < s[j].ordinal)
    BY <1>7, <2>1, <2>2, <2>4
  <2>. QED BY <2>3, <2>5
<1>20. s = ChildRows(rows, o)
  BY DEF s
<1>. HIDE DEF U
<1>21. AreChildRows(s, rows, o)
  BY <1>5, <1>14, <1>15, <1>16, <1>17, <1>18, <1>19 DEF AreChildRows, U
<1>. QED BY <1>20, <1>21

-----------------------------------------------------------------------------
(* The nodes above a node.                                                 *)

IsAbove(f, rows) ==
    /\ f \in [Ordinals(rows) -> SUBSET Ordinals(rows)]
    /\ \A o \in Ordinals(rows) :
         f[o] = {o} \cup (IF ParentOf(rows, o) < 0 THEN {} ELSE f[ParentOf(rows, o)])

LEMMA AncestorsExist ==
    ASSUME NEW rows, TreeRows(rows)
    PROVE  IsAbove(Ancestors(rows), rows)
<1>. DEFINE O == Ordinals(rows)
            n == Len(rows)
            Over(o, f) == {o} \cup (IF ParentOf(rows, o) < 0 THEN {} ELSE f[ParentOf(rows, o)])
            UpTo(f, m) == \A o \in 0 .. (m - 1) : f[o] = Over(o, f)
            P == {m \in Nat : m <= n => \E f \in [0 .. (m - 1) -> SUBSET O] : UpTo(f, m)}
<1>1. /\ n \in Nat \ {0} /\ O = 0 .. (n - 1)
      /\ \A o \in O : /\ o \in Nat /\ ParentOf(rows, o) \in Int /\ ParentOf(rows, o) < o
                      /\ ParentOf(rows, o) < 0 \/ ParentOf(rows, o) \in O
  <2>1. /\ n \in Nat \ {0} /\ O = 0 .. (n - 1)
        /\ \A o \in O : /\ o \in Nat /\ ParentOf(rows, o) \in Int /\ ParentOf(rows, o) < o
                        /\ o = 0 => ParentOf(rows, o) = -1
                        /\ o # 0 => ParentOf(rows, o) \in O
    BY RowsByOrdinal
  <2>. QED BY <2>1
<1>. HIDE DEF O, n
<1>2. 0 \in P
  <2>. DEFINE none == [o \in 0 .. (0 - 1) |-> O]
  <2>1. none \in [0 .. (0 - 1) -> SUBSET O]
    OBVIOUS
  <2>2. UpTo(none, 0)
    OBVIOUS
  <2>. QED BY <2>1, <2>2
<1>3. ASSUME NEW m \in Nat, m \in P PROVE m + 1 \in P
  <2>. SUFFICES ASSUME m + 1 <= n
                PROVE  \E f \in [0 .. ((m + 1) - 1) -> SUBSET O] : UpTo(f, m + 1)
    OBVIOUS
  <2>1. PICK f \in [0 .. (m - 1) -> SUBSET O] : UpTo(f, m)
    BY <1>1, <1>3
  <2>2. m \in O /\ \A o \in 0 .. (m - 1) : o \in O /\ o # m /\ o \in 0 .. m
    BY <1>1
  <2>. DEFINE q == ParentOf(rows, m)
              here == {m} \cup (IF q < 0 THEN {} ELSE f[q])
              g == [o \in 0 .. m |-> IF o = m THEN here ELSE f[o]]
  <2>3. q < 0 \/ q \in 0 .. (m - 1)
    BY <1>1, <2>2
  <2>4. here \in SUBSET O
    BY <2>2, <2>3
  <2>. HIDE DEF here
  <2>5. g \in [0 .. m -> SUBSET O]
    BY <1>1, <2>2, <2>4
  <2>6. \A o \in 0 .. (m - 1) : g[o] = f[o]
    BY <2>2
  <2>7. g[m] = here /\ here = Over(m, g)
    BY <2>2, <2>3, <2>6 DEF here
  <2>8. \A o \in 0 .. (m - 1) : ParentOf(rows, o) < 0 \/ ParentOf(rows, o) \in 0 .. (m - 1)
    BY <1>1, <2>2
  <2>. HIDE DEF g
  <2>9. \A o \in 0 .. (m - 1) : Over(o, g) = Over(o, f)
    BY <2>6, <2>8
  <2>10. \A o \in 0 .. m : o = m \/ o \in 0 .. (m - 1)
    OBVIOUS
  <2>11. \A o \in 0 .. m : g[o] = Over(o, g)
    <3>. HIDE DEF Over
    <3>. QED BY <2>1, <2>6, <2>7, <2>9, <2>10
  <2>12. (m + 1) - 1 = m
    OBVIOUS
  <2>. HIDE DEF Over
  <2>. QED BY <2>5, <2>11, <2>12
<1>4. \A m \in Nat : m \in P
  <2>. HIDE DEF P
  <2>. QED BY <1>2, <1>3, NatSetInduction
<1>5. PICK f \in [O -> SUBSET O] : UpTo(f, n)
  <2>1. n \in P
    BY <1>1, <1>4
  <2>. QED BY <1>1, <2>1
<1>. DEFINE Is(g) == g = [o \in O |-> Over(o, g)]
<1>6. Is(f)
  <2>. HIDE DEF Over
  <2>. QED BY <1>1, <1>5
<1>. DEFINE above == CHOOSE g : Is(g)
<1>7. Is(above)
  <2>. HIDE DEF Is
  <2>. QED BY <1>6
<1>8. Ancestors(rows) = above
  BY DEF Ancestors, O
<1>. HIDE DEF above
<1>9. above = [o \in O |-> above[o]] /\ \A o \in O : above[o] = Over(o, above)
  <2>. HIDE DEF Over
  <2>. QED BY <1>7
<1>. DEFINE T == {m \in Nat : \A o \in O : o <= m => above[o] \in SUBSET O}
<1>10. 0 \in T
  <2>. SUFFICES ASSUME 0 \in O PROVE above[0] \in SUBSET O
    BY <1>1
  <2>1. ParentOf(rows, 0) < 0
    BY <1>1
  <2>. QED BY <1>9, <2>1
<1>11. ASSUME NEW m \in Nat, m \in T PROVE m + 1 \in T
  <2>. SUFFICES ASSUME m + 1 \in O PROVE above[m + 1] \in SUBSET O
    BY <1>1, <1>11
  <2>. DEFINE i == m + 1
              q == ParentOf(rows, i)
  <2>1. q < 0 \/ (q \in O /\ q <= m)
    BY <1>1
  <2>2. above[i] = {i} \cup (IF q < 0 THEN {} ELSE above[q])
    BY <1>9
  <2>3. q < 0 \/ above[q] \in SUBSET O
    BY <1>11, <2>1
  <2>. QED BY <2>2, <2>3
<1>12. \A m \in Nat : m \in T
  <2>. HIDE DEF T
  <2>. QED BY <1>10, <1>11, NatSetInduction
<1>13. \A o \in O : above[o] \in SUBSET O
  BY <1>1, <1>12
<1>14. above \in [O -> SUBSET O]
  BY <1>9, <1>13
<1>. QED BY <1>8, <1>9, <1>14 DEF IsAbove, O

\* The nodes above a node are a chain that ends at the root.
IsChainUp(A, rows, o) ==
    /\ A[o] \in SUBSET Ordinals(rows) /\ o \in A[o] /\ 0 \in A[o]
    /\ \A a \in A[o] : a <= o
    /\ \A a \in A[o] : a # 0 => ParentOf(rows, a) \in A[o]
    /\ \A a, b \in A[o] : a <= b => a \in A[b]
    /\ \A a \in A[o] : A[a] \subseteq A[o]

LEMMA AncestorsAreChains ==
    ASSUME NEW rows, TreeRows(rows), NEW o \in Ordinals(rows)
    PROVE  IsChainUp(Ancestors(rows), rows, o)
<1>. DEFINE A == Ancestors(rows)
            O == Ordinals(rows)
            P == {m \in Nat : \A c \in O : c <= m => IsChainUp(A, rows, c)}
<1>1. /\ O = 0 .. (Len(rows) - 1) /\ Len(rows) \in Nat \ {0}
      /\ \A c \in O : /\ c \in Nat /\ ParentOf(rows, c) \in Int /\ ParentOf(rows, c) < c
                      /\ c = 0 => ParentOf(rows, c) = -1
                      /\ c # 0 => ParentOf(rows, c) \in O
  BY RowsByOrdinal
<1>2. /\ \A c \in O : A[c] \in SUBSET O
      /\ \A c \in O : A[c] = {c} \cup (IF ParentOf(rows, c) < 0 THEN {} ELSE A[ParentOf(rows, c)])
  BY AncestorsExist DEF IsAbove
<1>. HIDE DEF A, O
<1>3. 0 \in P
  <2>. SUFFICES ASSUME 0 \in O PROVE IsChainUp(A, rows, 0)
    BY <1>1
  <2>1. A[0] = {0}
    BY <1>1, <1>2
  <2>. QED BY <2>1 DEF IsChainUp, O
<1>4. ASSUME NEW m \in Nat, m \in P PROVE m + 1 \in P
  <2>. SUFFICES ASSUME m + 1 \in O PROVE IsChainUp(A, rows, m + 1)
    BY <1>1, <1>4
  <2>. DEFINE i == m + 1
              q == ParentOf(rows, i)
  <2>1. i # 0 /\ i \in Nat /\ q \in O /\ q <= m /\ q \in Nat /\ q < i
    BY <1>1
  <2>2. A[i] = {i} \cup A[q]
    BY <1>2, <2>1
  <2>3. IsChainUp(A, rows, q)
    BY <1>4, <2>1
  <2>. HIDE DEF i, q
  <2>4. /\ A[q] \in SUBSET O /\ q \in A[q] /\ 0 \in A[q] /\ \A a \in A[q] : a <= q /\ a \in Nat
        /\ \A a \in A[q] : a # 0 => ParentOf(rows, a) \in A[q]
        /\ \A a, b \in A[q] : a <= b => a \in A[b]
        /\ \A a \in A[q] : A[a] \subseteq A[q]
    BY <1>1, <2>3 DEF IsChainUp, O
  <2>5. i \in O /\ ParentOf(rows, i) = q
    BY DEF i, q
  <2>6. A[i] \in SUBSET Ordinals(rows) /\ i \in A[i] /\ 0 \in A[i] /\ \A a \in A[i] : a <= i
    BY <2>1, <2>2, <2>4, <2>5 DEF O
  <2>7. \A a \in A[i] : a # 0 => ParentOf(rows, a) \in A[i]
    BY <2>2, <2>4, <2>5
  <2>8. \A a, b \in A[i] : a <= b => a \in A[b]
    <3>. TAKE a, b \in A[i]
    <3>. HAVE a <= b
    <3>1. CASE b = i
      BY <3>1
    <3>2. CASE b \in A[q]
      <4>1. b <= q /\ b \in Nat
        BY <2>4, <3>2
      <4>2. a # i
        BY <2>1, <4>1
      <4>. QED BY <2>2, <2>4, <3>2, <4>2
    <3>. QED BY <2>2, <3>1, <3>2
  <2>9. \A a \in A[i] : A[a] \subseteq A[i]
    BY <2>2, <2>4
  <2>10. IsChainUp(A, rows, i)
    BY <2>6, <2>7, <2>8, <2>9 DEF IsChainUp
  <2>. QED BY <2>10 DEF i
<1>5. \A m \in Nat : m \in P
  <2>. HIDE DEF P
  <2>. QED BY <1>3, <1>4, NatSetInduction
<1>6. o \in O /\ o \in Nat
  BY <1>1 DEF O
<1>. QED BY <1>5, <1>6 DEF A

-----------------------------------------------------------------------------
(* The window of a tree.                                                   *)

\* Nodes that are one tree from the root down, within a bound.
IsConnected(included, rows, limit) ==
    /\ included \in SUBSET Ordinals(rows) /\ 0 \in included
    /\ Cardinality(included) <= limit
    /\ \A o \in included : o # 0 => ParentOf(rows, o) \in included

\* Of the first rows, those in focus that are not included did not fit.
HoldsFocused(included, rows, profile, limit, m) ==
    \A k \in 1 .. m :
       IsTreeFocus(rows[k], profile) /\ k - 1 \notin included
       => Cardinality(included \cup Ancestors(rows)[k - 1]) > limit

\* The climb to a connected part is what it lacks.
LEMMA ChainIsMissing ==
    ASSUME NEW rows, TreeRows(rows), NEW o \in Ordinals(rows), NEW limit, NEW included,
           IsConnected(included, rows, limit)
    PROVE  /\ Chain(rows, included, o) = Ancestors(rows)[o] \ included
           /\ Cardinality(included) \in Nat /\ IsFiniteSet(included)
           /\ Cardinality(Chain(rows, included, o)) \in Nat
           /\ included \cup Chain(rows, included, o) = included \cup Ancestors(rows)[o]
           /\ Cardinality(included) + Cardinality(Chain(rows, included, o))
                = Cardinality(included \cup Ancestors(rows)[o])
<1>. DEFINE A == Ancestors(rows)
<1>1. /\ A[o] \in SUBSET Ordinals(rows) /\ \A a \in A[o] : a <= o
      /\ \A a, b \in A[o] : a <= b => a \in A[b]
  BY AncestorsAreChains DEF IsChainUp
<1>. DEFINE P == {m \in Nat : \A b \in included : b <= m => A[b] \subseteq included}
<1>2. /\ included \subseteq Ordinals(rows) /\ included \subseteq Nat
      /\ \A b \in included : b # 0 => ParentOf(rows, b) \in included
  BY OrdinalsAreFinite DEF IsConnected
<1>3. \A b \in included :
        /\ A[b] = {b} \cup (IF ParentOf(rows, b) < 0 THEN {} ELSE A[ParentOf(rows, b)])
        /\ ParentOf(rows, b) \in Int /\ ParentOf(rows, b) < b
        /\ b = 0 => ParentOf(rows, b) = -1
  <2>1. \A b \in Ordinals(rows) :
          A[b] = {b} \cup (IF ParentOf(rows, b) < 0 THEN {} ELSE A[ParentOf(rows, b)])
    BY AncestorsExist DEF IsAbove
  <2>. HIDE DEF A
  <2>. QED BY <1>2, <2>1, RowsByOrdinal
<1>. HIDE DEF A
<1>4. 0 \in P
  <2>. SUFFICES ASSUME 0 \in included PROVE A[0] \subseteq included
    BY <1>2
  <2>1. A[0] = {0}
    BY <1>3
  <2>. QED BY <2>1
<1>5. ASSUME NEW m \in Nat, m \in P PROVE m + 1 \in P
  <2>. SUFFICES ASSUME m + 1 \in included PROVE A[m + 1] \subseteq included
    BY <1>2, <1>5
  <2>. DEFINE i == m + 1
              q == ParentOf(rows, i)
  <2>1. q \in included /\ q <= m /\ ~(q < 0) /\ A[i] = {i} \cup A[q]
    BY <1>2, <1>3
  <2>. QED BY <1>5, <2>1
<1>6. \A m \in Nat : m \in P
  <2>. HIDE DEF P
  <2>. QED BY <1>4, <1>5, NatSetInduction
<1>7. \A b \in included : A[b] \subseteq included
  <2>. TAKE b \in included
  <2>1. b \in Nat /\ b <= b
    BY <1>2
  <2>2. b \in P
    BY <1>6, <2>1
  <2>. QED BY <2>1, <2>2
<1>8. Chain(rows, included, o) = A[o] \ included
  <2>1. Chain(rows, included, o) = {a \in A[o] : \A b \in A[o] : a <= b => b \notin included}
    BY DEF Chain, A
  <2>2. \A a \in A[o] : a <= a
    BY <1>1, OrdinalsAreFinite
  <2>. QED BY <1>1, <1>7, <2>1, <2>2
<1>9. /\ IsFiniteSet(included) /\ Cardinality(included) \in Nat
      /\ IsFiniteSet(A[o] \ included) /\ Cardinality(A[o] \ included) \in Nat
  <2>1. included \in SUBSET Ordinals(rows) /\ A[o] \ included \in SUBSET Ordinals(rows)
    BY <1>1, <1>2
  <2>. QED BY <2>1, OrdinalsAreFinite
<1>10. Cardinality(included \cup (A[o] \ included))
         = Cardinality(included) + Cardinality(A[o] \ included)
  <2>1. included \cap (A[o] \ included) = {}
    OBVIOUS
  <2>. QED BY <1>9, <2>1, FS_Union, FS_EmptySet
<1>11. included \cup (A[o] \ included) = included \cup A[o]
  OBVIOUS
<1>. QED BY <1>8, <1>9, <1>10, <1>11 DEF A

\* The nodes in focus join one by one, as long as they fit.
LEMMA FocusedAreConnected ==
    ASSUME NEW rows, TreeRows(rows), NEW profile, NEW limit \in Nat \ {0}
    PROVE  LET included == FocusedOrdinals(rows, profile, limit)
           IN  /\ IsConnected(included, rows, limit)
               /\ HoldsFocused(included, rows, profile, limit, Len(rows))
<1>. DEFINE n == Len(rows)
            O == Ordinals(rows)
            V == SUBSET O
            Passed(included, row) ==
              \/ ~IsTreeFocus(row, profile)
              \/ Cardinality(included) + Cardinality(Chain(rows, included, row.ordinal)) > limit
            Join(included, row) ==
              IF Passed(included, row) THEN included
              ELSE included \cup Chain(rows, included, row.ordinal)
            first == {rows[1].ordinal}
            step == [v \in V \X Nat |->
                       IF v[2] \in 1 .. n THEN Join(v[1], rows[v[2]]) ELSE v[1]]
            Is(f) == f = [k \in DOMAIN rows |->
                            IF k = 1 THEN {rows[1].ordinal} ELSE Join(f[k - 1], rows[k])]
            Good(included, m) == /\ IsConnected(included, rows, limit)
                                 /\ HoldsFocused(included, rows, profile, limit, m)
<1>1. /\ n \in Nat \ {0} /\ DOMAIN rows = 1 .. n /\ O = 0 .. (n - 1)
      /\ \A k \in 1 .. n : rows[k].ordinal = k - 1 /\ k - 1 \in O
  <2>1. n \in Nat \ {0} /\ DOMAIN rows = 1 .. n /\ O = 0 .. (n - 1)
    BY RowsByOrdinal
  <2>2. \A k \in DOMAIN rows : rows[k].ordinal = k - 1
    BY DEF TreeRows
  <2>. QED BY <2>1, <2>2
<1>2. \A inc \in V : \A k \in 1 .. n : Join(inc, rows[k]) \in V
  <2>. TAKE inc \in V
  <2>. TAKE k \in 1 .. n
  <2>1. Ancestors(rows)[k - 1] \in SUBSET O
    BY <1>1, AncestorsExist DEF IsAbove
  <2>2. Chain(rows, inc, rows[k].ordinal) \subseteq Ancestors(rows)[k - 1]
    BY <1>1 DEF Chain
  <2>. HIDE DEF Passed
  <2>. QED BY <2>1, <2>2
<1>. HIDE DEF Join, O
<1>3. PICK f \in [1 .. n -> V] : GoesBySteps(f, n, first, step)
  <2>1. first \in V
    BY <1>1
  <2>2. step \in [V \X Nat -> V]
    BY <1>2
  <2>. HIDE DEF step, first, V, n
  <2>. QED BY <1>1, <2>1, <2>2, StepsExist
<1>4. \A k \in 1 .. n : f[k] = IF k = 1 THEN {rows[1].ordinal} ELSE Join(f[k - 1], rows[k])
  <2>. TAKE k \in 1 .. n
  <2>1. CASE k = 1
    BY <1>3, <2>1 DEF GoesBySteps
  <2>2. CASE k # 1
    <3>1. k - 1 \in 1 .. n /\ k \in Nat
      BY <1>1, <2>2
    <3>2. f[k - 1] \in V
      BY <3>1
    <3>3. step[<<f[k - 1], k>>] = Join(f[k - 1], rows[k])
      BY <3>1, <3>2
    <3>. QED BY <1>3, <2>2, <3>3 DEF GoesBySteps
  <2>. QED BY <2>1, <2>2
<1>. HIDE DEF step
<1>5. Is(f)
  BY <1>1, <1>4
<1>. DEFINE joined == CHOOSE g : Is(g)
<1>6. Is(joined)
  <2>. HIDE DEF Is
  <2>. QED BY <1>5
<1>7. FocusedOrdinals(rows, profile, limit) = joined[n]
  BY DEF FocusedOrdinals, Join
<1>. HIDE DEF joined
<1>8. joined[1] = {0} /\ \A k \in 2 .. n : joined[k] = Join(joined[k - 1], rows[k])
  <2>1. \A k \in 1 .. n : joined[k] = IF k = 1 THEN {rows[1].ordinal}
                                               ELSE Join(joined[k - 1], rows[k])
    BY <1>1, <1>6
  <2>2. 1 \in 1 .. n /\ rows[1].ordinal = 0 /\ \A k \in 2 .. n : k \in 1 .. n /\ k # 1
    BY <1>1
  <2>. QED BY <2>1, <2>2
<1>. DEFINE P == {m \in Nat : m + 1 \in 1 .. n => Good(joined[m + 1], m + 1)}
<1>9. 0 \in P
  <2>1. 0 \in O
    BY <1>1
  <2>2. IsConnected({0}, rows, limit)
    <3>1. Cardinality({0}) <= limit
      <4>1. Cardinality({0}) = 1
        BY FS_Singleton
      <4>2. limit \in Nat /\ 1 <= limit
        OBVIOUS
      <4>. QED BY <4>1, <4>2
    <3>. QED BY <2>1, <3>1 DEF IsConnected, O
  <2>3. HoldsFocused({0}, rows, profile, limit, 1)
    BY DEF HoldsFocused
  <2>4. Good({0}, 1) /\ 0 + 1 = 1
    BY <2>2, <2>3
  <2>. HIDE DEF Good
  <2>. QED BY <1>8, <2>4
<1>10. ASSUME NEW m \in Nat, m \in P PROVE m + 1 \in P
  <2>. SUFFICES ASSUME (m + 1) + 1 \in 1 .. n PROVE Good(joined[(m + 1) + 1], (m + 1) + 1)
    OBVIOUS
  <2>. DEFINE i == m + 1
              inc == joined[i]
              row == rows[i + 1]
              A == Ancestors(rows)[i]
              next == joined[i + 1]
  <2>1. i \in 1 .. n /\ i + 1 \in 2 .. n /\ i + 1 \in 1 .. n /\ (i + 1) - 1 = i /\ i \in Nat
    BY <1>1
  <2>2. Good(inc, i) /\ next = Join(inc, row) /\ row.ordinal = i /\ i \in O
    BY <1>1, <1>8, <1>10, <2>1
  <2>. HIDE DEF i, inc, next
  <2>3. /\ Chain(rows, inc, i) = A \ inc
        /\ Cardinality(inc) \in Nat /\ IsFiniteSet(inc)
        /\ Cardinality(Chain(rows, inc, i)) \in Nat
        /\ inc \cup Chain(rows, inc, i) = inc \cup A
        /\ Cardinality(inc) + Cardinality(Chain(rows, inc, i)) = Cardinality(inc \cup A)
    <3>1. IsConnected(inc, rows, limit) /\ i \in Ordinals(rows)
      BY <2>2 DEF O
    <3>. HIDE DEF Good, Passed, first, Is, P, V
    <3>. QED BY <3>1, ChainIsMissing
  <2>4. /\ A \in SUBSET O /\ i \in A /\ \A a \in A : a # 0 => ParentOf(rows, a) \in A
    BY <2>2, AncestorsAreChains DEF IsChainUp, O
  <2>. HIDE DEF A
  <2>5. CASE Passed(inc, row)
    <3>1. next = inc
      BY <2>2, <2>5 DEF Join
    <3>2. IsTreeFocus(row, profile) => Cardinality(inc \cup A) > limit
      BY <2>2, <2>3, <2>5
    <3>3. HoldsFocused(inc, rows, profile, limit, i + 1)
      <4>. SUFFICES ASSUME NEW k \in 1 .. (i + 1), IsTreeFocus(rows[k], profile),
                           k - 1 \notin inc
                    PROVE  Cardinality(inc \cup Ancestors(rows)[k - 1]) > limit
        BY DEF HoldsFocused
      <4>1. k \in 1 .. i \/ k = i + 1
        BY <2>1
      <4>2. k = i + 1 => k - 1 = i
        BY <2>1
      <4>. QED BY <2>2, <3>2, <4>1, <4>2 DEF HoldsFocused, A
    <3>. QED BY <2>2, <3>1, <3>3 DEF next, i
  <2>6. CASE ~Passed(inc, row)
    <3>1. next = inc \cup A /\ Cardinality(inc \cup A) <= limit
      <4>1. next = inc \cup Chain(rows, inc, i)
        BY <2>2, <2>6 DEF Join
      <4>2. Cardinality(inc) + Cardinality(Chain(rows, inc, i)) <= limit
        BY <2>2, <2>3, <2>6
      <4>. QED BY <2>3, <4>1, <4>2
    <3>2. IsConnected(next, rows, limit)
      BY <2>2, <2>4, <3>1 DEF IsConnected, O
    <3>3. HoldsFocused(next, rows, profile, limit, i + 1)
      <4>. SUFFICES ASSUME NEW k \in 1 .. (i + 1), IsTreeFocus(rows[k], profile),
                           k - 1 \notin next
                    PROVE  Cardinality(next \cup Ancestors(rows)[k - 1]) > limit
        BY DEF HoldsFocused
      <4>1. k \in 1 .. i \/ k = i + 1
        BY <2>1
      <4>2. k \in 1 .. i
        BY <2>1, <2>4, <3>1, <4>1
      <4>. DEFINE B == Ancestors(rows)[k - 1]
      <4>3. Cardinality(inc \cup B) > limit
        BY <2>2, <3>1, <4>2 DEF HoldsFocused
      <4>4. k - 1 \in O
        BY <1>1, <2>1, <4>2
      <4>5. B \in SUBSET O
        BY <4>4, AncestorsExist DEF IsAbove, O
      <4>. HIDE DEF B
      <4>6. next \cup B \in SUBSET O /\ inc \cup B \subseteq next \cup B
        BY <2>2, <2>4, <3>1, <4>5 DEF IsConnected, O
      <4>7. IsFiniteSet(next \cup B) /\ Cardinality(next \cup B) \in Nat
            /\ Cardinality(inc \cup B) \in Nat
        BY <4>6, OrdinalsAreFinite DEF O
      <4>8. Cardinality(inc \cup B) <= Cardinality(next \cup B)
        BY <4>6, <4>7, FS_Subset
      <4>. QED BY <4>3, <4>7, <4>8 DEF B
    <3>. QED BY <3>2, <3>3 DEF next, i
  <2>. QED BY <2>5, <2>6
<1>11. \A m \in Nat : m \in P
  <2>. HIDE DEF P
  <2>. QED BY <1>9, <1>10, NatSetInduction
<1>12. Good(joined[n], n)
  <2>1. n - 1 \in Nat /\ (n - 1) + 1 = n /\ n \in 1 .. n
    BY <1>1
  <2>2. n - 1 \in P
    BY <1>11, <2>1
  <2>. HIDE DEF Good, n
  <2>. QED BY <2>1, <2>2
<1>. QED BY <1>7, <1>12

\* The children that a window shows of a node, and whether they are all of them.
LEMMA WindowShowsChildren ==
    ASSUME NEW rows, TreeRows(rows), NEW included, included \subseteq Ordinals(rows),
           NEW o \in Ordinals(rows)
    PROVE  LET shown == Sorted({c \in included : ParentOf(rows, c) = o}, <)
           IN  /\ shown \in Seq(Ordinals(rows)) /\ IsInjective(shown)
               /\ ToSet(shown) = included \cap Under(rows, o)
               /\ (Len(shown) = Row(rows, o).children) <=> Under(rows, o) \subseteq included
<1>. DEFINE S == {c \in included : ParentOf(rows, c) = o}
            shown == Sorted(S, <)
            U == Under(rows, o)
<1>1. S = included \cap U /\ S \in SUBSET Ordinals(rows) /\ U \in SUBSET Ordinals(rows)
      /\ S \in SUBSET U
  BY DEF Under
<1>. HIDE DEF S, U
<1>2. IsFiniteSet(S) /\ S \subseteq Int /\ IsFiniteSet(U)
  BY <1>1, OrdinalsAreFinite
<1>3. /\ shown \in Seq(S) /\ Len(shown) = Cardinality(S) /\ ToSet(shown) = S
      /\ IsInjective(shown)
  BY <1>2, SortedNumbers
<1>. HIDE DEF shown
<1>4. Row(rows, o).children = Cardinality(U)
  BY ChildrenAreCounted DEF U
<1>5. Cardinality(S) = Cardinality(U) <=> U = S
  BY <1>1, <1>2, FS_Subset
<1>6. shown \in Seq(Ordinals(rows))
  BY <1>1, <1>3
<1>7. U = S <=> U \subseteq included
  BY <1>1
<1>8. /\ shown \in Seq(Ordinals(rows)) /\ IsInjective(shown)
      /\ ToSet(shown) = included \cap U
      /\ (Len(shown) = Row(rows, o).children) <=> U \subseteq included
  BY <1>1, <1>3, <1>4, <1>5, <1>6, <1>7
<1>. QED BY <1>8 DEF shown, S, U

\* The window of a tree, node by node.
LEMMA WindowOfTree ==
    ASSUME NEW rows, TreeRows(rows), NEW profile, NEW limit \in Nat \ {0}
    PROVE  LET window == TreeProjection(rows, profile, limit).nodes
               included == FocusedOrdinals(rows, profile, limit)
           IN  /\ DOMAIN window = included
               /\ IsConnected(included, rows, limit)
               /\ HoldsFocused(included, rows, profile, limit, Len(rows))
               /\ \A o \in included :
                    /\ o \in Ordinals(rows)
                    /\ window[o].children \in Seq(Ordinals(rows))
                    /\ IsInjective(window[o].children)
                    /\ ToSet(window[o].children) = included \cap Under(rows, o)
                    /\ window[o].complete \in BOOLEAN
                    /\ window[o].complete <=> Under(rows, o) \subseteq included
<1>. DEFINE window == TreeProjection(rows, profile, limit).nodes
            included == FocusedOrdinals(rows, profile, limit)
            Shown(o) == Sorted({c \in included : ParentOf(rows, c) = o}, <)
<1>1. /\ DOMAIN window = included
      /\ \A o \in included : /\ window[o].children = Shown(o)
                             /\ window[o].complete = (Len(Shown(o)) = Row(rows, o).children)
  BY DEF TreeProjection
<1>2. /\ IsConnected(included, rows, limit)
      /\ HoldsFocused(included, rows, profile, limit, Len(rows))
  BY FocusedAreConnected
<1>. HIDE DEF included
<1>3. included \subseteq Ordinals(rows)
  BY <1>2 DEF IsConnected
<1>4. ASSUME NEW o \in included
      PROVE  /\ Shown(o) \in Seq(Ordinals(rows)) /\ IsInjective(Shown(o))
             /\ ToSet(Shown(o)) = included \cap Under(rows, o)
             /\ (Len(Shown(o)) = Row(rows, o).children) <=> Under(rows, o) \subseteq included
  <2>1. o \in Ordinals(rows)
    BY <1>3
  <2>. QED BY <1>3, <2>1, WindowShowsChildren
<1>. HIDE DEF window, Shown
<1>5. ASSUME NEW o \in included
      PROVE  /\ o \in Ordinals(rows)
             /\ window[o].children \in Seq(Ordinals(rows))
             /\ IsInjective(window[o].children)
             /\ ToSet(window[o].children) = included \cap Under(rows, o)
             /\ window[o].complete \in BOOLEAN
             /\ window[o].complete <=> Under(rows, o) \subseteq included
  <2>1. o \in Ordinals(rows)
    BY <1>3
  <2>2. /\ window[o].children = Shown(o)
        /\ window[o].complete = (Len(Shown(o)) = Row(rows, o).children)
    BY <1>1
  <2>3. /\ Shown(o) \in Seq(Ordinals(rows)) /\ IsInjective(Shown(o))
        /\ ToSet(Shown(o)) = included \cap Under(rows, o)
    BY <1>4
  <2>4. (Len(Shown(o)) = Row(rows, o).children) <=> Under(rows, o) \subseteq included
    BY <1>4
  <2>5. window[o].complete \in BOOLEAN /\ (window[o].complete <=> Under(rows, o) \subseteq included)
    BY <2>2, <2>4
  <2>. QED BY <2>1, <2>2, <2>3, <2>5
<1>6. /\ DOMAIN window = included
      /\ IsConnected(included, rows, limit)
      /\ HoldsFocused(included, rows, profile, limit, Len(rows))
      /\ \A o \in included :
           /\ o \in Ordinals(rows)
           /\ window[o].children \in Seq(Ordinals(rows))
           /\ IsInjective(window[o].children)
           /\ ToSet(window[o].children) = included \cap Under(rows, o)
           /\ window[o].complete \in BOOLEAN
           /\ window[o].complete <=> Under(rows, o) \subseteq included
  BY <1>1, <1>2, <1>5
<1>. QED BY <1>6 DEF window, included

\* The window of a file's tree in any focus.
LEMMA WindowsAreConnected ==
    ASSUME NEW rows, TreeRows(rows), NEW profile
    PROVE  WindowIsConnected(rows, profile)
<1>. DEFINE window == TreeProjection(rows, profile, NODE_LIMIT).nodes
            W == FocusedOrdinals(rows, profile, NODE_LIMIT)
<1>0. NODE_LIMIT \in Nat \ {0}
  BY BranchAssumption
<1>1. /\ DOMAIN window = W
      /\ IsConnected(W, rows, NODE_LIMIT)
      /\ HoldsFocused(W, rows, profile, NODE_LIMIT, Len(rows))
      /\ \A o \in W :
           /\ o \in Ordinals(rows)
           /\ ToSet(window[o].children) = W \cap Under(rows, o)
           /\ window[o].complete <=> Under(rows, o) \subseteq W
  BY <1>0, WindowOfTree
<1>. HIDE DEF window, W
<1>2. 0 \in W /\ Cardinality(W) <= NODE_LIMIT
  BY <1>1 DEF IsConnected
<1>3. ASSUME NEW o \in W, o # 0
      PROVE  \E p \in W : o \in ToSet(window[p].children)
  <2>1. ParentOf(rows, o) \in W /\ o \in Under(rows, ParentOf(rows, o))
    BY <1>1, <1>3 DEF IsConnected, Under
  <2>. QED BY <1>1, <2>1
<1>4. ASSUME NEW o \in Ordinals(rows) \ W, IsTreeFocus(Row(rows, o), profile)
      PROVE  Cardinality(W) + Cardinality(Chain(rows, W, o)) > NODE_LIMIT
  <2>1. Row(rows, o) = rows[o + 1] /\ o + 1 \in 1 .. Len(rows) /\ (o + 1) - 1 = o
    BY RowsByOrdinal
  <2>2. Cardinality(W \cup Ancestors(rows)[o]) > NODE_LIMIT
    BY <1>1, <1>4, <2>1 DEF HoldsFocused
  <2>3. Cardinality(W) + Cardinality(Chain(rows, W, o)) = Cardinality(W \cup Ancestors(rows)[o])
    BY <1>1, ChainIsMissing
  <2>. QED BY <2>2, <2>3
<1>5. \A o \in W : window[o].complete <=> {c \in Ordinals(rows) : ParentOf(rows, c) = o} \subseteq W
  BY <1>1 DEF Under
<1>6. Window(rows, profile).nodes = window
  BY DEF Window, window
<1>. QED BY <1>1, <1>2, <1>3, <1>4, <1>5, <1>6 DEF WindowIsConnected

-----------------------------------------------------------------------------
(* A branch and the pages that are loaded into it.                         *)

\* Joining two sequences that have no element in common.
LEMMA JoinOfDisjoint ==
    ASSUME NEW T, NEW s \in Seq(T), NEW t \in Seq(T), IsInjective(s), IsInjective(t),
           ToSet(s) \cap ToSet(t) = {}
    PROVE  /\ s \o t \in Seq(T) /\ ToSet(s \o t) = ToSet(s) \cup ToSet(t)
           /\ IsInjective(s \o t)
<1>. DEFINE u == s \o t
            m == Len(s)
<1>1. /\ u \in Seq(T) /\ m \in Nat /\ Len(t) \in Nat
      /\ DOMAIN s = 1 .. m /\ DOMAIN t = 1 .. Len(t) /\ DOMAIN u = 1 .. (m + Len(t))
      /\ \A i \in 1 .. (m + Len(t)) : u[i] = IF i <= m THEN s[i] ELSE t[i - m]
  OBVIOUS
<1>. HIDE DEF u, m
<1>2. \A i \in DOMAIN s : i \in DOMAIN u /\ u[i] = s[i]
  BY <1>1
<1>3. \A i \in DOMAIN t : i + m \in DOMAIN u /\ u[i + m] = t[i]
  BY <1>1
<1>4. ASSUME NEW i \in DOMAIN u
      PROVE  \/ i \in DOMAIN s /\ u[i] = s[i] /\ s[i] \in ToSet(s)
             \/ /\ ~(i <= m) /\ i - m \in DOMAIN t /\ i - m \in Int
                /\ u[i] = t[i - m] /\ t[i - m] \in ToSet(t)
  BY <1>1 DEF ToSet
<1>5. ToSet(u) = ToSet(s) \cup ToSet(t)
  <2>1. \A x \in ToSet(u) : x \in ToSet(s) \cup ToSet(t)
    BY <1>4 DEF ToSet
  <2>2. \A x \in ToSet(s) \cup ToSet(t) : x \in ToSet(u)
    BY <1>2, <1>3 DEF ToSet
  <2>. QED BY <2>1, <2>2
<1>6. IsInjective(u)
  <2>. SUFFICES ASSUME NEW i \in DOMAIN u, NEW j \in DOMAIN u, u[i] = u[j] PROVE i = j
    BY DEF IsInjective
  <2>1. CASE i \in DOMAIN s /\ u[i] = s[i] /\ s[i] \in ToSet(s)
    <3>1. j \in DOMAIN s /\ u[j] = s[j]
      BY <1>4, <2>1
    <3>. QED BY <2>1, <3>1 DEF IsInjective
  <2>2. CASE /\ ~(i <= m) /\ i - m \in DOMAIN t /\ i - m \in Int
             /\ u[i] = t[i - m] /\ t[i - m] \in ToSet(t)
    <3>1. ~(j <= m) /\ j - m \in DOMAIN t /\ j - m \in Int /\ u[j] = t[j - m]
      BY <1>4, <2>2
    <3>2. i - m = j - m
      BY <2>2, <3>1 DEF IsInjective
    <3>. QED BY <1>1, <3>2
  <2>. QED BY <1>4, <2>1, <2>2
<1>. QED BY <1>1, <1>5, <1>6 DEF u
\* The children a branch has: those of its node, each once, and among them all that
\* the pages up to `next` gave.
BranchHolds(rows, o, children, next) ==
    /\ children \in Seq(Ordinals(rows)) /\ IsInjective(children)
    /\ ToSet(children) \subseteq Under(rows, o)
    /\ next \in 0 .. Len(ChildRows(rows, o))
    /\ \A k \in 1 .. next : ChildRows(rows, o)[k].ordinal \in ToSet(children)

LEMMA PageIsMerged ==
    ASSUME NEW rows, TreeRows(rows), NEW o \in Ordinals(rows), NEW current, NEW next,
           BranchHolds(rows, o, current, next), NEW size \in Nat \ {0}
    PROVE  LET page == NodeChildren(rows, o, next, size)
               loaded == [k \in DOMAIN page.children |-> page.children[k].id[2]]
               merged == MergeNodes(current, loaded)
           IN  /\ BranchHolds(rows, o, merged,
                              IF page.next = NoNode THEN page.count ELSE page.next)
               /\ page.next = NoNode => ToSet(merged) = Under(rows, o)
<1>. DEFINE page == NodeChildren(rows, o, next, size)
            loaded == [k \in DOMAIN page.children |-> page.children[k].id[2]]
            merged == MergeNodes(current, loaded)
            then == IF page.next = NoNode THEN page.count ELSE page.next
            all == ChildRows(rows, o)
            U == Under(rows, o)
            n == Len(all)
            ends == {next + size, n}
            up == Min(ends)
            some == SubSeq(all, next + 1, up)
<1>1. AreChildRows(all, rows, o)
  BY ChildRowsAreThere
<1>2. /\ all \in Seq(ToSet(rows)) /\ n \in Nat /\ DOMAIN all = 1 .. n
      /\ \A k \in 1 .. n : all[k].ordinal \in U
      /\ \A c \in U : \E k \in 1 .. n : all[k].ordinal = c
      /\ \A j, k \in 1 .. n : all[j].ordinal = all[k].ordinal => j = k
  BY <1>1 DEF AreChildRows
<1>3. Row(rows, o).children = n
  BY <1>1, ChildrenAreCounted DEF AreChildRows
<1>4. /\ current \in Seq(Ordinals(rows)) /\ IsInjective(current) /\ ToSet(current) \subseteq U
      /\ next \in 0 .. n /\ \A k \in 1 .. next : all[k].ordinal \in ToSet(current)
  BY DEF BranchHolds
<1>5. U \subseteq Ordinals(rows)
  BY DEF Under
<1>6. /\ page.count = n
      /\ page.children = [k \in DOMAIN some |-> FlatNode(some[k])]
      /\ page.next = IF next + Len(some) < n THEN next + Len(some) ELSE NoNode
  BY <1>3 DEF NodeChildren
<1>. HIDE DEF page, all, n, U
<1>7. up \in next .. n /\ (up = next + size \/ up = n) /\ up \in Nat
  <2>1. ends \subseteq Int /\ ends # {} /\ IsFiniteSet(ends)
    <3>1. IsFiniteSet(ends)
      BY PairIsFinite
    <3>. QED BY <1>2, <1>4, <3>1
  <2>2. Min(ends) \in ends /\ \A x \in ends : Min(ends) <= x
    <3>. HIDE DEF ends
    <3>. QED BY <2>1, MinMaxOf
  <2>. QED BY <1>2, <1>4, <2>2
<1>. HIDE DEF up
<1>8. /\ DOMAIN some = 1 .. (up - next) /\ Len(some) = up - next
      /\ \A k \in 1 .. (up - next) : some[k] = all[next + k]
  <2>1. up \in next .. Len(all) /\ next \in Nat
    <3>1. up \in next .. n /\ next \in Nat
      BY <1>2, <1>4, <1>7
    <3>. QED BY <3>1 DEF n
  <2>. DEFINE T == ToSet(rows)
  <2>2. all \in Seq(T)
    BY <1>2
  <2>. HIDE DEF T
  <2>3. /\ DOMAIN SubSeq(all, next + 1, up) = 1 .. (up - next)
        /\ Len(SubSeq(all, next + 1, up)) = up - next
        /\ \A k \in 1 .. (up - next) : SubSeq(all, next + 1, up)[k] = all[next + k]
    BY <2>1, <2>2, PartOfSequence
  <2>. QED BY <2>3
<1>. HIDE DEF some
<1>9. then = up /\ (page.next = NoNode => up = n)
  <2>1. next + Len(some) = up
    BY <1>4, <1>7, <1>8
  <2>. QED BY <1>2, <1>6, <1>7, <2>1 DEF NoNode
<1>10. /\ DOMAIN loaded = 1 .. (up - next)
       /\ \A k \in 1 .. (up - next) : loaded[k] = all[next + k].ordinal
  BY <1>6, <1>8 DEF FlatNode, NodeId
<1>. HIDE DEF then
<1>11. loaded = [k \in 1 .. (up - next) |-> loaded[k]]
  BY <1>10
<1>. HIDE DEF loaded
<1>12. \A k \in 1 .. (up - next) : next + k \in 1 .. n /\ loaded[k] \in U
  BY <1>2, <1>4, <1>7, <1>10
<1>13. loaded \in Seq(U)
  <2>1. up - next \in Nat
    BY <1>4, <1>7
  <2>2. loaded \in [1 .. (up - next) -> U]
    BY <1>11, <1>12
  <2>. QED BY <2>1, <2>2
<1>14. IsInjective(loaded)
  <2>. SUFFICES ASSUME NEW j \in 1 .. (up - next), NEW k \in 1 .. (up - next),
                       loaded[j] = loaded[k]
                PROVE  j = k
    BY <1>10 DEF IsInjective
  <2>1. next + j = next + k
    BY <1>2, <1>10, <1>12
  <2>. QED BY <1>4, <1>7, <2>1
<1>. DEFINE fresh == {k \in DOMAIN loaded : loaded[k] \notin ToSet(current)}
            added == Selected(loaded, fresh)
<1>15. merged = current \o added
  BY DEF MergeNodes
<1>16. /\ added \in Seq(U) /\ IsInjective(added)
       /\ ToSet(added) = {loaded[k] : k \in fresh \cap DOMAIN loaded}
  BY <1>13, <1>14, SelectedOf
<1>. HIDE DEF merged, added
<1>17. ToSet(current) \cap ToSet(added) = {} /\ added \in Seq(Ordinals(rows))
  BY <1>5, <1>16
<1>18. /\ merged \in Seq(Ordinals(rows)) /\ IsInjective(merged)
       /\ ToSet(merged) = ToSet(current) \cup ToSet(added)
  BY <1>4, <1>15, <1>16, <1>17, JoinOfDisjoint
<1>19. /\ ToSet(current) \subseteq ToSet(merged)
       /\ \A k \in DOMAIN loaded : loaded[k] \in ToSet(merged)
       /\ ToSet(merged) \subseteq U
  BY <1>4, <1>10, <1>12, <1>16, <1>18
<1>20. \A k \in 1 .. up : all[k].ordinal \in ToSet(merged)
  <2>. TAKE k \in 1 .. up
  <2>1. CASE k \in 1 .. next
    BY <1>4, <1>19, <2>1
  <2>2. CASE k \notin 1 .. next
    <3>1. k - next \in 1 .. (up - next) /\ next + (k - next) = k
      BY <1>4, <1>7, <2>2
    <3>. QED BY <1>10, <1>19, <3>1
  <2>. QED BY <2>1, <2>2
<1>21. BranchHolds(rows, o, merged, up)
  <2>1. up \in 0 .. n
    BY <1>2, <1>4, <1>7
  <2>. QED BY <1>18, <1>19, <1>20, <2>1 DEF BranchHolds, all, n, U
<1>22. up = n => ToSet(merged) = U
  <2>. HAVE up = n
  <2>1. \A c \in U : c \in ToSet(merged)
    <3>. TAKE c \in U
    <3>1. PICK k \in 1 .. n : all[k].ordinal = c
      BY <1>2
    <3>. QED BY <1>20, <3>1
  <2>. QED BY <1>19, <2>1
<1>. QED BY <1>9, <1>21, <1>22 DEF page, loaded, merged, then, U

-----------------------------------------------------------------------------
(* The tree of a file's diff regions.                                      *)

Place(rows, o) == Row(rows, o).payload.xmlSpan
Within(rows, o, p) ==
    Place(rows, p)[1] < Place(rows, o)[1] /\ Place(rows, o)[2] < Place(rows, p)[2]

\* In the XML text a node is within those above it, and no other.
XmlNests(rows) ==
    \A o, p \in Ordinals(rows) :
       Within(rows, o, p) <=> p \in Ancestors(rows)[o] \ {o}

LEMMA RecordsNest ==
    ASSUME NEW nodes, IsTree(nodes), NEW file
    PROVE  XmlNests(NodeRecords(nodes, file))
<1>. DEFINE rows == NodeRecords(nodes, file)
            O == Ordinals(rows)
            A == Ancestors(rows)
            Q(o) == ParentOf(rows, o)
            Reached == {m \in Nat : \A o \in O : o <= m =>
                         \A p \in A[o] : p # o => Within(rows, o, p)}
            Around == {m \in Nat : \A o \in O : o <= m =>
                         \A p \in O : Within(rows, o, p) => p \in A[o] \ {o}}
<1>1. TreeRows(rows) /\ Len(rows) = Len(nodes)
  BY RecordsAreTreeRows
<1>2. /\ O = 0 .. (Len(nodes) - 1) /\ Len(nodes) \in Nat \ {0} /\ DOMAIN nodes = 1 .. Len(nodes)
      /\ \A o \in O : /\ Row(rows, o) = rows[o + 1] /\ o + 1 \in 1 .. Len(nodes) /\ o \in Nat
                      /\ Q(o) \in Int /\ Q(o) < o
                      /\ o = 0 => Q(o) = -1
                      /\ o # 0 => Q(o) \in O
                      /\ Q(o) = rows[o + 1].parent
  <2>1. nodes \in Seq(ToSet(nodes))
    BY DEF IsTree
  <2>2. DOMAIN nodes = 1 .. Len(nodes)
    BY <2>1
  <2>. HIDE DEF rows
  <2>. QED BY <1>1, <2>2, RowsByOrdinal
<1>3. \A k \in 1 .. Len(nodes) :
         /\ rows[k].payload = [nodes[k] EXCEPT !.parent = 0]
         /\ rows[k].parent = nodes[k].parent - 1
  BY <1>2 DEF NodeRecords
<1>. HIDE DEF rows
<1>4. \A k \in 1 .. Len(nodes) : /\ rows[k].payload.xmlSpan = nodes[k].xmlSpan
                                 /\ nodes[k].xmlSpan \in Nat \X Nat
  <2>. TAKE k \in 1 .. Len(nodes)
  <2>1. "xmlSpan" \in DOMAIN nodes[k] /\ nodes[k].xmlSpan \in Nat \X Nat
    BY <1>2 DEF IsTree
  <2>2. [nodes[k] EXCEPT !.parent = 0].xmlSpan = nodes[k].xmlSpan
    BY <2>1
  <2>. QED BY <1>3, <2>1, <2>2
<1>5. \A o \in O : /\ Place(rows, o) = nodes[o + 1].xmlSpan
                   /\ Place(rows, o)[1] \in Nat /\ Place(rows, o)[2] \in Nat
  BY <1>2, <1>4 DEF Place
<1>6. ASSUME NEW o \in O, o # 0
      PROVE  /\ Within(rows, o, Q(o))
             /\ \A p \in O : Within(rows, o, p) => p = Q(o) \/ Within(rows, Q(o), p)
  <2>. DEFINE k == o + 1
  <2>1. /\ k \in 2 .. Len(nodes) /\ k \in 1 .. Len(nodes) /\ nodes[k].parent = Q(o) + 1
        /\ Q(o) \in O /\ nodes[k].parent \in Int
    <3>1. k \in 2 .. Len(nodes) /\ k \in 1 .. Len(nodes) /\ Q(o) \in O /\ Q(o) = rows[k].parent
      BY <1>2, <1>6
    <3>2. Q(o) = nodes[k].parent - 1
      BY <1>3, <3>1
    <3>3. nodes[k].parent \in Int
      BY <1>2, <3>1 DEF IsTree
    <3>. QED BY <1>2, <3>1, <3>2, <3>3
  <2>2. \A j \in DOMAIN nodes :
          nodes[j].xmlSpan[1] < nodes[k].xmlSpan[1] /\ nodes[k].xmlSpan[2] < nodes[j].xmlSpan[2]
          => \/ j = nodes[k].parent
             \/ /\ nodes[j].xmlSpan[1] < nodes[nodes[k].parent].xmlSpan[1]
                /\ nodes[nodes[k].parent].xmlSpan[2] < nodes[j].xmlSpan[2]
    BY <2>1 DEF IsTree
  <2>3. /\ nodes[nodes[k].parent].xmlSpan[1] < nodes[k].xmlSpan[1]
        /\ nodes[k].xmlSpan[2] < nodes[nodes[k].parent].xmlSpan[2]
    BY <2>1 DEF IsTree
  <2>4. Within(rows, o, Q(o))
    BY <1>5, <2>1, <2>3 DEF Within
  <2>5. \A p \in O : Within(rows, o, p) => p = Q(o) \/ Within(rows, Q(o), p)
    <3>. TAKE p \in O
    <3>. HAVE Within(rows, o, p)
    <3>1. p + 1 \in DOMAIN nodes /\ p \in Int
      BY <1>2
    <3>2. /\ nodes[p + 1].xmlSpan[1] < nodes[k].xmlSpan[1]
          /\ nodes[k].xmlSpan[2] < nodes[p + 1].xmlSpan[2]
      BY <1>5 DEF Within
    <3>3. CASE p + 1 = nodes[k].parent
      BY <1>2, <2>1, <3>1, <3>3
    <3>4. CASE /\ nodes[p + 1].xmlSpan[1] < nodes[nodes[k].parent].xmlSpan[1]
               /\ nodes[nodes[k].parent].xmlSpan[2] < nodes[p + 1].xmlSpan[2]
      BY <1>5, <2>1, <3>4 DEF Within
    <3>. QED BY <2>2, <3>1, <3>2, <3>3, <3>4
  <2>. QED BY <2>4, <2>5
<1>7. /\ \A o \in O : ~Within(rows, o, o)
      /\ \A o, p, q \in O : Within(rows, o, p) /\ Within(rows, p, q) => Within(rows, o, q)
  BY <1>5 DEF Within
<1>8. /\ \A o \in O : A[o] = {o} \cup (IF Q(o) < 0 THEN {} ELSE A[Q(o)])
      /\ \A o \in O : A[o] \in SUBSET O /\ 0 \in A[o] /\ o \in A[o]
      /\ \A o \in O : \A a \in A[o] : a <= o
  BY <1>1, AncestorsExist, AncestorsAreChains DEF IsAbove, IsChainUp
<1>. HIDE DEF O, A, Q
<1>9. 0 \in Reached
  <2>1. \A o \in O : o <= 0 => A[o] = {o}
    BY <1>2, <1>8
  <2>. QED BY <2>1
<1>10. ASSUME NEW m \in Nat, m \in Reached PROVE m + 1 \in Reached
  <2>. SUFFICES ASSUME m + 1 \in O, NEW p \in A[m + 1], p # m + 1
                PROVE  Within(rows, m + 1, p)
    <3>1. \A c \in O : c <= m + 1 => c <= m \/ c = m + 1
      BY <1>2
    <3>2. \A c \in O : c <= m => \A a \in A[c] : a # c => Within(rows, c, a)
      BY <1>10
    <3>3. \A c \in O : c <= m + 1 => \A a \in A[c] : a # c => Within(rows, c, a)
      BY <3>1, <3>2
    <3>. QED BY <3>3
  <2>. DEFINE o == m + 1
  <2>1. o # 0 /\ Q(o) \in O /\ Q(o) <= m /\ ~(Q(o) < 0)
    BY <1>2
  <2>2. p \in A[Q(o)] /\ p \in O
    BY <1>8, <2>1
  <2>3. Within(rows, o, Q(o))
    BY <1>6, <2>1
  <2>4. p = Q(o) \/ Within(rows, Q(o), p)
    BY <1>10, <2>1, <2>2
  <2>. HIDE DEF o
  <2>5. Within(rows, o, p)
    BY <1>7, <2>1, <2>2, <2>3, <2>4 DEF o
  <2>. QED BY <2>5 DEF o
<1>11. \A m \in Nat : m \in Reached
  <2>. HIDE DEF Reached
  <2>. QED BY <1>9, <1>10, NatSetInduction
<1>12. \A o \in O : \A p \in A[o] : p # o => Within(rows, o, p)
  <2>. TAKE o \in O
  <2>1. o \in Nat /\ o <= o
    BY <1>2
  <2>2. o \in Reached
    BY <1>11, <2>1
  <2>. QED BY <2>1, <2>2
<1>13. 0 \in Around
  <2>. SUFFICES ASSUME 0 \in O, NEW p \in O, Within(rows, 0, p) PROVE FALSE
    BY <1>2
  <2>1. p # 0
    BY <1>7
  <2>2. Within(rows, p, 0)
    BY <1>8, <1>12, <2>1
  <2>. QED BY <1>7, <2>2
<1>14. ASSUME NEW m \in Nat, m \in Around PROVE m + 1 \in Around
  <2>. SUFFICES ASSUME m + 1 \in O, NEW p \in O, Within(rows, m + 1, p)
                PROVE  p \in A[m + 1] \ {m + 1}
    <3>1. \A c \in O : c <= m + 1 => c <= m \/ c = m + 1
      BY <1>2
    <3>2. \A c \in O : c <= m => \A a \in O : Within(rows, c, a) => a \in A[c] \ {c}
      BY <1>14
    <3>3. \A c \in O : c <= m + 1 => \A a \in O : Within(rows, c, a) => a \in A[c] \ {c}
      BY <3>1, <3>2
    <3>. QED BY <3>3
  <2>. DEFINE o == m + 1
  <2>1. o # 0 /\ Q(o) \in O /\ Q(o) <= m /\ ~(Q(o) < 0)
    BY <1>2
  <2>2. p = Q(o) \/ Within(rows, Q(o), p)
    BY <1>6, <2>1
  <2>3. p \in A[Q(o)]
    BY <1>8, <1>14, <2>1, <2>2
  <2>4. p # o
    BY <1>7
  <2>. QED BY <1>8, <2>1, <2>3, <2>4
<1>15. \A m \in Nat : m \in Around
  <2>. HIDE DEF Around
  <2>. QED BY <1>13, <1>14, NatSetInduction
<1>16. \A o, p \in O : Within(rows, o, p) => p \in A[o] \ {o}
  <2>. TAKE o, p \in O
  <2>1. o \in Nat /\ o <= o
    BY <1>2
  <2>2. o \in Around
    BY <1>15, <2>1
  <2>. QED BY <2>1, <2>2
<1>17. \A o, p \in O : Within(rows, o, p) <=> p \in A[o] \ {o}
  BY <1>12, <1>16
<1>. QED BY <1>17 DEF XmlNests, rows, O, A

\* A diff region is right below the last of those above it, the innermost one.
NearestDiff(rows, o, p) ==
    LET around == {q \in DiffOrdinals(rows) : Within(rows, o, q)}
    IN  p \in around /\ \A q \in around : q = p \/ Within(rows, p, q)

LEMMA NearestIsParent ==
    ASSUME NEW rows, TreeRows(rows), XmlNests(rows), NEW o \in DiffOrdinals(rows)
    PROVE  /\ {q \in DiffOrdinals(rows) : Within(rows, o, q)} = DiffsAbove(rows, o)
           /\ DiffsAbove(rows, o) = {} <=> DiffParent(rows, o) = NoNode
           /\ \A p : p # NoNode => (NearestDiff(rows, o, p) <=> DiffParent(rows, o) = p)
           /\ ~NearestDiff(rows, o, NoNode)
           /\ \A q \in DiffsAbove(rows, o) : q < o
<1>. DEFINE O == Ordinals(rows)
            D == DiffOrdinals(rows)
            A == Ancestors(rows)
            above == DiffsAbove(rows, o)
<1>1. D \subseteq O /\ O \subseteq Nat /\ above = (A[o] \ {o}) \cap D /\ o \in O
  BY OrdinalsAreFinite DEF DiffOrdinals, DiffsAbove
<1>2. /\ \A c \in O : A[c] \in SUBSET O /\ \A a \in A[c] : a <= c
      /\ \A c \in O : \A a, b \in A[c] : a <= b => a \in A[b]
  BY AncestorsAreChains DEF IsChainUp
<1>3. \A c, p \in O : Within(rows, c, p) <=> p \in A[c] \ {c}
  BY DEF XmlNests
<1>. HIDE DEF O, D, A, above
<1>4. {q \in D : Within(rows, o, q)} = above
  BY <1>1, <1>3
<1>5. \A q \in above : q < o /\ q \in O /\ q \in D /\ q \in Nat
  <2>. TAKE q \in above
  <2>1. q \in A[o] /\ q # o /\ q \in D
    BY <1>1
  <2>2. q <= o /\ q \in O /\ q \in Nat /\ o \in Nat
    BY <1>1, <1>2, <2>1
  <2>. QED BY <2>1, <2>2
<1>6. ASSUME above # {}
      PROVE  /\ DiffParent(rows, o) \in above
             /\ \A q \in above : q <= DiffParent(rows, o)
  <2>1. above \subseteq Int /\ IsFiniteSet(above)
    <3>1. above \in SUBSET Ordinals(rows)
      BY <1>5 DEF O
    <3>. QED BY <3>1, OrdinalsAreFinite
  <2>2. DiffParent(rows, o) = Max(above)
    BY <1>6 DEF DiffParent, above
  <2>. QED BY <1>6, <2>1, <2>2, MinMaxOf
<1>7. above = {} => DiffParent(rows, o) = NoNode
  BY DEF DiffParent, above
<1>8. NoNode \notin above
  BY <1>5 DEF NoNode
<1>9. above = {} <=> DiffParent(rows, o) = NoNode
  BY <1>6, <1>7, <1>8
<1>10. \A p : NearestDiff(rows, o, p) <=>
                p \in above /\ \A q \in above : q = p \/ Within(rows, p, q)
  BY <1>4 DEF NearestDiff, D
<1>11. ASSUME NEW p, p \in above, \A q \in above : q = p \/ Within(rows, p, q)
       PROVE  DiffParent(rows, o) = p
  <2>. DEFINE m == DiffParent(rows, o)
  <2>1. m \in above /\ p <= m
    BY <1>6, <1>11
  <2>. HIDE DEF m
  <2>2. m = p \/ m \in A[p]
    BY <1>3, <1>5, <1>11, <2>1
  <2>3. m <= p
    BY <1>2, <1>5, <1>11, <2>2
  <2>4. m = p
    BY <1>5, <1>11, <2>1, <2>3
  <2>. QED BY <2>4 DEF m
<1>12. ASSUME above # {}
       PROVE  \A q \in above : q = DiffParent(rows, o) \/ Within(rows, DiffParent(rows, o), q)
  <2>. TAKE q \in above
  <2>. DEFINE m == DiffParent(rows, o)
  <2>1. m \in above /\ q <= m
    BY <1>6
  <2>. HIDE DEF m
  <2>2. q \in A[o] /\ m \in A[o]
    BY <1>1, <2>1
  <2>3. q \in A[m]
    BY <1>1, <1>2, <2>1, <2>2
  <2>4. q = m \/ Within(rows, m, q)
    BY <1>3, <1>5, <2>1, <2>3
  <2>. QED BY <2>4 DEF m
<1>13. \A p : p # NoNode => (NearestDiff(rows, o, p) <=> DiffParent(rows, o) = p)
  <2>. TAKE p
  <2>. HAVE p # NoNode
  <2>1. NearestDiff(rows, o, p) => DiffParent(rows, o) = p
    BY <1>10, <1>11
  <2>2. ASSUME DiffParent(rows, o) = p PROVE NearestDiff(rows, o, p)
    <3>1. above # {}
      BY <1>7, <2>2
    <3>. QED BY <1>6, <1>10, <1>12, <2>2, <3>1
  <2>. QED BY <2>1, <2>2
<1>14. ~NearestDiff(rows, o, NoNode)
  BY <1>8, <1>10
<1>. QED BY <1>4, <1>5, <1>9, <1>13, <1>14 DEF D, above

\* The first diff regions are all of those there are, or as many as asked for; with a
\* region all those above it are among them.
LEMMA FirstDiffsAreReached ==
    ASSUME NEW rows, TreeRows(rows), XmlNests(rows), NEW limit \in Nat
    PROVE  ReachedDiffs(rows, FirstDiffs(rows, limit)) = FirstDiffs(rows, limit)
<1>. DEFINE D == DiffOrdinals(rows)
            Upto(o) == {d \in D : d <= o}
<1>1. D \subseteq Nat /\ \A S \in SUBSET D : IsFiniteSet(S) /\ Cardinality(S) \in Nat
  BY OrdinalsAreFinite DEF DiffOrdinals
<1>2. FirstDiffs(rows, limit) = {o \in D : Cardinality(Upto(o)) <= limit}
  BY DEF FirstDiffs
<1>3. \A o \in D : Upto(o) \in SUBSET D
  OBVIOUS
<1>. HIDE DEF D
<1>4. ASSUME NEW o \in D, Cardinality(Upto(o)) <= limit, NEW d \in D, d < o
      PROVE  Cardinality(Upto(d)) <= limit
  <2>1. Upto(d) \subseteq Upto(o)
    <3>1. D \subseteq Nat
      BY <1>1
    <3>2. \A e \in D : e <= d => e <= o
      BY <1>4, <3>1
    <3>. QED BY <3>2
  <2>. HIDE DEF Upto
  <2>2. /\ IsFiniteSet(Upto(o)) /\ Cardinality(Upto(o)) \in Nat /\ Cardinality(Upto(d)) \in Nat
    BY <1>1, <1>3
  <2>3. Cardinality(Upto(d)) <= Cardinality(Upto(o))
    BY <2>1, <2>2, FS_Subset
  <2>. QED BY <1>4, <2>2, <2>3
<1>5. \A o \in D : \A d \in DiffsAbove(rows, o) : d \in D /\ d < o
  <2>. TAKE o \in D
  <2>1. \A d \in DiffsAbove(rows, o) : d < o
    BY NearestIsParent DEF D
  <2>. QED BY <2>1 DEF DiffsAbove, D
<1>. HIDE DEF Upto
<1>6. \A o \in FirstDiffs(rows, limit) :
         DiffsAbove(rows, o) \subseteq FirstDiffs(rows, limit)
  BY <1>2, <1>4, <1>5
<1>. QED BY <1>6 DEF ReachedDiffs

\* The regions shown below a place, and whether they are all of them.
LEMMA ShownBelow ==
    ASSUME NEW rows, TreeRows(rows), NEW included, included \subseteq DiffOrdinals(rows), NEW o
    PROVE  LET shown == Sorted(BelowDiff(rows, included, o), <)
               all == Cardinality(BelowDiff(rows, DiffOrdinals(rows), o))
           IN  /\ ToSet(shown) = BelowDiff(rows, included, o)
               /\ (Len(shown) = all) <=>
                    \A d \in DiffOrdinals(rows) : DiffParent(rows, d) = o => d \in included
<1>. DEFINE S == BelowDiff(rows, included, o)
            B == BelowDiff(rows, DiffOrdinals(rows), o)
<1>1. /\ S \in SUBSET B /\ B \in SUBSET Ordinals(rows) /\ S \in SUBSET Ordinals(rows)
      /\ S = B <=> \A d \in DiffOrdinals(rows) : DiffParent(rows, d) = o => d \in included
  BY DEF BelowDiff, DiffOrdinals
<1>. HIDE DEF S, B
<1>2. IsFiniteSet(S) /\ S \subseteq Int /\ IsFiniteSet(B)
  BY <1>1, OrdinalsAreFinite
<1>3. ToSet(Sorted(S, <)) = S /\ Len(Sorted(S, <)) = Cardinality(S)
  BY <1>2, SortedNumbers
<1>4. Cardinality(S) = Cardinality(B) <=> S = B
  BY <1>1, <1>2, FS_Subset
<1>. QED BY <1>1, <1>3, <1>4 DEF S, B

LEMMA DiffTreesNest ==
    ASSUME NEW rows, TreeRows(rows), XmlNests(rows), NEW limit \in Nat
    PROVE  DiffTreeNests(rows, limit)
<1>. DEFINE D == DiffOrdinals(rows)
            inc == FirstDiffs(rows, limit)
            diffs == DiffTreeProjection(rows, limit)
            Shown(o) == Sorted(BelowDiff(rows, inc, o), <)
            Around(o) == {q \in D : Within(rows, o, q)}
<1>1. inc \subseteq D /\ NoNode \notin D
  BY OrdinalsAreFinite DEF FirstDiffs, DiffOrdinals, NoNode
<1>2. ReachedDiffs(rows, inc) = inc
  BY FirstDiffsAreReached
<1>3. /\ diffs.count = Cardinality(inc)
      /\ diffs.truncated = (Cardinality(inc) < Cardinality(D))
      /\ diffs.roots = Shown(NoNode)
      /\ DOMAIN diffs.nodes = ReachedDiffs(rows, inc)
      /\ \A o \in ReachedDiffs(rows, inc) :
           /\ diffs.nodes[o].children = Shown(o)
           /\ diffs.nodes[o].complete
                = (Len(Shown(o)) = Cardinality(BelowDiff(rows, D, o)))
  BY DEF DiffTreeProjection
<1>4. \A o : /\ ToSet(Shown(o)) = BelowDiff(rows, inc, o)
             /\ (Len(Shown(o)) = Cardinality(BelowDiff(rows, D, o))) <=>
                   \A d \in D : DiffParent(rows, d) = o => d \in inc
  BY <1>1, ShownBelow
<1>. HIDE DEF diffs, inc, Shown
<1>5. \A o \in D :
        /\ Around(o) = {} <=> DiffParent(rows, o) = NoNode
        /\ \A p \in D : NearestDiff(rows, o, p) <=> DiffParent(rows, o) = p
  <2>. TAKE o \in D
  <2>. HIDE DEF D
  <2>1. /\ Around(o) = DiffsAbove(rows, o)
        /\ DiffsAbove(rows, o) = {} <=> DiffParent(rows, o) = NoNode
        /\ \A p : p # NoNode => (NearestDiff(rows, o, p) <=> DiffParent(rows, o) = p)
    BY NearestIsParent DEF D
  <2>. QED BY <1>1, <2>1
<1>. HIDE DEF D
<1>6. Cardinality(DOMAIN diffs.nodes) = diffs.count
  BY <1>2, <1>3
<1>7. diffs.truncated <=> diffs.count < Cardinality(D)
  BY <1>3
<1>8. ASSUME NEW o \in DOMAIN diffs.nodes
      PROVE  /\ diffs.nodes[o].complete <=>
                  \A d \in D : NearestDiff(rows, d, o) => d \in DOMAIN diffs.nodes
             /\ Around(o) = {} => o \in ToSet(diffs.roots)
             /\ \A p \in DOMAIN diffs.nodes :
                  NearestDiff(rows, o, p) => o \in ToSet(diffs.nodes[p].children)
  <2>1. o \in inc /\ o \in D
    BY <1>1, <1>2, <1>3
  <2>2. diffs.nodes[o].complete <=>
          \A d \in D : NearestDiff(rows, d, o) => d \in DOMAIN diffs.nodes
    <3>1. \A d \in D : NearestDiff(rows, d, o) <=> DiffParent(rows, d) = o
      BY <1>5, <2>1
    <3>2. diffs.nodes[o].complete <=> \A d \in D : DiffParent(rows, d) = o => d \in inc
      BY <1>2, <1>3, <1>4, <2>1
    <3>. QED BY <1>2, <1>3, <3>1, <3>2
  <2>3. Around(o) = {} => o \in ToSet(diffs.roots)
    BY <1>3, <1>4, <1>5, <2>1 DEF BelowDiff
  <2>4. \A p \in DOMAIN diffs.nodes :
          NearestDiff(rows, o, p) => o \in ToSet(diffs.nodes[p].children)
    <3>. TAKE p \in DOMAIN diffs.nodes
    <3>. HAVE NearestDiff(rows, o, p)
    <3>1. p \in inc /\ p \in D
      BY <1>1, <1>2, <1>3
    <3>2. o \in BelowDiff(rows, inc, p)
      BY <1>5, <2>1, <3>1 DEF BelowDiff
    <3>. QED BY <1>2, <1>3, <1>4, <3>1, <3>2
  <2>. QED BY <2>2, <2>3, <2>4
<1>. QED BY <1>6, <1>7, <1>8 DEF DiffTreeNests, NearestDiff, Within, Place, D, diffs

-----------------------------------------------------------------------------
(* The trees and the branch of the file that is open.                      *)

BranchInv ==
    tree # NoTree =>
      /\ TreeRows(tree.rows) /\ XmlNests(tree.rows) /\ tree.node \in Ordinals(tree.rows)
      /\ BranchHolds(tree.rows, tree.node, branch.children, branch.next)
      /\ branch.complete => ToSet(branch.children) = Under(tree.rows, tree.node)

LEMMA BranchInvInit == BranchInit => BranchInv
  BY DEF BranchInit, BranchInv

LEMMA BranchInvStep ==
    ASSUME BranchInv, [OpenAnyBranch \/ LoadMore]_branchVars
    PROVE  BranchInv'
<1>1. ASSUME NEW nodes, NEW file, NEW profile \in FOCUS_PROFILES, IsTree(nodes),
             OpenBranch(NodeRecords(nodes, file), profile)
      PROVE  BranchInv'
  <2>. DEFINE rows == NodeRecords(nodes, file)
              window == TreeProjection(rows, profile, NODE_LIMIT).nodes
              included == FocusedOrdinals(rows, profile, NODE_LIMIT)
  <2>1. TreeRows(rows) /\ XmlNests(rows)
    BY <1>1, RecordsAreTreeRows, RecordsNest
  <2>2. PICK o \in DOMAIN window :
          /\ tree' = [rows |-> rows, node |-> o]
          /\ branch' = [children |-> window[o].children, complete |-> window[o].complete,
                        next |-> 0]
    BY <1>1 DEF OpenBranch, Window
  <2>. HIDE DEF rows
  <2>3. NODE_LIMIT \in Nat \ {0}
    BY BranchAssumption
  <2>4. /\ DOMAIN window = included
        /\ \A c \in included :
             /\ c \in Ordinals(rows)
             /\ window[c].children \in Seq(Ordinals(rows))
             /\ IsInjective(window[c].children)
             /\ ToSet(window[c].children) = included \cap Under(rows, c)
             /\ window[c].complete <=> Under(rows, c) \subseteq included
    BY <2>1, <2>3, WindowOfTree
  <2>. HIDE DEF window, included
  <2>5. o \in Ordinals(rows)
    BY <2>2, <2>4
  <2>6. AreChildRows(ChildRows(rows, o), rows, o)
    BY <2>1, <2>5, ChildRowsAreThere
  <2>7. Len(ChildRows(rows, o)) \in Nat
    BY <2>6 DEF AreChildRows
  <2>8. BranchHolds(rows, o, window[o].children, 0)
    BY <2>2, <2>4, <2>7 DEF BranchHolds
  <2>9. window[o].complete => ToSet(window[o].children) = Under(rows, o)
    BY <2>2, <2>4
  <2>10. /\ tree'.rows = rows /\ tree'.node = o
         /\ branch'.children = window[o].children /\ branch'.next = 0
         /\ branch'.complete = window[o].complete
    BY <2>2
  <2>. QED BY <2>1, <2>5, <2>8, <2>9, <2>10 DEF BranchInv
<1>2. ASSUME LoadMore
      PROVE  BranchInv'
  <2>. DEFINE rows == tree.rows
              o == tree.node
              page == NodeChildren(rows, o, branch.next, CHILD_PAGE)
              loaded == [k \in DOMAIN page.children |-> page.children[k].id[2]]
              merged == MergeNodes(branch.children, loaded)
              next == IF page.next = NoNode THEN page.count ELSE page.next
  <2>1. /\ TreeRows(rows) /\ XmlNests(rows) /\ o \in Ordinals(rows)
        /\ BranchHolds(rows, o, branch.children, branch.next)
    BY <1>2 DEF BranchInv, LoadMore
  <2>2. CHILD_PAGE \in Nat \ {0}
    BY BranchAssumption
  <2>3. /\ tree' = tree
        /\ branch' = [children |-> merged, complete |-> page.next = NoNode, next |-> next]
    BY <1>2 DEF LoadMore
  <2>. HIDE DEF rows, o
  <2>4. /\ BranchHolds(rows, o, merged, next)
        /\ page.next = NoNode => ToSet(merged) = Under(rows, o)
    BY <2>1, <2>2, PageIsMerged
  <2>. HIDE DEF page, merged, next
  <2>5. /\ tree'.rows = rows /\ tree'.node = o
        /\ branch'.children = merged /\ branch'.next = next
        /\ branch'.complete = (page.next = NoNode)
    BY <2>3 DEF rows, o
  <2>. QED BY <2>1, <2>4, <2>5 DEF BranchInv
<1>3. CASE UNCHANGED branchVars
  BY <1>3 DEF branchVars, BranchInv
<1>. QED BY <1>1, <1>2, <1>3 DEF OpenAnyBranch

\* Of any tree, the rows of the file that is open are those of a tree, nested as its XML
\* text is, and the branch holds what the pages that were read gave.  (mergeNodes,
\* loadMore in ArtifactTree.tsx)
THEOREM BranchInvariant == BranchSpec => []BranchInv
<1>. QED BY BranchInvInit, BranchInvStep, PTL DEF BranchSpec

\* Of any tree, a branch holds children of its node only, none twice, and when it is
\* complete all of them, however many the window had put there before the first page.
\* (mergeNodes, loadMore in ArtifactTree.tsx; read_node_children)
THEOREM BranchHoldsAll == BranchSpec => []BranchHoldsEveryChild
<1>1. BranchInv => BranchHoldsEveryChild
  <2>. SUFFICES ASSUME BranchInv, tree # NoTree PROVE BranchHoldsEveryChild
    BY DEF BranchHoldsEveryChild
  <2>1. /\ IsInjective(branch.children)
        /\ ToSet(branch.children) \subseteq Under(tree.rows, tree.node)
        /\ branch.complete => ToSet(branch.children) = Under(tree.rows, tree.node)
    BY DEF BranchInv, BranchHolds
  <2>. QED BY <2>1 DEF BranchHoldsEveryChild, Under
<1>. QED BY <1>1, BranchInvariant, PTL

\* Of any tree, the window of each focus is one tree from the root down that fits its
\* bound and leaves out no focused node that fits, and the diff tree nests the regions
\* as the XML text does.  (projections.py: read_tree_projection, _focused_tree_ordinals,
\* read_diff_tree_projection)
THEOREM TreesStayConnected == BranchSpec => []TreesAreConnected
<1>1. BranchInv => TreesAreConnected
  <2>. SUFFICES ASSUME BranchInv, tree # NoTree PROVE TreesAreConnected
    BY DEF TreesAreConnected
  <2>1. TreeRows(tree.rows) /\ XmlNests(tree.rows)
    BY DEF BranchInv
  <2>2. \A profile \in FOCUS_PROFILES : WindowIsConnected(tree.rows, profile)
    BY <2>1, WindowsAreConnected
  <2>3. \A limit \in 1 .. NODE_LIMIT : limit \in Nat
    BY BranchAssumption
  <2>4. \A limit \in 1 .. NODE_LIMIT : DiffTreeNests(tree.rows, limit)
    BY <2>1, <2>3, DiffTreesNest
  <2>. QED BY <2>2, <2>4 DEF TreesAreConnected
<1>. QED BY <1>1, BranchInvariant, PTL
-----------------------------------------------------------------------------
(* The tree, from the rows that are stored of it.                          *)

\* Nodes in the order in which their tags open.
InXmlOrder(rows) ==
    /\ \A o \in Ordinals(rows) : Place(rows, o)[1] \in Nat /\ Place(rows, o)[2] \in Nat
    /\ \A o, p \in Ordinals(rows) : o < p => Place(rows, o)[1] < Place(rows, p)[1]

Subtree(rows, o) == {d \in Ordinals(rows) : o \in Ancestors(rows)[d]}
LastUnder(rows, o) == Max(Subtree(rows, o))

\* A node and all below it follow one another.
LEMMA SubtreesAreRuns ==
    ASSUME NEW rows, TreeRows(rows), XmlNests(rows), InXmlOrder(rows), NEW o \in Ordinals(rows)
    PROVE  /\ LastUnder(rows, o) \in Subtree(rows, o) /\ o <= LastUnder(rows, o)
           /\ Subtree(rows, o) = o .. LastUnder(rows, o)
<1>. DEFINE O == Ordinals(rows)
            A == Ancestors(rows)
            S == Subtree(rows, o)
            last == LastUnder(rows, o)
<1>1. O \subseteq Nat /\ O = 0 .. (Len(rows) - 1) /\ Len(rows) \in Nat
  BY RowsByOrdinal, OrdinalsAreFinite
<1>2. \A d \in O : IsChainUp(A, rows, d)
  BY AncestorsAreChains
<1>3. S \subseteq O /\ o \in S /\ \A d \in S : o \in A[d] /\ o <= d
  BY <1>2 DEF IsChainUp, Subtree
<1>4. last \in S /\ \A d \in S : d <= last
  <2>1. S \in SUBSET O
    BY <1>3
  <2>2. IsFiniteSet(S) /\ S \subseteq Int /\ S # {}
    BY <1>3, <2>1, OrdinalsAreFinite
  <2>. QED BY <2>2, MinMaxOf DEF LastUnder
<1>. HIDE DEF S, last
<1>5. ASSUME NEW d \in O, o < d, d < last PROVE d \in S
  <2>1. last \in O /\ o \in O /\ o \in A[last] \ {last}
    BY <1>1, <1>3, <1>4, <1>5
  <2>2. Within(rows, last, o)
    BY <2>1 DEF XmlNests
  <2>. SUFFICES ASSUME o \notin A[d] PROVE FALSE
    BY DEF S, Subtree
  <2>3. ~Within(rows, d, o)
    BY <2>1 DEF XmlNests
  <2>4. Place(rows, o)[1] < Place(rows, d)[1] /\ Place(rows, d)[1] < Place(rows, last)[1]
    BY <1>5, <2>1 DEF InXmlOrder
  <2>5. /\ Place(rows, o)[1] \in Nat /\ Place(rows, d)[1] \in Nat /\ Place(rows, last)[1] \in Nat
        /\ Place(rows, o)[2] \in Nat /\ Place(rows, d)[2] \in Nat /\ Place(rows, last)[2] \in Nat
    BY <2>1 DEF InXmlOrder
  <2>6. Within(rows, last, d)
    BY <2>2, <2>3, <2>4, <2>5 DEF Within
  <2>7. d \in A[last]
    BY <2>1, <2>6 DEF XmlNests
  <2>8. o <= d
    BY <1>1, <1>5
  <2>. QED BY <1>2, <2>1, <2>7, <2>8 DEF IsChainUp
<1>6. o <= last /\ last \in O
  BY <1>3, <1>4
<1>7. S = o .. last
  <2>1. \A d \in S : d \in o .. last
    BY <1>1, <1>3, <1>4
  <2>2. ASSUME NEW d \in o .. last PROVE d \in S
    <3>1. d \in O
      BY <1>1, <1>6
    <3>2. d = o \/ d = last \/ (o < d /\ d < last)
      BY <1>1, <1>6
    <3>. QED BY <1>3, <1>4, <1>5, <3>1, <3>2
  <2>. QED BY <2>1, <2>2
<1>. QED BY <1>4, <1>6, <1>7 DEF S, last

\* What is below a node is below one of its children.
LEMMA ChildAbove ==
    ASSUME NEW rows, TreeRows(rows), NEW o \in Ordinals(rows), NEW d \in Subtree(rows, o), d # o
    PROVE  \E q \in Under(rows, o) : d \in Subtree(rows, q)
<1>. DEFINE O == Ordinals(rows)
            A == Ancestors(rows)
            above == {a \in A[d] : o < a}
            q == Min(above)
            p == ParentOf(rows, q)
<1>1. O \subseteq Nat /\ d \in O /\ o \in A[d]
  BY OrdinalsAreFinite DEF Subtree
<1>2. \A c \in O : IsChainUp(A, rows, c)
  BY AncestorsAreChains
<1>3. A[d] \subseteq O /\ d \in A[d] /\ o <= d
  BY <1>1, <1>2 DEF IsChainUp
<1>4. q \in above /\ \A a \in above : q <= a
  <2>1. d \in above
    BY <1>1, <1>3
  <2>2. above \in SUBSET O
    BY <1>3
  <2>3. IsFiniteSet(above) /\ above \subseteq Int
    BY <2>2, OrdinalsAreFinite
  <2>. HIDE DEF above
  <2>. QED BY <2>1, <2>3, MinMaxOf
<1>. HIDE DEF q
<1>5. q \in O /\ q \in A[d] /\ o < q /\ q # 0
  BY <1>1, <1>3, <1>4
<1>6. p \in A[d] /\ p \in O /\ p < q
  BY <1>1, <1>2, <1>3, <1>5, RowsByOrdinal DEF IsChainUp
<1>7. p <= o
  BY <1>1, <1>4, <1>5, <1>6
<1>8. o \in A[q]
  <2>1. o <= q
    BY <1>1, <1>5
  <2>. QED BY <1>1, <1>2, <1>5, <2>1 DEF IsChainUp
<1>9. o \in A[p]
  <2>1. A[q] = {q} \cup (IF p < 0 THEN {} ELSE A[p])
    BY <1>5, AncestorsExist DEF IsAbove
  <2>. QED BY <1>1, <1>5, <1>6, <1>8, <2>1
<1>10. o <= p
  BY <1>2, <1>6, <1>9 DEF IsChainUp
<1>11. p = o
  BY <1>1, <1>6, <1>7, <1>10
<1>. QED BY <1>1, <1>5, <1>11 DEF Under, Subtree

\* The children of a node, each with all below it, follow one another and the node.
ChildrenFollow(rows, o, all) ==
    LET c(k) == all[k].ordinal
        last(a) == LastUnder(rows, a)
    IN  /\ Len(all) = 0 => last(o) = o
        /\ Len(all) # 0 => c(1) = o + 1 /\ last(c(Len(all))) = last(o)
        /\ \A k \in 1 .. (Len(all) - 1) : c(k + 1) = last(c(k)) + 1

LEMMA ChildrenInTurn ==
    ASSUME NEW rows, TreeRows(rows), XmlNests(rows), InXmlOrder(rows), NEW o \in Ordinals(rows)
    PROVE  ChildrenFollow(rows, o, ChildRows(rows, o))
<1>. DEFINE O == Ordinals(rows)
            A == Ancestors(rows)
            U == Under(rows, o)
            all == ChildRows(rows, o)
            m == Len(all)
            c(k) == all[k].ordinal
            last(a) == LastUnder(rows, a)
<1>1. O \subseteq Nat /\ \A a \in O : IsChainUp(A, rows, a)
  BY AncestorsAreChains, OrdinalsAreFinite
<1>2. \A a \in O : /\ Subtree(rows, a) = a .. last(a) /\ last(a) \in Subtree(rows, a)
                   /\ last(a) \in O /\ a <= last(a)
  BY SubtreesAreRuns DEF Subtree
<1>3. AreChildRows(all, rows, o)
  BY ChildRowsAreThere
<1>4. m \in Nat /\ DOMAIN all = 1 .. m
  BY <1>3 DEF AreChildRows
<1>. HIDE DEF all, m
<1>5. /\ \A k \in 1 .. m : c(k) \in U
      /\ \A a \in U : \E k \in 1 .. m : c(k) = a
      /\ \A j, k \in 1 .. m : j < k => c(j) < c(k)
  BY <1>3, <1>4 DEF AreChildRows
<1>. HIDE DEF c, last
<1>6. ASSUME NEW a \in U
      PROVE  /\ a \in O /\ A[a] = {a} \cup A[o] /\ o < a /\ a \in Subtree(rows, o)
             /\ last(a) <= last(o)
  <2>1. a \in O /\ ParentOf(rows, a) = o
    BY DEF Under
  <2>2. A[a] = {a} \cup A[o]
    BY <1>1, <2>1, AncestorsExist DEF IsAbove
  <2>3. o \in A[a] /\ o < a
    BY <1>1, <2>1, <2>2, RowsByOrdinal DEF IsChainUp
  <2>4. last(a) \in O /\ a \in A[last(a)]
    BY <1>2, <2>1 DEF Subtree
  <2>5. o \in A[last(a)]
    BY <1>1, <2>3, <2>4 DEF IsChainUp
  <2>6. last(a) \in Subtree(rows, o)
    BY <2>4, <2>5 DEF Subtree
  <2>7. last(a) <= last(o)
    <3>1. Subtree(rows, o) = o .. last(o) /\ last(o) \in O
      BY <1>2
    <3>2. last(a) \in o .. last(o) /\ o \in Nat /\ last(o) \in Nat
      BY <1>1, <2>6, <3>1
    <3>. QED BY <3>2
  <2>8. a \in Subtree(rows, o)
    BY <2>1, <2>3 DEF Subtree
  <2>. QED BY <2>1, <2>2, <2>3, <2>7, <2>8
\* No child is below another.
<1>7. ASSUME NEW a \in U, NEW b \in U, a # b PROVE b \notin Subtree(rows, a)
  <2>1. A[b] = {b} \cup A[o] /\ o < a /\ a \in O
    BY <1>6
  <2>2. \A x \in A[o] : x <= o
    BY <1>1 DEF IsChainUp
  <2>3. a \notin A[o]
    BY <1>1, <2>1, <2>2
  <2>. QED BY <1>7, <2>1, <2>3 DEF Subtree
<1>8. o + 1 <= last(o) => o + 1 \in U
  <2>. HAVE o + 1 <= last(o)
  <2>1. o + 1 \in Subtree(rows, o) /\ o + 1 # o
    BY <1>1, <1>2
  <2>2. PICK q \in U : o + 1 \in Subtree(rows, q)
    BY <2>1, ChildAbove
  <2>3. q <= o + 1 /\ o < q /\ q \in Nat
    BY <1>1, <1>2, <1>6, <2>2
  <2>4. q = o + 1
    BY <1>1, <2>3
  <2>. QED BY <2>4
<1>9. ASSUME NEW a \in U, last(a) + 1 <= last(o) PROVE last(a) + 1 \in U
  <2>. DEFINE e == last(a) + 1
  <2>1. a \in O /\ o < a /\ last(a) \in O /\ last(o) \in O /\ a <= last(a)
    BY <1>2, <1>6
  <2>2. e \in Subtree(rows, o) /\ e # o /\ e \in Nat
    BY <1>1, <1>2, <1>9, <2>1
  <2>3. PICK q \in U : e \in Subtree(rows, q)
    BY <2>2, ChildAbove
  <2>4. q \in O /\ q \in Nat /\ q <= e /\ e <= last(q)
    BY <1>1, <1>2, <1>6, <2>3
  <2>5. q # a
    BY <1>1, <2>1, <2>4
  <2>6. ~(q < a)
    <3>. SUFFICES ASSUME q < a PROVE FALSE
      OBVIOUS
    <3>1. a \in q .. last(q)
      BY <1>1, <1>2, <2>1, <2>4
    <3>. QED BY <1>2, <1>7, <2>4, <2>5, <3>1
  <2>7. q \notin a .. last(a)
    BY <1>2, <1>7, <2>1, <2>5
  <2>8. q = e
    BY <1>1, <2>1, <2>4, <2>5, <2>6, <2>7
  <2>. QED BY <2>8
<1>10. m = 0 => last(o) = o
  <2>. HAVE m = 0
  <2>1. U = {}
    BY <1>5
  <2>. QED BY <1>1, <1>2, <1>8, <2>1
<1>11. m # 0 => c(1) = o + 1
  <2>. HAVE m # 0
  <2>1. 1 \in 1 .. m /\ c(1) \in U
    BY <1>4, <1>5
  <2>2. c(1) \in O /\ o < c(1) /\ c(1) <= last(o) /\ last(o) \in O
    BY <1>1, <1>2, <1>6, <2>1
  <2>3. o + 1 \in U
    BY <1>1, <1>8, <2>2
  <2>4. PICK j \in 1 .. m : c(j) = o + 1
    BY <1>5, <2>3
  <2>5. j = 1 \/ 1 < j
    BY <1>4
  <2>6. ~(1 < j)
    BY <1>1, <1>5, <2>1, <2>2, <2>4
  <2>. QED BY <2>4, <2>5, <2>6
<1>12. m # 0 => last(c(m)) = last(o)
  <2>. HAVE m # 0
  <2>1. m \in 1 .. m /\ c(m) \in U
    BY <1>4, <1>5
  <2>2. last(c(m)) \in O /\ c(m) <= last(c(m)) /\ last(c(m)) <= last(o) /\ last(o) \in O /\ c(m) \in O
    BY <1>2, <1>6, <2>1
  <2>. SUFFICES ASSUME last(c(m)) # last(o) PROVE FALSE
    OBVIOUS
  <2>3. last(c(m)) + 1 \in U
    BY <1>1, <1>9, <2>1, <2>2
  <2>4. PICK j \in 1 .. m : c(j) = last(c(m)) + 1
    BY <1>5, <2>3
  <2>5. j = m \/ j < m
    BY <1>4
  <2>6. j < m => c(j) < c(m)
    BY <1>5, <2>1
  <2>. QED BY <1>1, <2>2, <2>4, <2>5, <2>6
<1>13. ASSUME NEW k \in 1 .. (m - 1) PROVE c(k + 1) = last(c(k)) + 1
  <2>1. k \in 1 .. m /\ k + 1 \in 1 .. m /\ k < k + 1
    BY <1>4
  <2>2. c(k) \in U /\ c(k + 1) \in U /\ c(k) < c(k + 1)
    BY <1>5, <2>1
  <2>3. /\ c(k) \in O /\ c(k + 1) \in O /\ last(c(k)) \in O /\ last(o) \in O
        /\ c(k) <= last(c(k)) /\ c(k + 1) <= last(o)
    <3>1. c(k) \in O /\ c(k + 1) \in O /\ last(c(k + 1)) <= last(o)
      BY <1>6, <2>2
    <3>2. c(k + 1) <= last(c(k + 1)) /\ last(c(k + 1)) \in O /\ last(c(k)) \in O /\ last(o) \in O
          /\ c(k) <= last(c(k))
      BY <1>2, <3>1
    <3>. QED BY <1>1, <3>1, <3>2
  <2>. DEFINE a == c(k)
              b == c(k + 1)
              e == last(a) + 1
  <2>4. b \notin a .. last(a)
    BY <1>1, <1>2, <1>7, <2>2, <2>3
  <2>5. e <= b
    BY <1>1, <2>2, <2>3, <2>4
  <2>6. e \in U
    <3>1. e <= last(o)
      BY <1>1, <2>3, <2>5
    <3>. QED BY <1>9, <2>2, <3>1
  <2>7. PICK j \in 1 .. m : c(j) = e
    BY <1>5, <2>6
  <2>8. ~(j <= k)
    <3>1. j < k => c(j) < c(k)
      BY <1>5, <2>1
    <3>2. j = k => c(j) = a
      OBVIOUS
    <3>3. a < e /\ e \in Nat /\ a \in Nat
      BY <1>1, <2>3
    <3>. QED BY <1>4, <2>1, <2>7, <3>1, <3>2, <3>3
  <2>9. ~(k + 1 < j)
    <3>1. k + 1 < j => b < e
      BY <1>5, <2>1, <2>7
    <3>2. e \in Nat /\ b \in Nat
      BY <1>1, <2>3
    <3>. QED BY <2>5, <3>1, <3>2
  <2>10. j = k + 1
    BY <1>4, <2>1, <2>8, <2>9
  <2>. QED BY <2>7, <2>10
<1>. QED BY <1>4, <1>10, <1>11, <1>12, <1>13 DEF ChildrenFollow, all, m, c, last


\* The numbers from one to another.
Run(a, b) == [i \in 1 .. (b - a + 1) |-> a + i - 1]

LEMMA RunOfNumbers ==
    ASSUME NEW a \in Nat, NEW b \in Nat, a <= b
    PROVE  Run(a, b) \in Seq(Nat)
<1>1. b - a + 1 \in Nat /\ \A i \in 1 .. (b - a + 1) : a + i - 1 \in Nat
  OBVIOUS
<1>. QED BY <1>1 DEF Run

\* The numbers to one, and those from the next.
AreNext(a, b, d, c) ==
    a \in Nat /\ b \in Nat /\ c \in Nat /\ d \in Nat /\ a <= b /\ d = b + 1 /\ d <= c

LEMMA RunsFollow ==
    ASSUME NEW a, NEW b, NEW c, NEW d, AreNext(a, b, d, c)
    PROVE  Run(a, b) \o Run(d, c) = Run(a, c)
<1>. DEFINE m == b - a + 1
            n == c - d + 1
            r == Run(a, b)
            s == Run(d, c)
            t == r \o s
<1>0. a \in Nat /\ b \in Nat /\ c \in Nat /\ d \in Nat /\ a <= b /\ d = b + 1 /\ d <= c
  BY DEF AreNext
<1>1. m \in Nat /\ n \in Nat /\ c - a + 1 = m + n
  BY <1>0
<1>2. /\ r = [i \in 1 .. m |-> a + i - 1] /\ s = [i \in 1 .. n |-> d + i - 1]
      /\ Run(a, c) = [i \in 1 .. (c - a + 1) |-> a + i - 1]
  BY DEF Run
<1>3. /\ \A i \in 1 .. m : a + i - 1 \in Nat
      /\ \A i \in 1 .. n : d + i - 1 \in Nat
  BY <1>0
<1>4. \A i \in 1 .. (m + n) : /\ i - m \in 1 .. n => d + (i - m) - 1 = a + i - 1
                              /\ i \in 1 .. m \/ (~(i <= m) /\ i - m \in 1 .. n)
  BY <1>0
<1>. HIDE DEF m, n
<1>5. r \in Seq(Nat) /\ s \in Seq(Nat) /\ Len(r) = m /\ Len(s) = n
  BY <1>1, <1>2, <1>3
<1>6. /\ \A i \in 1 .. m : r[i] = a + i - 1
      /\ \A i \in 1 .. n : s[i] = d + i - 1
  BY <1>2
<1>. HIDE DEF r, s
<1>7. /\ t \in Seq(Nat) /\ Len(t) = Len(r) + Len(s)
      /\ \A i \in 1 .. (Len(r) + Len(s)) : t[i] = IF i <= Len(r) THEN r[i] ELSE s[i - Len(r)]
  <2>1. r \in Seq(Nat) /\ s \in Seq(Nat)
    BY <1>5
  <2>2. t \in Seq(Nat) /\ Len(t) = Len(r) + Len(s)
    BY <2>1
  <2>3. \A i \in 1 .. (Len(r) + Len(s)) : t[i] = IF i <= Len(r) THEN r[i] ELSE s[i - Len(r)]
    BY <2>1
  <2>. QED BY <2>2, <2>3
<1>. HIDE DEF t
<1>8. t = [i \in 1 .. (m + n) |-> t[i]]
  <2>1. Len(t) = m + n
    BY <1>5, <1>7
  <2>. QED BY <1>7, <2>1
<1>9. \A i \in 1 .. (m + n) : t[i] = a + i - 1
  <2>. TAKE i \in 1 .. (m + n)
  <2>1. t[i] = IF i <= m THEN r[i] ELSE s[i - m]
    BY <1>5, <1>7
  <2>2. CASE i \in 1 .. m
    BY <1>6, <2>1, <2>2
  <2>3. CASE ~(i <= m) /\ i - m \in 1 .. n
    <3>1. t[i] = s[i - m]
      BY <2>1, <2>3
    <3>. QED BY <1>4, <1>6, <2>3, <3>1
  <2>. QED BY <1>4, <2>2, <2>3
<1>10. t = [i \in 1 .. (m + n) |-> a + i - 1]
  BY <1>8, <1>9
<1>11. Run(a, c) = [i \in 1 .. (m + n) |-> a + i - 1]
  BY <1>1, <1>2
<1>. QED BY <1>10, <1>11 DEF t, r, s

\* Runs that follow one another, joined.
LEMMA RunOfRuns ==
    ASSUME NEW m \in Nat \ {0}, NEW first \in [1 .. m -> Nat], NEW last \in [1 .. m -> Nat],
           \A k \in 1 .. m : first[k] <= last[k],
           \A k \in 1 .. (m - 1) : first[k + 1] = last[k] + 1
    PROVE  FlattenSeq([k \in 1 .. m |-> Run(first[k], last[k])]) = Run(first[1], last[m])
<1>. DEFINE parts == [k \in 1 .. m |-> Run(first[k], last[k])]
            a == first[1]
            Good == {p \in (1 .. m) \X Seq(Nat) : a <= last[p[1]] /\ p[2] = Run(a, last[p[1]])}
<1>1. a \in Nat /\ 1 \in 1 .. m
  OBVIOUS
<1>2. \A k \in 1 .. m : first[k] \in Nat /\ last[k] \in Nat /\ first[k] <= last[k]
  OBVIOUS
<1>3. parts \in Seq(Seq(Nat)) /\ Len(parts) = m /\ parts # <<>>
      /\ \A k \in 1 .. m : parts[k] = Run(first[k], last[k])
  <2>1. \A k \in 1 .. m : parts[k] = Run(first[k], last[k])
    OBVIOUS
  <2>2. \A k \in 1 .. m : parts[k] \in Seq(Nat)
    BY <1>2, <2>1, RunOfNumbers
  <2>3. parts = [k \in 1 .. m |-> parts[k]]
    OBVIOUS
  <2>. HIDE DEF parts
  <2>4. parts \in [1 .. m -> Seq(Nat)]
    BY <2>2, <2>3
  <2>. QED BY <2>1, <2>4
<1>. HIDE DEF parts, a
<1>4. <<1, parts[1]>> \in Good
  <2>1. parts[1] = Run(a, last[1]) /\ parts[1] \in Seq(Nat) /\ a <= last[1]
    BY <1>1, <1>2, <1>3 DEF a
  <2>. QED BY <1>1, <2>1
<1>5. ASSUME NEW i \in 1 .. (m - 1), NEW v \in Seq(Nat), <<i, v>> \in Good
      PROVE  <<i + 1, v \o parts[i + 1]>> \in Good
  <2>. DEFINE j == i + 1
  <2>1. i \in 1 .. m /\ j \in 1 .. m /\ first[j] = last[i] + 1
    OBVIOUS
  <2>2. v = Run(a, last[i]) /\ a <= last[i] /\ parts[j] = Run(first[j], last[j])
    BY <1>3, <1>5, <2>1
  <2>. HIDE DEF j
  <2>3. last[i] \in Nat /\ last[j] \in Nat /\ first[j] \in Nat /\ first[j] <= last[j]
    <3>1. last[i] \in Nat
      BY <1>2, <2>1
    <3>2. first[j] \in Nat /\ last[j] \in Nat /\ first[j] <= last[j]
      BY <1>2, <2>1
    <3>. QED BY <2>1, <3>1, <3>2
  <2>4. v \o parts[j] = Run(a, last[j])
    <3>. DEFINE x == last[i]
                y == first[j]
                z == last[j]
    <3>0. AreNext(a, x, y, z)
      BY <1>1, <2>1, <2>2, <2>3 DEF AreNext
    <3>. HIDE DEF x, y, z, Good
    <3>1. Run(a, x) \o Run(y, z) = Run(a, z)
      BY <3>0, RunsFollow
    <3>. USE DEF x, y, z
    <3>. QED BY <2>2, <3>1
  <2>7. v \o parts[j] \in Seq(Nat)
    BY <1>3, <1>5, <2>1
  <2>5. a <= last[j]
    BY <1>1, <2>1, <2>2, <2>3
  <2>6. <<j, v \o parts[j]>> \in Good
    BY <2>1, <2>4, <2>5, <2>7
  <2>. QED BY <2>6 DEF j
<1>6. <<m, FlattenSeq(parts)>> \in Good
  <2>. HIDE DEF Good
  <2>. QED BY <1>3, <1>4, <1>5, FlattenInduction
<1>. QED BY <1>6 DEF parts, a

-----------------------------------------------------------------------------
(* The order in which a tree is met.                                       *)

\* A node, and what is met below each of its children in turn.
MetFrom(rows, met, o) ==
    <<o>> \o FlattenSeq([k \in DOMAIN ChildRows(rows, o) |-> met[ChildRows(rows, o)[k].ordinal]])

RunFrom(rows, o) == Run(o, LastUnder(rows, o))

LEMMA MetIsRun ==
    ASSUME NEW rows, TreeRows(rows), XmlNests(rows), InXmlOrder(rows), NEW o \in Ordinals(rows),
           NEW met, \A c \in Under(rows, o) : met[c] = RunFrom(rows, c)
    PROVE  MetFrom(rows, met, o) = RunFrom(rows, o)
<1>. DEFINE U == Under(rows, o)
            all == ChildRows(rows, o)
            m == Len(all)
            first == [k \in 1 .. m |-> all[k].ordinal]
            last == [k \in 1 .. m |-> LastUnder(rows, all[k].ordinal)]
            end == LastUnder(rows, o)
            parts == [k \in DOMAIN all |-> met[all[k].ordinal]]
<1>1. /\ m \in Nat /\ DOMAIN all = 1 .. m
      /\ \A k \in 1 .. m : all[k].ordinal \in U
  BY ChildRowsAreThere DEF AreChildRows
<1>2. ChildrenFollow(rows, o, all)
  BY ChildrenInTurn
<1>3. \A c \in Ordinals(rows) : c \in Nat /\ LastUnder(rows, c) \in Nat /\ c <= LastUnder(rows, c)
  BY SubtreesAreRuns, OrdinalsAreFinite DEF Subtree
<1>4. MetFrom(rows, met, o) = <<o>> \o FlattenSeq(parts)
  BY DEF MetFrom
<1>. HIDE DEF all, m
<1>5. \A k \in 1 .. m : /\ first[k] = all[k].ordinal /\ last[k] = LastUnder(rows, all[k].ordinal)
                        /\ all[k].ordinal \in Ordinals(rows)
  BY <1>1 DEF Under
<1>6. first \in [1 .. m -> Nat] /\ last \in [1 .. m -> Nat]
      /\ \A k \in 1 .. m : first[k] <= last[k]
  BY <1>3, <1>5
<1>7. /\ m = 0 => end = o
      /\ m # 0 => first[1] = o + 1 /\ last[m] = end
      /\ \A k \in 1 .. (m - 1) : first[k + 1] = last[k] + 1
  <2>1. /\ m = 0 => end = o
        /\ m # 0 => all[1].ordinal = o + 1 /\ LastUnder(rows, all[m].ordinal) = end
        /\ \A k \in 1 .. (m - 1) : all[k + 1].ordinal = LastUnder(rows, all[k].ordinal) + 1
    BY <1>2 DEF ChildrenFollow, m
  <2>2. m # 0 => 1 \in 1 .. m /\ m \in 1 .. m
    BY <1>1
  <2>3. \A k \in 1 .. (m - 1) : k \in 1 .. m /\ k + 1 \in 1 .. m
    BY <1>1
  <2>. HIDE DEF first, last, end
  <2>. QED BY <1>5, <2>1, <2>2, <2>3
<1>8. parts = [k \in 1 .. m |-> Run(first[k], last[k])]
  <2>1. \A k \in 1 .. m : met[all[k].ordinal] = Run(first[k], last[k])
    BY <1>1, <1>5 DEF RunFrom
  <2>. HIDE DEF first, last
  <2>. QED BY <1>1, <2>1
<1>. HIDE DEF first, last, parts
<1>9. <<o>> = Run(o, o) /\ o \in Nat /\ end \in Nat /\ o <= end
  <2>1. o \in Nat /\ end \in Nat /\ o <= end
    BY <1>3
  <2>2. o - o + 1 = 1 /\ o + 1 - 1 = o
    BY <2>1
  <2>3. Run(o, o) = [i \in 1 .. 1 |-> o + i - 1]
    BY <2>2 DEF Run
  <2>4. \A i \in 1 .. 1 : o + i - 1 = o
    BY <2>1
  <2>5. Run(o, o) = [i \in 1 .. 1 |-> o]
    BY <2>3, <2>4
  <2>. QED BY <2>1, <2>5
<1>. HIDE DEF end
<1>10. CASE m = 0
  <2>1. parts = <<>>
    BY <1>8, <1>10
  <2>2. FlattenSeq(parts) = <<>>
    BY <2>1 DEF FlattenSeq
  <2>3. <<o>> \o <<>> = <<o>>
    OBVIOUS
  <2>. QED BY <1>4, <1>7, <1>9, <1>10, <2>2, <2>3 DEF RunFrom, end
<1>11. CASE m # 0
  <2>1. FlattenSeq(parts) = Run(o + 1, end)
    BY <1>1, <1>6, <1>7, <1>8, <1>11, RunOfRuns
  <2>2. o < end
    <3>1. m \in 1 .. m /\ 1 \in 1 .. m
      BY <1>1, <1>11
    <3>2. first[1] = o + 1 /\ last[m] = end
      BY <1>7, <1>11
    <3>3. all[m].ordinal \in U /\ all[m].ordinal <= end /\ all[m].ordinal \in Nat
      BY <1>1, <1>3, <1>5, <3>1, <3>2
    <3>4. o < all[m].ordinal
      <4>1. all[m].ordinal \in Ordinals(rows) /\ ParentOf(rows, all[m].ordinal) = o
        BY <3>3 DEF Under
      <4>. QED BY <4>1, RowsByOrdinal
    <3>. QED BY <1>9, <3>3, <3>4
  <2>3. Run(o, o) \o Run(o + 1, end) = Run(o, end)
    <3>1. AreNext(o, o, o + 1, end)
      BY <1>9, <2>2 DEF AreNext
    <3>. QED BY <3>1, RunsFollow
  <2>. QED BY <1>4, <1>9, <2>1, <2>3 DEF RunFrom, end
<1>. QED BY <1>10, <1>11


\* A tree is met in the order of its nodes.
LEMMA MetInOrder ==
    ASSUME NEW rows, TreeRows(rows), XmlNests(rows), InXmlOrder(rows)
    PROVE  DocumentOrder(ToSet(rows))[0] = Run(0, Len(rows) - 1)
<1>. DEFINE O == Ordinals(rows)
            n == Len(rows)
            Is(f) == f = [o \in O |-> MetFrom(rows, f, o)]
            runs == [o \in O |-> RunFrom(rows, o)]
            met == CHOOSE f : Is(f)
<1>1. n \in Nat \ {0} /\ O = 0 .. (n - 1) /\ \A o \in O : Under(rows, o) \subseteq O
  BY RowsByOrdinal DEF Under
<1>2. DocumentOrder(ToSet(rows)) = met
  <2>1. {r.ordinal : r \in ToSet(rows)} = O
    BY DEF Ordinals, ToSet
  <2>. QED BY <2>1 DEF DocumentOrder, MetFrom, ChildRows
<1>3. Is(runs)
  <2>1. \A o \in O : MetFrom(rows, runs, o) = RunFrom(rows, o)
    <3>. TAKE o \in O
    <3>1. \A c \in Under(rows, o) : runs[c] = RunFrom(rows, c)
      BY <1>1
    <3>. HIDE DEF runs
    <3>. QED BY <3>1, MetIsRun
  <2>. QED BY <2>1
<1>4. Is(met)
  <2>. HIDE DEF Is
  <2>. QED BY <1>3
<1>. HIDE DEF met, runs
<1>5. \A o \in O : met[o] = MetFrom(rows, met, o)
  BY <1>4
<1>. HIDE DEF Is
<1>. DEFINE P == {m \in Nat : \A o \in O : n <= o + m => met[o] = RunFrom(rows, o)}
<1>6. 0 \in P
  BY <1>1
<1>7. ASSUME NEW m \in Nat, m \in P PROVE m + 1 \in P
  <2>. SUFFICES ASSUME NEW o \in O, n <= o + (m + 1) PROVE met[o] = RunFrom(rows, o)
    OBVIOUS
  <2>1. \A c \in Under(rows, o) : c \in O /\ o < c
    <3>1. \A c \in Under(rows, o) : c \in O /\ ParentOf(rows, c) = o
      BY DEF Under
    <3>. QED BY <3>1, RowsByOrdinal
  <2>2. \A c \in Under(rows, o) : n <= c + m
    BY <1>1, <2>1
  <2>3. \A c \in Under(rows, o) : met[c] = RunFrom(rows, c)
    BY <1>7, <2>1, <2>2
  <2>4. MetFrom(rows, met, o) = RunFrom(rows, o)
    BY <2>3, MetIsRun
  <2>. QED BY <1>5, <2>4
<1>8. \A m \in Nat : m \in P
  <2>. HIDE DEF P
  <2>. QED BY <1>6, <1>7, NatSetInduction
<1>9. 0 \in O /\ n \in P /\ n <= 0 + n
  BY <1>1, <1>8
<1>10. met[0] = RunFrom(rows, 0)
  BY <1>9
<1>11. LastUnder(rows, 0) = n - 1
  <2>1. Subtree(rows, 0) = 0 .. LastUnder(rows, 0) /\ LastUnder(rows, 0) \in Subtree(rows, 0)
    BY <1>9, SubtreesAreRuns
  <2>2. \A d \in O : 0 \in Ancestors(rows)[d]
    BY AncestorsAreChains DEF IsChainUp
  <2>3. Subtree(rows, 0) = O
    BY <2>2 DEF Subtree
  <2>4. LastUnder(rows, 0) \in O /\ n - 1 \in 0 .. LastUnder(rows, 0)
    BY <1>1, <2>1, <2>3
  <2>. QED BY <1>1, <2>4
<1>. QED BY <1>2, <1>10, <1>11 DEF RunFrom

\* A node that was given another parent and has its own again.
LEMMA ParentGivenBack ==
    ASSUME NEW node, node = [node EXCEPT !.parent = @]
    PROVE  [[node EXCEPT !.parent = 0] EXCEPT !.parent = node.parent] = node
OBVIOUS

\* _rebuild_trees: from the rows of a tree, in whatever order they are read.
LEMMA TreeIsRebuilt ==
    ASSUME NEW nodes, IsTree(nodes), InDocumentOrder(nodes), NEW file,
           \A k \in DOMAIN nodes : nodes[k] = [nodes[k] EXCEPT !.parent = @]
    PROVE  RebuiltTree(ToSet(NodeRecords(nodes, file)), 0) = nodes
<1>. DEFINE rows == NodeRecords(nodes, file)
            n == Len(nodes)
            R == ToSet(rows)
            order == Run(0, n - 1)
            Stand(o) == CHOOSE k \in DOMAIN order : order[k] = o
            back == [k \in DOMAIN order |->
                       [RowOf(R, order[k]).payload EXCEPT
                          !.parent = IF k = 1 THEN 0 ELSE Stand(RowOf(R, order[k]).parent)]]
<1>1. TreeRows(rows) /\ XmlNests(rows) /\ Len(rows) = n
  BY RecordsAreTreeRows, RecordsNest
<1>2. /\ nodes \in Seq(ToSet(nodes)) /\ n \in Nat \ {0} /\ DOMAIN nodes = 1 .. n
      /\ \A k \in 1 .. n : nodes[k].xmlSpan \in Nat \X Nat
      /\ \A k \in 1 .. n : \/ k = 1 /\ nodes[k].parent = 0
                           \/ k > 1 /\ nodes[k].parent \in 1 .. (k - 1)
  BY DEF IsTree
<1>3. DOMAIN rows = 1 .. n
  BY <1>2 DEF NodeRecords
<1>4. ASSUME NEW k \in 1 .. n
      PROVE  /\ rows[k].ordinal = k - 1 /\ rows[k].parent = nodes[k].parent - 1
             /\ rows[k].payload = [nodes[k] EXCEPT !.parent = 0]
             /\ "xmlSpan" \in DOMAIN nodes[k]
  BY <1>2 DEF NodeRecords, IsTree
<1>5. \A k \in 1 .. n : rows[k].payload.xmlSpan = nodes[k].xmlSpan
  BY <1>4
<1>6. InXmlOrder(rows)
  <2>1. Ordinals(rows) = 0 .. (n - 1) /\ \A o \in Ordinals(rows) : Row(rows, o) = rows[o + 1]
    BY <1>1, RowsByOrdinal
  <2>2. \A o \in Ordinals(rows) : o + 1 \in 1 .. n /\ o \in Nat
    BY <1>2, <2>1
  <2>. HIDE DEF rows
  <2>3. \A o \in Ordinals(rows) : Place(rows, o) = nodes[o + 1].xmlSpan
    BY <1>5, <2>1, <2>2 DEF Place
  <2>4. \A o \in Ordinals(rows) : Place(rows, o) \in Nat \X Nat
    BY <1>2, <2>2, <2>3
  <2>5. \A o, p \in Ordinals(rows) : o < p => Place(rows, o)[1] < Place(rows, p)[1]
    <3>. TAKE o, p \in Ordinals(rows)
    <3>. HAVE o < p
    <3>1. o + 1 \in DOMAIN nodes /\ p + 1 \in DOMAIN nodes /\ o + 1 < p + 1
      BY <1>2, <2>2
    <3>2. nodes[o + 1].xmlSpan[1] < nodes[p + 1].xmlSpan[1]
      BY <3>1 DEF InDocumentOrder
    <3>. QED BY <2>3, <3>2
  <2>. QED BY <2>4, <2>5 DEF InXmlOrder
<1>. HIDE DEF rows
<1>7. DocumentOrder(R)[0] = order
  BY <1>1, <1>6, MetInOrder
<1>8. RebuiltTree(R, 0) = back
  BY <1>7 DEF RebuiltTree
<1>9. DOMAIN order = 1 .. n /\ \A k \in 1 .. n : order[k] = k - 1
  <2>1. (n - 1) - 0 + 1 = n /\ \A k \in 1 .. n : 0 + k - 1 = k - 1
    BY <1>2
  <2>. QED BY <2>1 DEF Run
<1>10. \A k \in 1 .. n : RowOf(R, k - 1) = rows[k]
  <2>. TAKE k \in 1 .. n
  <2>1. rows[k] \in R /\ rows[k].ordinal = k - 1
    BY <1>3, <1>4 DEF ToSet
  <2>2. ASSUME NEW r \in R, r.ordinal = k - 1 PROVE r = rows[k]
    <3>1. PICK j \in 1 .. n : r = rows[j]
      BY <1>3 DEF ToSet
    <3>2. rows[j].ordinal = j - 1 /\ rows[j].ordinal = k - 1
      BY <1>4, <2>2, <3>1
    <3>3. j - 1 = k - 1
      BY <3>2
    <3>4. j = k
      BY <1>2, <3>3
    <3>. QED BY <3>1, <3>4
  <2>. HIDE DEF R
  <2>. QED BY <2>1, <2>2 DEF RowOf
<1>. HIDE DEF R, order
<1>11. \A k \in 1 .. n : Stand(k - 1) = k
  <2>. TAKE k \in 1 .. n
  <2>1. \A j \in DOMAIN order : order[j] = k - 1 <=> j = k
    BY <1>2, <1>9
  <2>. QED BY <1>9, <2>1
<1>. HIDE DEF Stand
<1>12. ASSUME NEW k \in 1 .. n PROVE back[k] = nodes[k]
  <2>1. back[k] = [rows[k].payload EXCEPT
                     !.parent = IF k = 1 THEN 0 ELSE Stand(rows[k].parent)]
    BY <1>9, <1>10
  <2>2. (IF k = 1 THEN 0 ELSE Stand(rows[k].parent)) = nodes[k].parent
    <3>1. CASE k = 1
      BY <1>2, <3>1
    <3>2. CASE k # 1
      <4>1. nodes[k].parent \in 1 .. (k - 1)
        BY <1>2, <3>2
      <4>2. nodes[k].parent \in 1 .. n
        BY <1>2, <4>1
      <4>3. Stand(nodes[k].parent - 1) = nodes[k].parent
        BY <1>11, <4>2
      <4>. QED BY <1>4, <3>2, <4>3
    <3>. QED BY <3>1, <3>2
  <2>3. back[k] = [[nodes[k] EXCEPT !.parent = 0] EXCEPT !.parent = nodes[k].parent]
    BY <1>4, <2>1, <2>2
  <2>4. nodes[k] = [nodes[k] EXCEPT !.parent = @]
    BY <1>2
  <2>. QED BY <2>3, <2>4, ParentGivenBack
<1>13. DOMAIN back = 1 .. n /\ back = [k \in 1 .. n |-> back[k]]
  BY <1>9
<1>14. nodes = [k \in 1 .. n |-> nodes[k]]
  BY <1>2
<1>. HIDE DEF back
<1>15. back = nodes
  BY <1>12, <1>13, <1>14
<1>. QED BY <1>8, <1>15 DEF R, rows


-----------------------------------------------------------------------------
(* The elements of a document.                                             *)

\* Elements follow their parents.
IsShaped(doc) ==
    /\ Len(doc) \in Nat \ {0} /\ DOMAIN doc = 1 .. Len(doc)
    /\ doc[1].parent = 0 /\ doc[1].tag = "unit"
    /\ \A el \in 2 .. Len(doc) : doc[el].parent \in 1 .. (el - 1)

\* A document is so.
LEMMA DocumentShape ==
    ASSUME NEW doc, IsDocument(doc)
    PROVE  IsShaped(doc)
<1>. DEFINE T == ToSet(doc)
<1>1. doc \in Seq(T) /\ doc # <<>>
  BY DEF IsDocument
<1>. HIDE DEF T
<1>2. Len(doc) \in Nat \ {0} /\ DOMAIN doc = 1 .. Len(doc)
  BY <1>1
<1>. QED BY <1>2 DEF IsDocument, IsShaped

\* A function that takes its value at an element from its parent's exists.
GoesDown(f, doc, roots, first, step) ==
    \A el \in 1 .. Len(doc) :
      f[el] = IF el \in roots THEN first[el] ELSE step[<<f[doc[el].parent], el>>]

LEMMA DescentExists ==
    ASSUME NEW doc, IsShaped(doc), NEW V, NEW roots, 1 \in roots,
           NEW first \in [1 .. Len(doc) -> V], NEW step \in [V \X (1 .. Len(doc)) -> V]
    PROVE  \E f \in [1 .. Len(doc) -> V] : GoesDown(f, doc, roots, first, step)
<1>. DEFINE n == Len(doc)
            At(f, el) == f[el] = IF el \in roots THEN first[el]
                                 ELSE step[<<f[doc[el].parent], el>>]
            P == {m \in Nat : m <= n => \E f \in [1 .. m -> V] : \A el \in 1 .. m : At(f, el)}
<1>0. n \in Nat /\ \A el \in 1 .. n : el \in roots \/ doc[el].parent \in 1 .. (el - 1)
  BY DEF IsShaped
<1>. HIDE DEF n
<1>1. 0 \in P
  <2>. DEFINE none == [i \in 1 .. 0 |-> first[1]]
  <2>1. none \in [1 .. 0 -> V] /\ \A el \in 1 .. 0 : At(none, el)
    OBVIOUS
  <2>. HIDE DEF none
  <2>. QED BY <2>1
<1>2. ASSUME NEW m \in Nat, m \in P PROVE m + 1 \in P
  <2>. SUFFICES ASSUME m + 1 <= n
                PROVE  \E f \in [1 .. (m + 1) -> V] : \A el \in 1 .. (m + 1) : At(f, el)
    OBVIOUS
  <2>1. PICK f \in [1 .. m -> V] : \A el \in 1 .. m : At(f, el)
    BY <1>0, <1>2
  <2>. DEFINE new == m + 1
              last == IF new \in roots THEN first[new] ELSE step[<<f[doc[new].parent], new>>]
              g == [i \in 1 .. new |-> IF i = new THEN last ELSE f[i]]
  <2>2. new \in 1 .. n /\ new \in Nat /\ \A i \in 1 .. new : i = new \/ i \in 1 .. m
    BY <1>0
  <2>3. new \notin roots => doc[new].parent \in 1 .. m
    <3>1. new - 1 = m
      OBVIOUS
    <3>. HIDE DEF new
    <3>. QED BY <1>0, <2>2, <3>1
  <2>4. last \in V
    <3>. HIDE DEF new
    <3>1. new \notin roots => <<f[doc[new].parent], new>> \in V \X (1 .. n)
      BY <2>1, <2>2, <2>3
    <3>. QED BY <2>2, <3>1 DEF n
  <2>5. g \in [1 .. new -> V]
    <3>. HIDE DEF last, new
    <3>. QED BY <2>1, <2>2, <2>4
  <2>6. g[new] = last /\ \A i \in 1 .. m : g[i] = f[i]
    OBVIOUS
  <2>. HIDE DEF g
  <2>7. ASSUME NEW el \in 1 .. new PROVE At(g, el)
    <3>1. CASE el = new
      <4>1. new \notin roots => g[doc[new].parent] = f[doc[new].parent]
        BY <2>3, <2>6
      <4>. HIDE DEF new
      <4>. QED BY <2>6, <3>1, <4>1
    <3>2. CASE el # new
      <4>1. el \in 1 .. m /\ el \in 1 .. n
        BY <1>0, <3>2, <2>2
      <4>2. el \notin roots => doc[el].parent \in 1 .. m
        BY <1>0, <4>1
      <4>. QED BY <2>1, <2>6, <4>1, <4>2
    <3>. QED BY <3>1, <3>2
  <2>. QED BY <2>5, <2>7
<1>3. \A m \in Nat : m \in P
  <2>. HIDE DEF P
  <2>. QED BY <1>1, <1>2, NatSetInduction
<1>4. \E f \in [1 .. n -> V] : \A el \in 1 .. n : At(f, el)
  <2>1. n \in P
    BY <1>0, <1>3
  <2>2. n <= n
    BY <1>0
  <2>. HIDE DEF At
  <2>. QED BY <2>1, <2>2
<1>. QED BY <1>4 DEF GoesDown, n

\* `above` gives an element with those around it.
IsNested(doc, above) ==
    /\ DOMAIN above = 1 .. Len(doc)
    /\ \A el \in 1 .. Len(doc) : above[el] \subseteq 1 .. el /\ el \in above[el]
    /\ \A el \in 2 .. Len(doc) : above[el] = {el} \cup above[doc[el].parent]
    /\ above[1] = {1}
    /\ \A el \in 1 .. Len(doc) : \A b \in above[el] : above[b] \subseteq above[el]

\* Above is defined by recursion over parents, and is that.
LEMMA AboveIsThere ==
    ASSUME NEW doc, IsShaped(doc)
    PROVE  IsNested(doc, Above(doc))
<1>. DEFINE n == Len(doc)
            V == SUBSET (1 .. n)
            first == [el \in 1 .. n |-> {el}]
            step == [v \in V \X (1 .. n) |-> {v[2]} \cup v[1]]
            Is(f) == f = [el \in DOMAIN doc |->
                            {el} \cup (IF doc[el].parent = 0 THEN {} ELSE f[doc[el].parent])]
<1>1. first \in [1 .. n -> V] /\ step \in [V \X (1 .. n) -> V]
  OBVIOUS
<1>2. PICK f \in [1 .. n -> V] : GoesDown(f, doc, {1}, first, step)
  <2>. HIDE DEF first, step, V
  <2>. QED BY <1>1, DescentExists
<1>3. \A el \in 1 .. n : /\ el = 1 <=> doc[el].parent = 0
                         /\ el # 1 => doc[el].parent \in 1 .. (el - 1)
                         /\ el # 1 => doc[el].parent \in 1 .. n
  BY DEF IsShaped
<1>4. Is(f)
  <2>1. ASSUME NEW el \in 1 .. n
        PROVE  f[el] = {el} \cup (IF doc[el].parent = 0 THEN {} ELSE f[doc[el].parent])
    <3>1. el # 1 => step[<<f[doc[el].parent], el>>] = {el} \cup f[doc[el].parent]
      <4>. SUFFICES ASSUME el # 1 PROVE <<f[doc[el].parent], el>> \in V \X (1 .. n)
        OBVIOUS
      <4>. QED BY <1>2, <1>3
    <3>. HIDE DEF step
    <3>. QED BY <1>2, <1>3, <3>1 DEF GoesDown
  <2>2. DOMAIN doc = 1 .. n
    BY DEF IsShaped
  <2>. QED BY <1>2, <2>1, <2>2
<1>5. Is(Above(doc))
  <2>1. Above(doc) = CHOOSE g : Is(g)
    BY DEF Above
  <2>. HIDE DEF Is
  <2>. QED BY <1>4, <2>1, Zenon
<1>. DEFINE A == Above(doc)
<1>6. /\ DOMAIN A = 1 .. n
      /\ \A el \in 1 .. n : A[el] = {el} \cup (IF doc[el].parent = 0 THEN {} ELSE A[doc[el].parent])
  <2>1. DOMAIN doc = 1 .. n
    BY DEF IsShaped
  <2>. HIDE DEF A
  <2>. QED BY <1>5, <2>1 DEF A
<1>. HIDE DEF A, Is
<1>7. A[1] = {1} /\ \A el \in 1 .. n : el # 1 => A[el] = {el} \cup A[doc[el].parent]
  <2>1. 1 \in 1 .. n
    BY DEF IsShaped
  <2>. QED BY <1>3, <1>6, <2>1
<1>. DEFINE Good(el) == A[el] \subseteq 1 .. el /\ \A b \in A[el] : A[b] \subseteq A[el]
            P == {m \in Nat : \A el \in 1 .. n : el <= m => Good(el)}
<1>8. 0 \in P
  OBVIOUS
<1>9. ASSUME NEW m \in Nat, m \in P PROVE m + 1 \in P
  <2>. SUFFICES ASSUME NEW el \in 1 .. n, el = m + 1 PROVE Good(el)
    BY <1>9
  <2>1. CASE el = 1
    BY <1>7, <2>1
  <2>2. CASE el # 1
    <3>. DEFINE p == doc[el].parent
    <3>1. p \in 1 .. n /\ p <= m /\ p < el /\ A[el] = {el} \cup A[p]
      BY <1>3, <1>7, <2>2
    <3>. HIDE DEF p
    <3>2. Good(p)
      BY <1>9, <3>1
    <3>3. A[el] \subseteq 1 .. el
      BY <3>1, <3>2
    <3>. QED BY <3>1, <3>2, <3>3
  <2>. QED BY <2>1, <2>2
<1>10. \A m \in Nat : m \in P
  <2>. HIDE DEF P
  <2>. QED BY <1>8, <1>9, NatSetInduction
<1>11. \A el \in 1 .. n : Good(el)
  BY <1>10
<1>12. \A el \in 1 .. n : el \in A[el]
  BY <1>6
<1>13. \A el \in 2 .. n : el \in 1 .. n /\ el # 1
  BY DEF IsShaped
<1>. HIDE DEF P, n
<1>. QED BY <1>6, <1>7, <1>11, <1>12, <1>13 DEF IsNested, A, n

\* What stands within an element follows it without a gap.
LEMMA ElementsFollow ==
    ASSUME NEW doc, IsDocument(doc), NEW above, IsNested(doc, above), above = Above(doc),
           NEW x \in 1 .. Len(doc), NEW d \in above[x], NEW e \in d .. x
    PROVE  d \in above[e]
<1>. DEFINE n == Len(doc)
            P == {m \in Nat : x - m >= d => d \in above[x - m]}
<1>1. IsShaped(doc)
  BY DocumentShape
<1>2. n \in Nat /\ d \in 1 .. x /\ \A el \in 2 .. n : doc[el].parent \in 1 .. (el - 1)
  BY <1>1 DEF IsShaped, IsNested
<1>3. \A el \in 2 .. n : doc[el].parent \in above[el - 1]
  BY DEF IsDocument
<1>4. 0 \in P
  BY <1>2
<1>5. ASSUME NEW m \in Nat, m \in P PROVE m + 1 \in P
  <2>. SUFFICES ASSUME x - (m + 1) >= d PROVE d \in above[x - (m + 1)]
    OBVIOUS
  <2>. DEFINE y == x - m
              p == doc[y].parent
  <2>1. y \in 2 .. n /\ y \in 1 .. n /\ y # d /\ y >= d /\ x - (m + 1) = y - 1 /\ y - 1 \in 1 .. n
    BY <1>2
  <2>2. d \in above[y]
    BY <1>5, <2>1
  <2>. HIDE DEF y
  <2>3. d \in above[p]
    BY <2>1, <2>2 DEF IsNested
  <2>4. p \in above[y - 1]
    BY <1>3, <2>1
  <2>. HIDE DEF p
  <2>5. d \in above[y - 1]
    BY <2>1, <2>3, <2>4 DEF IsNested
  <2>. QED BY <2>1, <2>5
<1>6. \A m \in Nat : m \in P
  <2>. HIDE DEF P
  <2>. QED BY <1>4, <1>5, NatSetInduction
<1>7. x - e \in Nat /\ x - (x - e) = e /\ e >= d
  BY <1>2
<1>8. x - e \in P
  BY <1>6, <1>7
<1>. QED BY <1>7, <1>8

\* How many elements stand around an element, itself among them.
Depth(above, el) == Cardinality(above[el])

\* It grows from the root down.
LEMMA DepthsGoUp ==
    ASSUME NEW doc, IsShaped(doc), NEW above, IsNested(doc, above)
    PROVE  /\ \A el \in 1 .. Len(doc) : IsFiniteSet(above[el]) /\ Depth(above, el) \in Nat \ {0}
           /\ Depth(above, 1) = 1
           /\ \A el \in 2 .. Len(doc) : Depth(above, el) = Depth(above, doc[el].parent) + 1
           /\ \A el \in 1 .. Len(doc) : \A b \in above[el] :
                b = el \/ Depth(above, b) < Depth(above, el)
<1>. DEFINE n == Len(doc)
<1>0. n \in Nat \ {0} /\ \A el \in 2 .. n : doc[el].parent \in 1 .. (el - 1) /\ doc[el].parent \in 1 .. n
  BY DEF IsShaped
<1>1. ASSUME NEW el \in 1 .. n PROVE IsFiniteSet(above[el]) /\ Depth(above, el) \in Nat \ {0}
  <2>0. el \in Int
    BY <1>0
  <2>1. IsFiniteSet(1 .. el)
    BY <2>0, FS_Interval
  <2>2. above[el] \subseteq 1 .. el /\ above[el] # {}
    BY DEF IsNested
  <2>3. IsFiniteSet(above[el])
    BY <2>1, <2>2, FS_Subset
  <2>. QED BY <2>2, <2>3, FS_CardinalityType, FS_EmptySet DEF Depth
<1>2. Depth(above, 1) = 1
  BY FS_Singleton DEF Depth, IsNested
<1>3. ASSUME NEW el \in 2 .. n PROVE Depth(above, el) = Depth(above, doc[el].parent) + 1
  <2>. DEFINE p == doc[el].parent
  <2>1. p \in 1 .. n /\ p < el /\ el \in Nat /\ p \in Nat
    BY <1>0
  <2>2. above[el] = {el} \cup above[p] /\ above[p] \subseteq 1 .. p
    BY <2>1 DEF IsNested
  <2>. HIDE DEF p
  <2>3. el \notin above[p]
    BY <2>1, <2>2
  <2>4. above[el] = above[p] \cup {el}
    BY <2>2
  <2>5. Cardinality(above[p] \cup {el}) = Cardinality(above[p]) + 1
    BY <1>1, <2>1, <2>3, FS_AddElement
  <2>. QED BY <2>4, <2>5 DEF Depth, p
<1>4. ASSUME NEW el \in 1 .. n, NEW b \in above[el], b # el
      PROVE  Depth(above, b) < Depth(above, el)
  <2>1. b \in 1 .. n /\ b \in 1 .. el /\ above[b] \subseteq 1 .. b /\ above[b] \subseteq above[el]
    BY <1>0 DEF IsNested
  <2>2. el \notin above[b] /\ el \in above[el]
    BY <1>4, <2>1 DEF IsNested
  <2>3. above[b] \cup {el} \subseteq above[el]
    BY <2>1, <2>2
  <2>4. Cardinality(above[b] \cup {el}) = Cardinality(above[b]) + 1
    BY <1>1, <2>1, <2>2, FS_AddElement
  <2>5. Cardinality(above[b] \cup {el}) <= Cardinality(above[el])
    BY <1>1, <2>3, FS_Subset
  <2>6. Cardinality(above[b]) \in Nat /\ Cardinality(above[el]) \in Nat
    BY <1>1, <2>1 DEF Depth
  <2>. QED BY <2>4, <2>5, <2>6 DEF Depth
<1>. QED BY <1>1, <1>2, <1>3, <1>4

-----------------------------------------------------------------------------
(* The tags of a document.                                                 *)

\* Two tags for each element, and which comes first.
TagsOf(doc) == [opens : BOOLEAN, el : 1 .. Len(doc)]

Comes(above, a, b) ==
    IF a.el = b.el THEN a.opens /\ ~b.opens
    ELSE IF a.el \in above[b.el] THEN a.opens
    ELSE IF b.el \in above[a.el] THEN ~b.opens
    ELSE a.el < b.el

InTurn(doc, above) == {pair \in TagsOf(doc) \X TagsOf(doc) : Comes(above, pair[1], pair[2])}

\* The order of the tags in the text is an order.
LEMMA TagsAreOrdered ==
    ASSUME NEW doc, IsDocument(doc), NEW above, IsNested(doc, above), above = Above(doc)
    PROVE  /\ IsFiniteSet(TagsOf(doc)) /\ IsOrder(InTurn(doc, above), TagsOf(doc))
           /\ \A a, b \in TagsOf(doc) : <<a, b>> \in InTurn(doc, above) <=> Comes(above, a, b)
<1>. DEFINE n == Len(doc)
            T == TagsOf(doc)
            L == InTurn(doc, above)
<1>0. n \in Nat \ {0}
  BY DocumentShape DEF IsShaped
<1>1. IsFiniteSet(T)
  <2>. DEFINE code == [b \in T |-> IF b.opens THEN b.el ELSE b.el + n]
  <2>1. code \in [T -> 1 .. (n + n)]
    BY <1>0 DEF TagsOf
  <2>2. ASSUME NEW a \in T, NEW b \in T, code[a] = code[b] PROVE a = b
    <3>1. a = [opens |-> a.opens, el |-> a.el] /\ b = [opens |-> b.opens, el |-> b.el]
      BY DEF TagsOf
    <3>2. a.opens = b.opens /\ a.el = b.el
      BY <1>0, <2>2 DEF TagsOf
    <3>. QED BY <3>1, <3>2
  <2>3. code \in Injection(T, 1 .. (n + n))
    <3>. HIDE DEF code, T
    <3>. QED BY <2>1, <2>2 DEF Injection, IsInjective
  <2>4. IsFiniteSet(1 .. (n + n))
    BY <1>0, FS_Interval
  <2>. QED BY <2>3, <2>4, FS_Injection
<1>2. \A a, b \in T : <<a, b>> \in L <=> Comes(above, a, b)
  BY DEF InTurn
<1>3. \A b \in T : b.opens \in BOOLEAN /\ b.el \in 1 .. n /\ b = [opens |-> b.opens, el |-> b.el]
  BY DEF TagsOf
<1>4. \A i, j \in 1 .. n : i \in above[j] => i <= j
  BY <1>0 DEF IsNested
<1>5. \A i, j, k \in 1 .. n : i \in above[j] /\ j \in above[k] => i \in above[k]
  BY DEF IsNested
<1>6. \A i, j, k \in 1 .. n : i \in above[k] /\ i <= j /\ j <= k => i \in above[j]
  <2>. SUFFICES ASSUME NEW i \in 1 .. n, NEW j \in 1 .. n, NEW k \in 1 .. n,
                       i \in above[k], i <= j, j <= k
                PROVE  i \in above[j]
    OBVIOUS
  <2>1. j \in i .. k
    BY <1>0
  <2>. QED BY <2>1, ElementsFollow
<1>. HIDE DEF T, L
<1>7. \A a \in T : ~Comes(above, a, a)
  BY DEF Comes
<1>8. ASSUME NEW a \in T, NEW b \in T, a # b PROVE Comes(above, a, b) \/ Comes(above, b, a)
  <2>1. a.el = b.el => a.opens # b.opens
    BY <1>3, <1>8
  <2>2. a.el \in above[b.el] /\ b.el \in above[a.el] => a.el = b.el
    BY <1>0, <1>3, <1>4
  <2>. QED BY <1>0, <1>3, <2>1, <2>2 DEF Comes
<1>9. ASSUME NEW a \in T, NEW b \in T, NEW c \in T, Comes(above, a, b), Comes(above, b, c)
      PROVE  Comes(above, a, c)
  <2>. DEFINE i == a.el
              j == b.el
              k == c.el
              In(x, y) == x \in above[y]
  <2>0. i \in 1 .. n /\ j \in 1 .. n /\ k \in 1 .. n
    BY <1>3
  <2>1. \A x, y \in {i, j, k} : In(x, y) => x <= y
    BY <2>0, <1>4
  <2>2. \A x, y, z \in {i, j, k} : In(x, y) /\ In(y, z) => In(x, z)
    BY <2>0, <1>5
  <2>3. \A x, y, z \in {i, j, k} : In(x, z) /\ x <= y /\ y <= z => In(x, y)
    BY <2>0, <1>6
  <2>4. /\ IF i = j THEN a.opens /\ ~b.opens ELSE IF In(i, j) THEN a.opens
           ELSE IF In(j, i) THEN ~b.opens ELSE i < j
        /\ IF j = k THEN b.opens /\ ~c.opens ELSE IF In(j, k) THEN b.opens
           ELSE IF In(k, j) THEN ~c.opens ELSE j < k
    BY <1>9 DEF Comes
  <2>5. a.opens \in BOOLEAN /\ b.opens \in BOOLEAN /\ c.opens \in BOOLEAN
    BY <1>3
  <2>6. i \in Int /\ j \in Int /\ k \in Int
    BY <1>0, <2>0
  <2>7. IF i = k THEN a.opens /\ ~c.opens ELSE IF In(i, k) THEN a.opens
        ELSE IF In(k, i) THEN ~c.opens ELSE i < k
    <3>. HIDE DEF i, j, k, In
    <3>. QED BY <2>1, <2>2, <2>3, <2>4, <2>5, <2>6
  <2>. QED BY <2>7 DEF Comes
<1>10. IsOrder(L, T)
  BY <1>2, <1>7, <1>8, <1>9 DEF IsOrder
<1>. QED BY <1>1, <1>2, <1>10 DEF T, L

OpenTag(el) == [opens |-> TRUE, el |-> el]
CloseTag(el) == [opens |-> FALSE, el |-> el]

\* The places O and C of the tags that open and close an element.
StandIn(doc, tags, O, C) ==
    /\ Len(tags) \in Nat /\ DOMAIN tags = 1 .. Len(tags)
    /\ \A el \in 1 .. Len(doc) :
         /\ O[el] \in 1 .. Len(tags) /\ tags[O[el]] = OpenTag(el)
         /\ C[el] \in 1 .. Len(tags) /\ tags[C[el]] = CloseTag(el)
    /\ \A t \in 1 .. Len(tags) : \E el \in 1 .. Len(doc) :
         \/ t = O[el] /\ tags[t] = OpenTag(el)
         \/ t = C[el] /\ tags[t] = CloseTag(el)

\* The tags of an element stand around those of the elements within it.
AreNested(doc, above, O, C) ==
    /\ \A d, e \in 1 .. Len(doc) : O[d] < O[e] <=> d < e
    /\ \A d, e \in 1 .. Len(doc) : O[d] < C[e] <=> d <= e \/ e \in above[d]
    /\ \A d, e \in 1 .. Len(doc) : C[d] < O[e] <=> d < e /\ d \notin above[e]
    /\ \A d, e \in 1 .. Len(doc) :
         C[d] < C[e] <=> d # e /\ (e \in above[d] \/ (d < e /\ d \notin above[e]))

\* So do the tags of a document.
LEMMA TagsStandInOrder ==
    ASSUME NEW doc, IsDocument(doc), NEW above, IsNested(doc, above), above = Above(doc)
    PROVE  \E O, C : StandIn(doc, Tags(doc), O, C) /\ AreNested(doc, above, O, C)
<1>. DEFINE n == Len(doc)
            T == TagsOf(doc)
            L == InTurn(doc, above)
            m == Cardinality(T)
            tags == Tags(doc)
<1>0. n \in Nat \ {0} /\ DOMAIN doc = 1 .. n
  BY DocumentShape DEF IsShaped
<1>1. /\ IsFiniteSet(T) /\ IsOrder(L, T)
      /\ \A a, b \in T : <<a, b>> \in L <=> Comes(above, a, b)
  BY TagsAreOrdered
<1>2. /\ m \in Nat
      /\ \A b \in T : Rank(L, T, b) \in 0 .. (m - 1)
      /\ \A a, b \in T : <<a, b>> \in L <=> Rank(L, T, a) < Rank(L, T, b)
      /\ \A k \in 1 .. m : \E b \in T : Rank(L, T, b) = k - 1
  BY <1>1, RanksOfOrder
<1>. DEFINE placed == {<<Cardinality({a \in T : Comes(above, a, b)}) + 1, b>> : b \in T}
<1>3. tags = [t \in 1 .. m |-> (CHOOSE p \in placed : p[1] = t)[2]]
  <2>1. T = [opens : BOOLEAN, el : DOMAIN doc]
    BY <1>0 DEF TagsOf
  <2>. HIDE DEF T
  <2>. QED BY <2>1 DEF Tags, Comes
<1>4. \A b \in T : Cardinality({a \in T : Comes(above, a, b)}) = Rank(L, T, b)
  <2>. TAKE b \in T
  <2>1. {a \in T : Comes(above, a, b)} = {a \in T : <<a, b>> \in L}
    BY <1>1
  <2>. QED BY <2>1 DEF Rank
<1>5. placed = {<<Rank(L, T, b) + 1, b>> : b \in T}
  BY <1>4
<1>6. \A b \in T : b.opens \in BOOLEAN /\ b.el \in 1 .. n /\ b = [opens |-> b.opens, el |-> b.el]
  BY DEF TagsOf
<1>7. \A el \in 1 .. n : OpenTag(el) \in T /\ CloseTag(el) \in T
  BY DEF OpenTag, CloseTag, TagsOf
<1>. HIDE DEF placed, T, L, m, tags
<1>8. Len(tags) = m /\ DOMAIN tags = 1 .. m
  BY <1>2, <1>3
<1>9. ASSUME NEW t \in 1 .. m PROVE tags[t] \in T /\ Rank(L, T, tags[t]) = t - 1
  <2>1. PICK b \in T : Rank(L, T, b) = t - 1
    BY <1>2
  <2>2. t \in Nat /\ (t - 1) + 1 = t
    BY <1>2
  <2>3. <<t, b>> \in placed /\ <<t, b>>[1] = t
    BY <1>5, <2>1, <2>2
  <2>. DEFINE p == CHOOSE q \in placed : q[1] = t
  <2>4. p \in placed /\ p[1] = t
    <3>. HIDE DEF placed
    <3>. QED BY <2>3, Zenon
  <2>5. tags[t] = p[2]
    BY <1>3
  <2>. HIDE DEF p
  <2>6. PICK c \in T : p = <<Rank(L, T, c) + 1, c>>
    BY <1>5, <2>4
  <2>7. Rank(L, T, c) \in Nat /\ Rank(L, T, c) + 1 = t /\ tags[t] = c
    BY <1>2, <2>4, <2>5, <2>6
  <2>. QED BY <2>2, <2>7
<1>10. ASSUME NEW b \in T PROVE Rank(L, T, b) + 1 \in 1 .. m /\ tags[Rank(L, T, b) + 1] = b
  <2>. DEFINE t == Rank(L, T, b) + 1
  <2>1. t \in 1 .. m /\ t - 1 = Rank(L, T, b) /\ Rank(L, T, b) \in Nat
    BY <1>2
  <2>. HIDE DEF t
  <2>2. tags[t] \in T /\ Rank(L, T, tags[t]) = Rank(L, T, b)
    BY <1>9, <2>1
  <2>3. <<tags[t], b>> \notin L /\ <<b, tags[t]>> \notin L
    BY <1>2, <2>1, <2>2
  <2>. QED BY <1>1, <2>1, <2>2, <2>3 DEF IsOrder, t
<1>. DEFINE O == [el \in 1 .. n |-> Rank(L, T, OpenTag(el)) + 1]
            C == [el \in 1 .. n |-> Rank(L, T, CloseTag(el)) + 1]
<1>11. StandIn(doc, tags, O, C)
  <2>1. \A el \in 1 .. n : /\ O[el] \in 1 .. m /\ tags[O[el]] = OpenTag(el)
                           /\ C[el] \in 1 .. m /\ tags[C[el]] = CloseTag(el)
    BY <1>7, <1>10
  <2>2. ASSUME NEW t \in 1 .. m
        PROVE  \E el \in 1 .. n :
                 \/ t = O[el] /\ tags[t] = OpenTag(el)
                 \/ t = C[el] /\ tags[t] = CloseTag(el)
    <3>1. tags[t] \in T /\ Rank(L, T, tags[t]) + 1 = t
      BY <1>2, <1>9
    <3>. DEFINE el == tags[t].el
    <3>2. el \in 1 .. n /\ (tags[t] = OpenTag(el) \/ tags[t] = CloseTag(el))
      BY <1>6, <3>1 DEF OpenTag, CloseTag
    <3>. HIDE DEF el
    <3>3. tags[t] = OpenTag(el) => t = O[el]
      BY <3>1, <3>2
    <3>4. tags[t] = CloseTag(el) => t = C[el]
      BY <3>1, <3>2
    <3>. HIDE DEF O, C
    <3>5. \/ t = O[el] /\ tags[t] = OpenTag(el)
          \/ t = C[el] /\ tags[t] = CloseTag(el)
      BY <3>2, <3>3, <3>4
    <3>. QED BY <3>2, <3>5
  <2>. HIDE DEF O, C
  <2>. QED BY <1>2, <1>8, <2>1, <2>2 DEF StandIn
<1>12. AreNested(doc, above, O, C)
  <2>. DEFINE R(b) == Rank(L, T, b)
  <2>1. ASSUME NEW a \in T, NEW b \in T PROVE R(a) + 1 < R(b) + 1 <=> Comes(above, a, b)
    <3>1. R(a) \in Int /\ R(b) \in Int
      BY <1>2
    <3>2. R(a) < R(b) <=> Comes(above, a, b)
      BY <1>1, <1>2
    <3>. HIDE DEF R
    <3>. QED BY <3>1, <3>2
  <2>2. \A el \in 1 .. n : O[el] = R(OpenTag(el)) + 1 /\ C[el] = R(CloseTag(el)) + 1
    OBVIOUS
  <2>. HIDE DEF O, C, R
  <2>3. ASSUME NEW d \in 1 .. n, NEW e \in 1 .. n
        PROVE  /\ O[d] < O[e] <=> Comes(above, OpenTag(d), OpenTag(e))
               /\ O[d] < C[e] <=> Comes(above, OpenTag(d), CloseTag(e))
               /\ C[d] < O[e] <=> Comes(above, CloseTag(d), OpenTag(e))
               /\ C[d] < C[e] <=> Comes(above, CloseTag(d), CloseTag(e))
    BY <1>7, <2>1, <2>2
  <2>4. ASSUME NEW d \in 1 .. n, NEW e \in 1 .. n
        PROVE  /\ d \in Int /\ e \in Int
               /\ d \in above[e] => d <= e
               /\ e \in above[d] => e <= d
               /\ d \in above[d]
    BY <1>0 DEF IsNested
  <2>5. ASSUME NEW d \in 1 .. n, NEW e \in 1 .. n
        PROVE  /\ Comes(above, OpenTag(d), OpenTag(e)) <=> d < e
               /\ Comes(above, OpenTag(d), CloseTag(e)) <=> d <= e \/ e \in above[d]
               /\ Comes(above, CloseTag(d), OpenTag(e)) <=> d < e /\ d \notin above[e]
               /\ Comes(above, CloseTag(d), CloseTag(e))
                    <=> d # e /\ (e \in above[d] \/ (d < e /\ d \notin above[e]))
    BY <2>4 DEF Comes, OpenTag, CloseTag
  <2>. QED BY <2>3, <2>5 DEF AreNested
<1>. QED BY <1>11, <1>12 DEF tags

-----------------------------------------------------------------------------
(* The paths of the elements.                                              *)

\* An element that stands for a file.
IsUnit(doc, el) ==
    IF IsSingleFileRoot(doc) THEN el = 1 ELSE doc[el].parent = 1 /\ doc[el].tag = "unit"

\* The file units are the elements that stand for a file.
LEMMA UnitsAreThere ==
    ASSUME NEW doc, IsDocument(doc)
    PROVE  /\ FileUnitsIn(doc) \subseteq 1 .. Len(doc)
           /\ \A el \in 1 .. Len(doc) : el \in FileUnitsIn(doc) <=> IsUnit(doc, el)
<1>. DEFINE n == Len(doc)
            nested == {c \in DOMAIN doc : doc[c].parent = 1 /\ doc[c].tag = "unit"}
<1>1. n \in Nat \ {0} /\ DOMAIN doc = 1 .. n /\ doc[1].parent = 0 /\ 1 \in 1 .. n
  BY DocumentShape DEF IsShaped
<1>2. FileUnitsIn(doc) = IF nested # {} THEN nested ELSE IF IsSingleFileRoot(doc) THEN {1} ELSE {}
  BY DEF FileUnitsIn
<1>3. IsSingleFileRoot(doc) => \A el \in 2 .. n : doc[el].parent = 1 => doc[el].tag # "unit"
  BY DEF IsDocument
<1>4. \A el \in 1 .. n : el = 1 \/ el \in 2 .. n
  BY <1>1
<1>5. IsSingleFileRoot(doc) => nested = {}
  BY <1>1, <1>3, <1>4
<1>6. CASE IsSingleFileRoot(doc)
  BY <1>1, <1>2, <1>5, <1>6 DEF IsUnit
<1>7. CASE ~IsSingleFileRoot(doc)
  BY <1>1, <1>2, <1>7 DEF IsUnit
<1>. QED BY <1>6, <1>7

\* What the number of a child counts.
Siblings(doc, parent, tag, last) ==
    {c \in 1 .. last : doc[c].parent = parent /\ doc[c].tag = tag}

LEMMA SiblingsAreNumbered ==
    ASSUME NEW doc, IsShaped(doc)
    PROVE  /\ \A parent, tag : \A last \in 1 .. Len(doc) :
                /\ IsFiniteSet(Siblings(doc, parent, tag, last))
                /\ Cardinality(Siblings(doc, parent, tag, last)) \in Nat
           /\ \A el \in 1 .. Len(doc) :
                Numbered(doc, el) = Cardinality(Siblings(doc, doc[el].parent, doc[el].tag, el))
           /\ \A d, e \in 1 .. Len(doc) :
                d < e /\ doc[d].parent = doc[e].parent /\ doc[d].tag = doc[e].tag
                  => Numbered(doc, d) < Numbered(doc, e)
<1>. DEFINE n == Len(doc)
<1>1. n \in Nat
  BY DEF IsShaped
<1>2. ASSUME NEW parent, NEW tag, NEW last \in 1 .. n
      PROVE  /\ IsFiniteSet(Siblings(doc, parent, tag, last))
             /\ Cardinality(Siblings(doc, parent, tag, last)) \in Nat
  <2>1. last \in Int
    BY <1>1
  <2>2. IsFiniteSet(1 .. last)
    BY <2>1, FS_Interval
  <2>3. Siblings(doc, parent, tag, last) \subseteq 1 .. last
    BY DEF Siblings
  <2>. QED BY <2>2, <2>3, FS_Subset, FS_CardinalityType
<1>3. \A el \in 1 .. n :
        Numbered(doc, el) = Cardinality(Siblings(doc, doc[el].parent, doc[el].tag, el))
  BY DEF Numbered, Siblings
<1>4. ASSUME NEW d \in 1 .. n, NEW e \in 1 .. n, d < e,
             doc[d].parent = doc[e].parent, doc[d].tag = doc[e].tag
      PROVE  Numbered(doc, d) < Numbered(doc, e)
  <2>. DEFINE D == Siblings(doc, doc[d].parent, doc[d].tag, d)
              E == Siblings(doc, doc[e].parent, doc[e].tag, e)
  <2>1. d \in Int /\ e \in Int
    BY <1>1
  <2>2. D \cup {e} \subseteq E /\ e \notin D
    BY <1>4, <2>1 DEF Siblings
  <2>3. /\ IsFiniteSet(D) /\ IsFiniteSet(E)
        /\ Cardinality(D) \in Nat /\ Cardinality(E) \in Nat
    BY <1>2
  <2>. HIDE DEF D, E
  <2>4. Cardinality(D \cup {e}) = Cardinality(D) + 1
    BY <2>2, <2>3, FS_AddElement
  <2>5. Cardinality(D \cup {e}) <= Cardinality(E)
    BY <2>2, <2>3, FS_Subset
  <2>6. Numbered(doc, d) = Cardinality(D) /\ Numbered(doc, e) = Cardinality(E)
    BY <1>3 DEF D, E
  <2>. QED BY <2>3, <2>4, <2>5, <2>6
<1>. QED BY <1>2, <1>3, <1>4

\* The steps a path may be made of.
Steps(doc) == {doc[el].tag : el \in 1 .. Len(doc)} \X Nat

\* A path is that of the parent and a step, from the units down.
PathsFollow(doc, paths) ==
    /\ DOMAIN paths = 1 .. Len(doc)
    /\ \A el \in 1 .. Len(doc) : paths[el] \in Seq(Steps(doc)) /\ Step(doc, el) \in Steps(doc)
    /\ \A el \in 1 .. Len(doc) : IsUnit(doc, el) => paths[el] = <<Step(doc, el)>>
    /\ ~IsUnit(doc, 1) => paths[1] = NoPath
    /\ \A el \in 2 .. Len(doc) : ~IsUnit(doc, el) =>
         paths[el] = IF paths[doc[el].parent] = NoPath THEN NoPath
                     ELSE Append(paths[doc[el].parent], Step(doc, el))

\* Paths is defined by recursion over parents, and does that.
LEMMA PathsAreThere ==
    ASSUME NEW doc, IsDocument(doc)
    PROVE  PathsFollow(doc, Paths(doc))
<1>. DEFINE n == Len(doc)
            units == FileUnitsIn(doc)
            V == Seq(Steps(doc))
            roots == units \cup {1}
            Below(path, step) == IF path = NoPath THEN NoPath ELSE Append(path, step)
            first == [el \in 1 .. n |-> IF el \in units THEN <<Step(doc, el)>> ELSE NoPath]
            step == [v \in V \X (1 .. n) |-> Below(v[1], Step(doc, v[2]))]
            Is(f) == f = [el \in DOMAIN doc |->
                            IF el \in units THEN <<Step(doc, el)>>
                            ELSE IF doc[el].parent = 0 THEN NoPath
                            ELSE Below(f[doc[el].parent], Step(doc, el))]
<1>1. IsShaped(doc)
  BY DocumentShape
<1>2. \A el \in 1 .. n : Step(doc, el) \in Steps(doc)
  BY <1>1, SiblingsAreNumbered DEF Step, Steps
<1>3. first \in [1 .. n -> V] /\ step \in [V \X (1 .. n) -> V]
  <2>1. NoPath \in V
    BY DEF NoPath
  <2>2. \A el \in 1 .. n : <<Step(doc, el)>> \in V
    BY <1>2
  <2>3. \A path \in V : \A el \in 1 .. n : Below(path, Step(doc, el)) \in V
    BY <1>2, <2>1
  <2>. HIDE DEF V, Below
  <2>. QED BY <2>1, <2>2, <2>3
<1>4. PICK f \in [1 .. n -> V] : GoesDown(f, doc, roots, first, step)
  <2>1. 1 \in roots
    OBVIOUS
  <2>. HIDE DEF first, step, V, roots
  <2>. QED BY <1>1, <1>3, <2>1, DescentExists
<1>5. \A el \in 1 .. n : /\ el = 1 <=> doc[el].parent = 0
                         /\ el # 1 => doc[el].parent \in 1 .. n
  BY <1>1 DEF IsShaped
<1>6. Is(f)
  <2>1. ASSUME NEW el \in 1 .. n
        PROVE  f[el] = IF el \in units THEN <<Step(doc, el)>>
                       ELSE IF doc[el].parent = 0 THEN NoPath
                       ELSE Below(f[doc[el].parent], Step(doc, el))
    <3>1. el # 1 => step[<<f[doc[el].parent], el>>] = Below(f[doc[el].parent], Step(doc, el))
      <4>. SUFFICES ASSUME el # 1 PROVE <<f[doc[el].parent], el>> \in V \X (1 .. n)
        OBVIOUS
      <4>. HIDE DEF V
      <4>. QED BY <1>4, <1>5
    <3>2. f[el] = IF el \in roots THEN first[el] ELSE step[<<f[doc[el].parent], el>>]
      BY <1>4 DEF GoesDown
    <3>3. first[el] = IF el \in units THEN <<Step(doc, el)>> ELSE NoPath
      OBVIOUS
    <3>. HIDE DEF step, first, Below, units
    <3>. QED BY <1>5, <3>1, <3>2, <3>3
  <2>2. DOMAIN doc = 1 .. n
    BY <1>1 DEF IsShaped
  <2>. HIDE DEF Below, units, V, step, first
  <2>. QED BY <1>4, <2>1, <2>2
<1>. DEFINE paths == Paths(doc)
<1>7. Is(paths)
  <2>1. paths = CHOOSE g : Is(g)
    BY DEF Paths
  <2>. HIDE DEF Is, paths
  <2>. QED BY <1>6, <2>1, Zenon
<1>8. /\ DOMAIN paths = 1 .. n
      /\ \A el \in 1 .. n : paths[el] = IF el \in units THEN <<Step(doc, el)>>
                                        ELSE IF doc[el].parent = 0 THEN NoPath
                                        ELSE Below(paths[doc[el].parent], Step(doc, el))
  <2>1. DOMAIN doc = 1 .. n
    BY <1>1 DEF IsShaped
  <2>. HIDE DEF paths, Below, units
  <2>. QED BY <1>7, <2>1
<1>9. \A el \in 1 .. n : el \in units <=> IsUnit(doc, el)
  BY UnitsAreThere
<1>. HIDE DEF paths, Is, units
<1>10. paths \in [1 .. n -> V]
  <2>. DEFINE P == {m \in Nat : \A el \in 1 .. n : el <= m => paths[el] \in V}
  <2>1. 0 \in P
    BY <1>1 DEF IsShaped
  <2>2. ASSUME NEW m \in Nat, m \in P PROVE m + 1 \in P
    <3>. SUFFICES ASSUME NEW el \in 1 .. n, el = m + 1 PROVE paths[el] \in V
      BY <2>2
    <3>1. NoPath \in V /\ <<Step(doc, el)>> \in V
      BY <1>2 DEF NoPath
    <3>2. el # 1 => doc[el].parent \in 1 .. n /\ doc[el].parent <= m
      BY <1>1 DEF IsShaped
    <3>3. el # 1 => Below(paths[doc[el].parent], Step(doc, el)) \in V
      BY <1>2, <2>2, <3>1, <3>2
    <3>. HIDE DEF Below, V
    <3>. QED BY <1>5, <1>8, <3>1, <3>3
  <2>3. \A m \in Nat : m \in P
    <3>. HIDE DEF P
    <3>. QED BY <2>1, <2>2, NatSetInduction
  <2>4. ASSUME NEW el \in 1 .. n PROVE paths[el] \in V
    <3>1. el \in Nat /\ el \in P
      BY <1>1, <2>3 DEF IsShaped
    <3>. QED BY <3>1
  <2>5. paths = [el \in 1 .. n |-> paths[el]]
    <3>1. DOMAIN doc = 1 .. n
      BY <1>1 DEF IsShaped
    <3>. QED BY <1>7, <1>8, <3>1 DEF Is
  <2>. HIDE DEF P, V
  <2>. QED BY <2>4, <2>5
<1>11. \A el \in 2 .. n : el \in 1 .. n /\ doc[el].parent # 0
  BY <1>1 DEF IsShaped
<1>12. 1 \in 1 .. n /\ doc[1].parent = 0
  BY <1>1 DEF IsShaped
<1>13. \A el \in 2 .. n : ~IsUnit(doc, el) => paths[el] = Below(paths[doc[el].parent], Step(doc, el))
  <2>. HIDE DEF Below
  <2>. QED BY <1>8, <1>9, <1>11
<1>14. /\ \A el \in 1 .. n : IsUnit(doc, el) => paths[el] = <<Step(doc, el)>>
       /\ ~IsUnit(doc, 1) => paths[1] = NoPath
  BY <1>8, <1>9, <1>12
<1>15. \A el \in 1 .. n : paths[el] \in Seq(Steps(doc))
  BY <1>10
<1>. QED BY <1>2, <1>8, <1>13, <1>14, <1>15 DEF PathsFollow, paths

\* A sequence without its last element.
LEMMA FrontOfSequence ==
    ASSUME NEW T, NEW s \in Seq(T), s # <<>>
    PROVE  /\ Front(s) \in Seq(T) /\ Len(Front(s)) = Len(s) - 1 /\ Len(s) \in Nat \ {0}
           /\ \A k \in 1 .. (Len(s) - 1) : Front(s)[k] = s[k]
           /\ Last(s) = s[Len(s)] /\ Last(s) \in T
<1>1. Len(s) \in Nat \ {0} /\ Len(s) - 1 \in 0 .. Len(s) /\ 0 + 1 = 1 /\ (Len(s) - 1) - 0 = Len(s) - 1
  OBVIOUS
<1>. DEFINE part == SubSeq(s, 1, Len(s) - 1)
<1>2. /\ DOMAIN part = 1 .. (Len(s) - 1) /\ Len(part) = Len(s) - 1
      /\ \A k \in 1 .. (Len(s) - 1) : part[k] = s[0 + k]
  <2>1. 0 \in Nat
    OBVIOUS
  <2>. QED BY <1>1, <2>1, PartOfSequence
<1>3. part \in Seq(T)
  BY <1>1
<1>4. Last(s) = s[Len(s)] /\ Front(s) = part
  BY DEF Last, Front
<1>5. Last(s) \in T
  BY <1>1, <1>4
<1>. HIDE DEF part
<1>6. \A k \in 1 .. (Len(s) - 1) : 0 + k = k
  BY <1>1
<1>. QED BY <1>1, <1>2, <1>3, <1>4, <1>5, <1>6

\* A sequence with one more element.
LEMMA AppendedToSequence ==
    ASSUME NEW T, NEW s \in Seq(T), NEW x \in T
    PROVE  /\ Append(s, x) \in Seq(T) /\ Len(Append(s, x)) = Len(s) + 1 /\ Len(s) \in Nat
           /\ \A k \in 1 .. Len(s) : Append(s, x)[k] = s[k]
           /\ Append(s, x)[Len(s) + 1] = x /\ Append(s, x) # <<>>
           /\ Front(Append(s, x)) = s
<1>. DEFINE r == Append(s, x)
<1>1. /\ r \in Seq(T) /\ Len(r) = Len(s) + 1 /\ Len(s) \in Nat /\ r # <<>>
      /\ \A k \in 1 .. Len(s) : r[k] = s[k]
      /\ r[Len(s) + 1] = x
  OBVIOUS
<1>. HIDE DEF r
<1>2. /\ Front(r) \in Seq(T) /\ Len(Front(r)) = Len(r) - 1
      /\ \A k \in 1 .. (Len(r) - 1) : Front(r)[k] = r[k]
  BY <1>1, FrontOfSequence
<1>3. Len(r) - 1 = Len(s)
  BY <1>1
<1>4. Front(r) = s
  BY <1>1, <1>2, <1>3
<1>. QED BY <1>1, <1>4 DEF r

\* A path names one element, and its front the parent.
LEMMA PathsDiffer ==
    ASSUME NEW doc, IsDocument(doc), NEW paths, PathsFollow(doc, paths)
    PROVE  /\ \A el \in 1 .. Len(doc) : ~IsUnit(doc, el) /\ paths[el] # NoPath =>
                /\ el \in 2 .. Len(doc) /\ paths[doc[el].parent] # NoPath
                /\ Front(paths[el]) = paths[doc[el].parent]
           /\ \A d, e \in 1 .. Len(doc) : paths[d] = paths[e] /\ paths[d] # NoPath => d = e
<1>. DEFINE n == Len(doc)
            up(el) == doc[el].parent
            S == Steps(doc)
<1>0. IsShaped(doc)
  BY DocumentShape
<1>1. n \in Nat /\ \A el \in 2 .. n : up(el) \in 1 .. n /\ up(el) < el
  BY <1>0 DEF IsShaped
<1>2. \A el \in 1 .. n : paths[el] \in Seq(S) /\ Step(doc, el) \in S
  BY DEF PathsFollow
<1>3. ASSUME NEW el \in 1 .. n, ~IsUnit(doc, el), paths[el] # NoPath
      PROVE  /\ el \in 2 .. n /\ paths[up(el)] # NoPath
             /\ paths[el] = Append(paths[up(el)], Step(doc, el))
  <2>1. el \in 2 .. n
    BY <1>1, <1>3 DEF PathsFollow
  <2>. QED BY <1>3, <2>1 DEF PathsFollow
<1>. HIDE DEF S
<1>4. ASSUME NEW el \in 1 .. n, ~IsUnit(doc, el), paths[el] # NoPath
      PROVE  /\ Front(paths[el]) = paths[up(el)] /\ Len(paths[el]) = Len(paths[up(el)]) + 1
             /\ paths[el][Len(paths[el])] = Step(doc, el) /\ Len(paths[el]) > 1
  <2>1. up(el) \in 1 .. n
    BY <1>1, <1>3, <1>4
  <2>2. paths[up(el)] \in Seq(S) /\ paths[up(el)] # <<>>
    BY <1>2, <1>3, <1>4, <2>1 DEF NoPath
  <2>3. Len(paths[up(el)]) > 0
    BY <2>2
  <2>. DEFINE q == paths[up(el)]
              r == Append(q, Step(doc, el))
  <2>4. Len(r) = Len(q) + 1 /\ Len(q) \in Nat /\ r[Len(q) + 1] = Step(doc, el) /\ Front(r) = q
    BY <1>2, <2>2, AppendedToSequence
  <2>5. paths[el] = r
    BY <1>3, <1>4
  <2>. HIDE DEF r
  <2>. QED BY <2>3, <2>4, <2>5
<1>5. \A el \in 1 .. n : IsUnit(doc, el) => paths[el] = <<Step(doc, el)>> /\ Len(paths[el]) = 1
  <2>1. \A el \in 1 .. n : IsUnit(doc, el) => paths[el] = <<Step(doc, el)>>
    BY DEF PathsFollow
  <2>2. \A el : Len(<<Step(doc, el)>>) = 1
    OBVIOUS
  <2>. QED BY <2>1, <2>2
<1>6. ASSUME NEW d \in 1 .. n, NEW e \in 1 .. n, up(d) = up(e), Step(doc, d) = Step(doc, e)
      PROVE  d = e
  <2>1. doc[d].tag = doc[e].tag /\ Numbered(doc, d) = Numbered(doc, e)
    BY <1>6 DEF Step
  <2>2. Numbered(doc, d) \in Nat
    BY <1>0, SiblingsAreNumbered
  <2>3. ~(d < e) /\ ~(e < d)
    BY <1>0, <1>6, <2>1, <2>2, SiblingsAreNumbered
  <2>. QED BY <1>1, <2>3
<1>. DEFINE P == {m \in Nat : \A d, e \in 1 .. n :
                   d <= m /\ paths[d] = paths[e] /\ paths[d] # NoPath => d = e}
<1>7. 0 \in P
  BY <1>1
<1>8. ASSUME NEW m \in Nat, m \in P PROVE m + 1 \in P
  <2>. SUFFICES ASSUME NEW d \in 1 .. n, NEW e \in 1 .. n, d = m + 1,
                       paths[d] = paths[e], paths[d] # NoPath
                PROVE  d = e
    <3>1. \A d \in 1 .. n : d <= m + 1 => d <= m \/ d = m + 1
      BY <1>1
    <3>. QED BY <1>8, <3>1
  <2>1. CASE IsUnit(doc, d) /\ IsUnit(doc, e)
    <3>1. Step(doc, d) = Step(doc, e)
      BY <1>5, <2>1
    <3>2. up(d) = up(e)
      BY <2>1 DEF IsUnit
    <3>. QED BY <1>6, <3>1, <3>2
  <2>2. CASE ~IsUnit(doc, d) /\ ~IsUnit(doc, e)
    <3>1. Step(doc, d) = Step(doc, e) /\ paths[up(d)] = paths[up(e)] /\ paths[up(d)] # NoPath
      BY <1>3, <1>4, <2>2
    <3>2. up(d) \in 1 .. n /\ up(e) \in 1 .. n /\ up(d) <= m
      BY <1>1, <1>3, <2>2
    <3>3. up(d) = up(e)
      BY <1>8, <3>1, <3>2
    <3>. QED BY <1>6, <3>1, <3>3
  <2>3. IsUnit(doc, d) <=> IsUnit(doc, e)
    BY <1>4, <1>5
  <2>. QED BY <2>1, <2>2, <2>3
<1>9. \A m \in Nat : m \in P
  <2>. HIDE DEF P
  <2>. QED BY <1>7, <1>8, NatSetInduction
<1>10. ASSUME NEW d \in 1 .. n, NEW e \in 1 .. n, paths[d] = paths[e], paths[d] # NoPath
       PROVE  d = e
  <2>1. d \in P
    <3>1. d \in Nat
      BY <1>1
    <3>. HIDE DEF P
    <3>. QED BY <1>9, <3>1
  <2>2. d <= d
    BY <1>1
  <2>3. \A x, y \in 1 .. n : x <= d /\ paths[x] = paths[y] /\ paths[x] # NoPath => x = y
    BY <2>1
  <2>. QED BY <1>10, <2>2, <2>3
<1>. QED BY <1>3, <1>4, <1>10

-----------------------------------------------------------------------------
(* The parser's state.                                                     *)

\* The parser before its first tag, and its step at a tag.
NothingParsed == [stack |-> <<>>, units |-> 0, spans |-> [path \in {} |-> NoSpan]]

ParsedStep(doc, tags, include, acc, t) ==
    IF tags[t].opens THEN OpenElement(doc, include, acc, doc[tags[t].el].tag, t)
    ELSE CloseElement(acc, t)

\* ParsedTo is defined by recursion over the tags, and takes these steps.
LEMMA ParsedIsThere ==
    ASSUME NEW doc, NEW tags, Len(tags) \in Nat, NEW include
    PROVE  LET parsed == ParsedTo(doc, tags, include)
           IN  /\ parsed[0] = NothingParsed
               /\ \A t \in 1 .. Len(tags) :
                    parsed[t] = ParsedStep(doc, tags, include, parsed[t - 1], t)
<1>. DEFINE m == Len(tags)
            next(acc, t) == ParsedStep(doc, tags, include, acc, t)
            At(f, t) == f[t] = IF t = 0 THEN NothingParsed ELSE next(f[t - 1], t)
            P == {k \in Nat : \E f : \A t \in 0 .. k : At(f, t)}
<1>1. 0 \in P
  <2>. DEFINE f == [t \in 0 .. 0 |-> NothingParsed]
  <2>1. \A t \in 0 .. 0 : At(f, t)
    OBVIOUS
  <2>. HIDE DEF f, At
  <2>. QED BY <2>1
<1>2. ASSUME NEW k \in Nat, k \in P PROVE k + 1 \in P
  <2>1. PICK f : \A t \in 0 .. k : At(f, t)
    BY <1>2
  <2>. DEFINE g == [t \in 0 .. (k + 1) |-> IF t = k + 1 THEN next(f[k], k + 1) ELSE f[t]]
  <2>. HIDE DEF next
  <2>2. g[k + 1] = next(f[k], k + 1) /\ \A t \in 0 .. k : g[t] = f[t]
    OBVIOUS
  <2>. HIDE DEF g
  <2>3. ASSUME NEW t \in 0 .. (k + 1) PROVE At(g, t)
    <3>1. CASE t = k + 1
      <4>1. t # 0 /\ t - 1 = k /\ g[k] = f[k]
        BY <2>2, <3>1
      <4>. QED BY <2>2, <3>1, <4>1
    <3>2. CASE t # k + 1
      <4>1. t \in 0 .. k /\ (t # 0 => t - 1 \in 0 .. k)
        BY <3>2
      <4>. QED BY <2>1, <2>2, <4>1
    <3>. QED BY <3>1, <3>2
  <2>. HIDE DEF At
  <2>. QED BY <2>3
<1>3. \A k \in Nat : k \in P
  <2>. HIDE DEF P
  <2>. QED BY <1>1, <1>2, NatSetInduction
<1>4. PICK f : \A t \in 0 .. m : At(f, t)
  <2>1. m \in P
    <3>. HIDE DEF P
    <3>. QED BY <1>3
  <2>. HIDE DEF At
  <2>. QED BY <2>1
<1>. DEFINE Is(g) == g = [t \in 0 .. m |-> IF t = 0 THEN NothingParsed ELSE next(g[t - 1], t)]
            h == [t \in 0 .. m |-> f[t]]
<1>5. Is(h)
  <2>. HIDE DEF next
  <2>1. ASSUME NEW t \in 0 .. m
        PROVE  h[t] = IF t = 0 THEN NothingParsed ELSE next(h[t - 1], t)
    <3>1. t # 0 => t - 1 \in 0 .. m
      OBVIOUS
    <3>. QED BY <1>4, <3>1
  <2>. QED BY <2>1
<1>. DEFINE parsed == ParsedTo(doc, tags, include)
<1>6. parsed = CHOOSE g : Is(g)
  BY DEF ParsedTo, ParsedStep, NothingParsed
<1>7. Is(parsed)
  <2>. HIDE DEF Is, parsed, h
  <2>. QED BY <1>5, <1>6, Zenon
<1>. HIDE DEF parsed, next
<1>8. /\ parsed[0] = NothingParsed
      /\ \A t \in 1 .. m : t \in 0 .. m /\ t # 0
  BY <1>7
<1>9. \A t \in 1 .. m : parsed[t] = next(parsed[t - 1], t)
  BY <1>7, <1>8
<1>. QED BY <1>8, <1>9 DEF next, parsed

\* After t tags: the children of a name that were opened, the elements that are open,
\* and those that were closed.
Opened(doc, O, parent, tag, t) ==
    {c \in 1 .. Len(doc) : doc[c].parent = parent /\ doc[c].tag = tag /\ O[c] <= t}

OpenAt(doc, O, C, t) == {d \in 1 .. Len(doc) : O[d] <= t /\ t < C[d]}

ClosedAt(doc, C, t) == {d \in 1 .. Len(doc) : C[d] <= t}

\* No two tags have one place.
LEMMA TagsDiffer ==
    ASSUME NEW doc, NEW tags, NEW O, NEW C, StandIn(doc, tags, O, C)
    PROVE  /\ \A d, e \in 1 .. Len(doc) : O[d] # C[e]
           /\ \A d, e \in 1 .. Len(doc) : (O[d] = O[e] \/ C[d] = C[e]) => d = e
           /\ \A d \in 1 .. Len(doc) : O[d] \in Nat \ {0} /\ C[d] \in Nat \ {0}
<1>1. \A d, e : OpenTag(d) # CloseTag(e)
  BY DEF OpenTag, CloseTag
<1>2. \A d, e : (OpenTag(d) = OpenTag(e) \/ CloseTag(d) = CloseTag(e)) => d = e
  BY DEF OpenTag, CloseTag
<1>. QED BY <1>1, <1>2 DEF StandIn

\* Where a start tag stands, the open elements are those around its own.
LEMMA AtOpening ==
    ASSUME NEW doc, IsDocument(doc), NEW above, IsNested(doc, above), NEW tags, NEW O, NEW C,
           StandIn(doc, tags, O, C), AreNested(doc, above, O, C),
           NEW el \in 1 .. Len(doc), NEW t, t = O[el] - 1
    PROVE  /\ OpenAt(doc, O, C, t) = above[el] \ {el} /\ OpenAt(doc, O, C, t + 1) = above[el]
           /\ ClosedAt(doc, C, t + 1) = ClosedAt(doc, C, t)
           /\ \A parent, tag :
                Opened(doc, O, parent, tag, t) = Siblings(doc, parent, tag, el - 1)
           /\ \A parent, tag :
                Opened(doc, O, parent, tag, t + 1) = Siblings(doc, parent, tag, el)
<1>. DEFINE n == Len(doc)
<1>0. n \in Nat
  BY DocumentShape DEF IsShaped
<1>1. /\ \A d \in 1 .. n : O[d] \in Nat \ {0} /\ C[d] \in Nat \ {0} /\ O[el] # C[d]
      /\ \A d \in 1 .. n : O[d] = O[el] => d = el
  BY TagsDiffer
<1>2. \A d \in 1 .. n : /\ O[d] < O[el] <=> d < el
                        /\ O[el] < C[d] <=> el <= d \/ d \in above[el]
  BY DEF AreNested
<1>3. /\ above[el] \subseteq 1 .. el /\ el \in above[el] /\ el \in Int
      /\ \A d \in 1 .. n : d \in Int
      /\ above[el] \subseteq 1 .. n
  BY <1>0 DEF IsNested
<1>4. ASSUME NEW d \in 1 .. n
      PROVE  /\ O[d] <= t <=> d < el
             /\ t < C[d] <=> el <= d \/ d \in above[el]
             /\ O[d] <= t + 1 <=> d <= el
             /\ t + 1 < C[d] <=> el <= d \/ d \in above[el]
             /\ C[d] <= t + 1 <=> C[d] <= t
  <2>0. O[el] \in Int
    BY <1>1
  <2>1. t \in Int /\ t + 1 = O[el]
    BY <2>0
  <2>2. O[el] \in Int /\ O[d] \in Int /\ C[d] \in Int /\ O[el] # C[d] /\ (O[d] = O[el] => d = el)
    BY <1>1
  <2>. QED BY <1>1, <1>2, <1>3, <2>1, <2>2
<1>5. OpenAt(doc, O, C, t) = above[el] \ {el} /\ OpenAt(doc, O, C, t + 1) = above[el]
  BY <1>3, <1>4 DEF OpenAt
<1>6. ClosedAt(doc, C, t + 1) = ClosedAt(doc, C, t)
  BY <1>4 DEF ClosedAt
<1>7. /\ \A c : c \in 1 .. (el - 1) <=> c \in 1 .. n /\ c < el
      /\ \A c : c \in 1 .. el <=> c \in 1 .. n /\ c <= el
  BY <1>0
<1>8. \A parent, tag : Opened(doc, O, parent, tag, t) = Siblings(doc, parent, tag, el - 1)
  BY <1>4, <1>7 DEF Opened, Siblings
<1>9. \A parent, tag : Opened(doc, O, parent, tag, t + 1) = Siblings(doc, parent, tag, el)
  BY <1>4, <1>7 DEF Opened, Siblings
<1>. QED BY <1>5, <1>6, <1>8, <1>9

\* Where an end tag stands, its element is the innermost of them.
LEMMA AtClosing ==
    ASSUME NEW doc, IsDocument(doc), NEW above, IsNested(doc, above), NEW tags, NEW O, NEW C,
           StandIn(doc, tags, O, C), AreNested(doc, above, O, C),
           NEW el \in 1 .. Len(doc), NEW t, t = C[el] - 1
    PROVE  /\ OpenAt(doc, O, C, t) = above[el] /\ OpenAt(doc, O, C, t + 1) = above[el] \ {el}
           /\ ClosedAt(doc, C, t + 1) = ClosedAt(doc, C, t) \cup {el}
           /\ \A parent, tag :
                Opened(doc, O, parent, tag, t + 1) = Opened(doc, O, parent, tag, t)
<1>. DEFINE n == Len(doc)
<1>0. n \in Nat
  BY DocumentShape DEF IsShaped
<1>1. /\ \A d \in 1 .. n : O[d] \in Nat \ {0} /\ C[d] \in Nat \ {0} /\ O[d] # C[el]
      /\ \A d \in 1 .. n : C[d] = C[el] => d = el
  BY TagsDiffer
<1>2. \A d \in 1 .. n :
        /\ O[d] < C[el] <=> d <= el \/ el \in above[d]
        /\ C[d] < C[el] <=> d # el /\ (el \in above[d] \/ (d < el /\ d \notin above[el]))
        /\ C[el] < C[d] <=> d # el /\ (d \in above[el] \/ (el < d /\ el \notin above[d]))
  BY DEF AreNested
<1>3. /\ above[el] \subseteq 1 .. el /\ el \in above[el] /\ el \in Int
      /\ \A d \in 1 .. n : d \in Int /\ (el \in above[d] => el <= d)
      /\ above[el] \subseteq 1 .. n
  BY <1>0 DEF IsNested
<1>4. ASSUME NEW d \in 1 .. n
      PROVE  /\ O[d] <= t <=> O[d] < C[el]
             /\ O[d] <= t + 1 <=> O[d] < C[el]
             /\ t < C[d] <=> ~(C[d] < C[el])
             /\ t + 1 < C[d] <=> C[el] < C[d]
             /\ C[d] <= t <=> C[d] < C[el]
             /\ C[d] <= t + 1 <=> C[d] < C[el] \/ d = el
  <2>0. C[el] \in Nat \ {0}
    BY <1>1
  <2>1. t \in Int /\ t + 1 = C[el]
    BY <2>0
  <2>2. C[el] \in Int /\ O[d] \in Int /\ C[d] \in Int /\ O[d] # C[el] /\ (C[d] = C[el] => d = el)
    BY <1>1
  <2>. QED BY <2>1, <2>2
<1>5. OpenAt(doc, O, C, t) = above[el]
  BY <1>2, <1>3, <1>4 DEF OpenAt
<1>6. OpenAt(doc, O, C, t + 1) = above[el] \ {el}
  BY <1>2, <1>3, <1>4 DEF OpenAt
<1>7. ClosedAt(doc, C, t + 1) = ClosedAt(doc, C, t) \cup {el}
  BY <1>4 DEF ClosedAt
<1>8. \A parent, tag : Opened(doc, O, parent, tag, t + 1) = Opened(doc, O, parent, tag, t)
  BY <1>4 DEF Opened
<1>. QED BY <1>5, <1>6, <1>7, <1>8

\* The start tag of a child adds it, and no other, to the opened ones.
CountsGrow(doc, O, el, p, g, t) ==
    /\ Cardinality(Opened(doc, O, p, g, t)) \in Nat
    /\ Cardinality(Opened(doc, O, p, g, t)) + 1 = Numbered(doc, el)
    /\ Cardinality(Opened(doc, O, p, g, t + 1)) = Numbered(doc, el)
    /\ \A parent, tag : parent # p \/ tag # g
         => Opened(doc, O, parent, tag, t + 1) = Opened(doc, O, parent, tag, t)
    /\ \A tag : Opened(doc, O, el, tag, t + 1) = {}

LEMMA OpenedGrows ==
    ASSUME NEW doc, IsDocument(doc), NEW above, IsNested(doc, above), NEW tags, NEW O, NEW C,
           StandIn(doc, tags, O, C), AreNested(doc, above, O, C),
           NEW el \in 1 .. Len(doc), NEW t, t = O[el] - 1
    PROVE  CountsGrow(doc, O, el, doc[el].parent, doc[el].tag, t)
<1>. DEFINE n == Len(doc)
            p == doc[el].parent
            g == doc[el].tag
            old == Opened(doc, O, p, g, t)
            new == Opened(doc, O, p, g, t + 1)
<1>0. IsShaped(doc) /\ n \in Nat /\ el \in Int
  BY DocumentShape DEF IsShaped
<1>1. /\ \A parent, tag :
           Opened(doc, O, parent, tag, t) = Siblings(doc, parent, tag, el - 1)
      /\ \A parent, tag :
           Opened(doc, O, parent, tag, t + 1) = Siblings(doc, parent, tag, el)
  BY AtOpening
<1>2. \A c : c \in 1 .. el <=> c \in 1 .. (el - 1) \/ c = el
  BY <1>0
<1>3. new = old \cup {el} /\ el \notin old
  BY <1>0, <1>1, <1>2 DEF Siblings
<1>4. new = Siblings(doc, p, g, el)
  BY <1>1
<1>5. IsFiniteSet(new) /\ Cardinality(new) = Numbered(doc, el)
  BY <1>0, <1>4, SiblingsAreNumbered
<1>6. IsFiniteSet(old)
  BY <1>3, <1>5, FS_Subset
<1>7. Cardinality(new) = Cardinality(old) + 1 /\ Cardinality(old) \in Nat
  BY <1>3, <1>6, FS_AddElement, FS_CardinalityType
<1>8. ASSUME NEW parent, NEW tag, parent # p \/ tag # g
      PROVE  Opened(doc, O, parent, tag, t + 1) = Opened(doc, O, parent, tag, t)
  <2>1. Siblings(doc, parent, tag, el) = Siblings(doc, parent, tag, el - 1)
    BY <1>2, <1>8 DEF Siblings
  <2>. QED BY <1>1, <2>1
<1>9. \A c \in 1 .. el : doc[c].parent # el
  <2>. TAKE c \in 1 .. el
  <2>1. c = 1 \/ c \in 2 .. n
    BY <1>0
  <2>2. doc[1].parent = 0 /\ (c \in 2 .. n => doc[c].parent \in 1 .. (c - 1))
    BY <1>0 DEF IsShaped
  <2>. QED BY <1>0, <2>1, <2>2
<1>10. \A tag : Opened(doc, O, el, tag, t + 1) = {}
  BY <1>1, <1>9 DEF Siblings
<1>. QED BY <1>5, <1>7, <1>8, <1>10 DEF CountsGrow

\* The frames of a stack, one for each open element.
TagNames(doc) == {doc[el].tag : el \in 1 .. Len(doc)}

Frames(doc) ==
    [tag : TagNames(doc), path : Seq(Steps(doc)), start : Nat,
     counts : UNION {[S -> Nat] : S \in SUBSET TagNames(doc)}]

FrameIs(doc, paths, O, t, d, frame) ==
    /\ frame.tag = doc[d].tag /\ frame.path = paths[d] /\ frame.start = O[d]
    /\ paths[d] # NoPath => \A tag :
         Counted(frame.counts, tag) = Cardinality(Opened(doc, O, d, tag, t))

StackIs(doc, above, paths, O, t, open, stack) ==
    /\ stack \in Seq(Frames(doc)) /\ Len(stack) = Cardinality(open)
    /\ \A d \in open : /\ Depth(above, d) \in 1 .. Len(stack)
                       /\ FrameIs(doc, paths, O, t, d, stack[Depth(above, d)])

\* The spans of the elements that were closed.
SpansAre(doc, paths, O, C, closed, spans) ==
    /\ DOMAIN spans = {paths[d] : d \in closed} \ {NoPath}
    /\ \A d \in closed : paths[d] # NoPath => spans[paths[d]] = <<O[d], C[d]>>

\* The state of the parser after t tags.
HasParsed(doc, above, paths, O, C, t, acc) ==
    /\ acc = [stack |-> acc.stack, units |-> acc.units, spans |-> acc.spans]
    /\ acc.units = Cardinality(Opened(doc, O, 1, "unit", t))
    /\ StackIs(doc, above, paths, O, t, OpenAt(doc, O, C, t), acc.stack)
    /\ SpansAre(doc, paths, O, C, ClosedAt(doc, C, t), acc.spans)

\* Counting a name changes no other count.
LEMMA CountsAreKept ==
    ASSUME NEW doc, NEW counts \in UNION {[S -> Nat] : S \in SUBSET TagNames(doc)},
           NEW tag \in TagNames(doc), NEW v \in Nat
    PROVE  /\ Put(counts, tag, v) \in UNION {[S -> Nat] : S \in SUBSET TagNames(doc)}
           /\ Counted(Put(counts, tag, v), tag) = v
           /\ \A g : g # tag => Counted(Put(counts, tag, v), g) = Counted(counts, g)
           /\ \A g : Counted(counts, g) \in Nat
<1>. DEFINE new == Put(counts, tag, v)
<1>1. PICK S \in SUBSET TagNames(doc) : counts \in [S -> Nat]
  OBVIOUS
<1>2. new \in [S \cup {tag} -> Nat] /\ S \cup {tag} \in SUBSET TagNames(doc)
  BY <1>1 DEF Put
<1>3. new[tag] = v /\ \A g \in S : g # tag => new[g] = counts[g]
  BY <1>1 DEF Put
<1>4. new \in UNION {[R -> Nat] : R \in SUBSET TagNames(doc)}
  BY <1>2
<1>. HIDE DEF new
<1>. QED BY <1>1, <1>2, <1>3, <1>4 DEF Counted, new

\* A start tag keeps it: start_element in xml_spans.py.
LEMMA ElementOpens ==
    ASSUME NEW doc, IsDocument(doc), NEW above, IsNested(doc, above),
           NEW paths, PathsFollow(doc, paths), NEW tags, NEW O, NEW C,
           StandIn(doc, tags, O, C), AreNested(doc, above, O, C),
           NEW el \in 1 .. Len(doc), NEW t, t = O[el] - 1,
           NEW acc, HasParsed(doc, above, paths, O, C, t, acc)
    PROVE  HasParsed(doc, above, paths, O, C, t + 1,
                     OpenElement(doc, TRUE, acc, doc[el].tag, t + 1))
<1>. DEFINE n == Len(doc)
            g == doc[el].tag
            p == doc[el].parent
            open == OpenAt(doc, O, C, t)
            s == acc.stack
            top == Last(s)
            single == IsSingleFileRoot(doc)
            nested == Len(s) = 1 /\ ~single /\ top.tag = "unit" /\ g = "unit"
            counted == s # <<>> /\ ~nested /\ top.path # NoPath
            number == Counted(top.counts, g) + 1
            path == IF s = <<>> THEN (IF single THEN UnitPath(1) ELSE NoPath)
                    ELSE IF nested THEN UnitPath(acc.units + 1)
                    ELSE IF counted THEN Append(top.path, <<g, number>>)
                    ELSE NoPath
            grown == [top EXCEPT !.counts = Put(@, g, number)]
            frames == IF counted THEN Append(Front(s), grown) ELSE s
            none == [x \in {} |-> 0]
            frame == [tag |-> g, path |-> path, start |-> t + 1, counts |-> none]
            after == OpenElement(doc, TRUE, acc, g, t + 1)
<1>1. /\ IsShaped(doc) /\ n \in Nat /\ el \in Nat /\ (el = 1 \/ el \in 2 .. n)
      /\ doc[1].parent = 0 /\ doc[1].tag = "unit" /\ 1 \in 1 .. n
      /\ el # 1 => p \in 1 .. n /\ p < el /\ p # 0
  BY DocumentShape DEF IsShaped
<1>2. t \in Nat /\ t + 1 = O[el] /\ t + 1 \in Nat
  <2>1. O[el] \in Nat \ {0}
    BY TagsDiffer
  <2>. QED BY <2>1
<1>3. /\ open = above[el] \ {el} /\ OpenAt(doc, O, C, t + 1) = above[el]
      /\ ClosedAt(doc, C, t + 1) = ClosedAt(doc, C, t)
  BY AtOpening
<1>4. /\ acc = [stack |-> s, units |-> acc.units, spans |-> acc.spans]
      /\ acc.units = Cardinality(Opened(doc, O, 1, "unit", t))
      /\ StackIs(doc, above, paths, O, t, open, s)
      /\ SpansAre(doc, paths, O, C, ClosedAt(doc, C, t), acc.spans)
  BY DEF HasParsed
<1>5. after = [stack |-> Append(frames, frame),
               units |-> IF nested THEN acc.units + 1 ELSE acc.units, spans |-> acc.spans]
  <2>1. after = [acc EXCEPT !.units = IF nested THEN @ + 1 ELSE @, !.stack = Append(frames, frame)]
    BY DEF OpenElement
  <2>. HIDE DEF after, frames, frame, nested, s
  <2>. QED BY <1>4, <2>1
<1>6. /\ s \in Seq(Frames(doc)) /\ Len(s) \in Nat
      /\ \A d \in open : /\ Depth(above, d) \in 1 .. Len(s) /\ d \in 1 .. n
                         /\ FrameIs(doc, paths, O, t, d, s[Depth(above, d)])
  <2>1. s \in Seq(Frames(doc))
    BY <1>4 DEF StackIs
  <2>2. Len(s) \in Nat
    BY <2>1
  <2>. HIDE DEF s
  <2>. QED BY <1>4, <2>1, <2>2 DEF StackIs, OpenAt
<1>7. /\ Depth(above, el) = Len(s) + 1
      /\ \A d \in open : el # 1 /\ (d = p \/ Depth(above, d) < Depth(above, p))
      /\ el = 1 => open = {} /\ Len(s) = 0
      /\ el # 1 => p \in open /\ Len(s) = Depth(above, p) /\ Depth(above, p) \in Nat \ {0}
  <2>1. /\ \A x \in 1 .. n : IsFiniteSet(above[x]) /\ Depth(above, x) \in Nat \ {0}
        /\ \A x \in 2 .. n : Depth(above, x) = Depth(above, doc[x].parent) + 1
        /\ \A x \in 1 .. n : \A b \in above[x] : b = x \/ Depth(above, b) < Depth(above, x)
    BY <1>1, DepthsGoUp
  <2>2. Len(s) = Cardinality(open)
    BY <1>4 DEF StackIs
  <2>3. CASE el = 1
    <3>1. open = {}
      BY <1>3, <2>3 DEF IsNested
    <3>2. Len(s) = 0
      BY <2>2, <3>1, FS_EmptySet
    <3>3. Depth(above, el) = 1
      BY <1>1, <2>3, DepthsGoUp
    <3>. QED BY <2>3, <3>1, <3>2, <3>3
  <2>4. CASE el # 1
    <3>1. above[el] = {el} \cup above[p] /\ above[p] \subseteq 1 .. p /\ p \in above[p]
      BY <1>1, <2>4 DEF IsNested
    <3>2. open = above[p]
      BY <1>1, <1>3, <2>4, <3>1
    <3>3. Len(s) = Depth(above, p)
      BY <2>2, <3>2 DEF Depth
    <3>. QED BY <1>1, <2>1, <2>4, <3>1, <3>2, <3>3
  <2>. QED BY <2>3, <2>4
<1>8. el # 1 => /\ s # <<>> /\ top = s[Len(s)] /\ top \in Frames(doc)
                /\ FrameIs(doc, paths, O, t, p, top)
  <2>. SUFFICES ASSUME el # 1 PROVE s # <<>> /\ top = s[Len(s)] /\ top \in Frames(doc)
                                    /\ FrameIs(doc, paths, O, t, p, top)
    OBVIOUS
  <2>1. s # <<>>
    <3>1. Len(s) # 0
      BY <1>7
    <3>. QED BY <3>1
  <2>2. top = s[Len(s)] /\ top \in Frames(doc)
    BY <1>6, <2>1, FrontOfSequence
  <2>. HIDE DEF top
  <2>. QED BY <1>6, <1>7, <2>1, <2>2
<1>9. el = 1 => s = <<>>
  BY <1>6, <1>7
<1>. HIDE DEF s, after, open
<1>10. nested <=> el # 1 /\ ~single /\ IsUnit(doc, el)
  <2>1. CASE el = 1
    BY <1>7, <2>1
  <2>2. CASE el # 1
    <3>1. Len(s) = 1 <=> p = 1
      <4>1. p # 1 => p \in 2 .. n /\ doc[p].parent \in 1 .. n
        BY <1>1, <2>2 DEF IsShaped
      <4>2. /\ \A x \in 1 .. n : Depth(above, x) \in Nat \ {0}
            /\ \A x \in 2 .. n : Depth(above, x) = Depth(above, doc[x].parent) + 1
            /\ Depth(above, 1) = 1
        BY <1>1, DepthsGoUp
      <4>3. p # 1 => Depth(above, p) # 1
        BY <4>1, <4>2
      <4>. QED BY <1>7, <2>2, <4>2, <4>3
    <3>2. top.tag = doc[p].tag
      BY <1>8, <2>2 DEF FrameIs
    <3>. HIDE DEF top
    <3>. QED BY <1>1, <2>2, <3>1, <3>2 DEF IsUnit
  <2>. QED BY <2>1, <2>2
<1>11. counted <=> el # 1 /\ ~nested /\ paths[p] # NoPath
  BY <1>8, <1>9 DEF FrameIs
<1>12. /\ Cardinality(Opened(doc, O, p, g, t)) \in Nat
       /\ Cardinality(Opened(doc, O, p, g, t)) + 1 = Numbered(doc, el)
       /\ Cardinality(Opened(doc, O, p, g, t + 1)) = Numbered(doc, el)
       /\ \A parent, tag : parent # p \/ tag # g
            => Opened(doc, O, parent, tag, t + 1) = Opened(doc, O, parent, tag, t)
       /\ \A tag : Opened(doc, O, el, tag, t + 1) = {}
  <2>1. CountsGrow(doc, O, el, p, g, t)
    BY OpenedGrows
  <2>. HIDE DEF p, g
  <2>. QED BY <2>1 DEF CountsGrow
<1>. HIDE DEF nested, counted, top
<1>13. counted => number = Numbered(doc, el)
  BY <1>8, <1>11, <1>12 DEF FrameIs
<1>14. path = paths[el]
  <2>1. CASE el = 1
    <3>1. Numbered(doc, 1) = 1
      <4>1. Siblings(doc, 0, "unit", 1) = {1}
        BY <1>1 DEF Siblings
      <4>2. Numbered(doc, 1) = Cardinality(Siblings(doc, doc[1].parent, doc[1].tag, 1))
        BY <1>1, SiblingsAreNumbered
      <4>3. Cardinality({1}) = 1
        BY FS_Singleton
      <4>. QED BY <1>1, <4>1, <4>2, <4>3
    <3>2. IsUnit(doc, 1) <=> single
      BY <1>1 DEF IsUnit
    <3>. QED BY <1>1, <1>9, <2>1, <3>1, <3>2 DEF PathsFollow, UnitPath, Step
  <2>2. CASE el # 1 /\ nested
    <3>1. p = 1 /\ g = "unit" /\ IsUnit(doc, el)
      BY <1>10, <2>2 DEF IsUnit
    <3>2. acc.units + 1 = Numbered(doc, el)
      BY <1>4, <1>12, <3>1
    <3>. QED BY <1>8, <2>2, <3>1, <3>2 DEF PathsFollow, UnitPath, Step
  <2>3. CASE el # 1 /\ ~nested
    <3>1. el \in 2 .. n /\ ~IsUnit(doc, el)
      BY <1>1, <1>10, <2>3 DEF IsUnit
    <3>2. paths[el] = IF paths[p] = NoPath THEN NoPath ELSE Append(paths[p], <<g, Numbered(doc, el)>>)
      BY <3>1 DEF PathsFollow, Step
    <3>3. top.path = paths[p]
      BY <1>8, <2>3 DEF FrameIs
    <3>. HIDE DEF number
    <3>. QED BY <1>8, <1>11, <1>13, <2>3, <3>2, <3>3
  <2>. QED BY <2>1, <2>2, <2>3
<1>. HIDE DEF path
<1>15. /\ frames \in Seq(Frames(doc)) /\ Len(frames) = Len(s)
       /\ \A d \in open : FrameIs(doc, paths, O, t + 1, d, frames[Depth(above, d)])
  <2>1. ASSUME NEW d \in open, d # p
        PROVE  FrameIs(doc, paths, O, t + 1, d, s[Depth(above, d)])
    BY <1>6, <1>12, <2>1 DEF FrameIs
  <2>2. CASE ~counted
    <3>1. frames = s
      BY <2>2
    <3>2. ASSUME p \in open PROVE paths[p] = NoPath
      <4>1. el # 1
        BY <1>7, <3>2
      <4>2. nested => p = 1 /\ ~single
        BY <1>10 DEF IsUnit
      <4>3. ~single => paths[1] = NoPath
        BY <1>1 DEF PathsFollow, IsUnit
      <4>. QED BY <1>11, <2>2, <4>1, <4>2, <4>3
    <3>3. ASSUME p \in open PROVE FrameIs(doc, paths, O, t + 1, p, s[Depth(above, p)])
      BY <1>6, <3>2, <3>3 DEF FrameIs
    <3>. HIDE DEF frames
    <3>. QED BY <1>6, <2>1, <3>1, <3>3
  <2>3. CASE counted
    <3>1. el # 1 /\ paths[p] # NoPath
      BY <1>11, <2>3
    <3>2. s # <<>> /\ top = s[Len(s)] /\ top \in Frames(doc) /\ FrameIs(doc, paths, O, t, p, top)
      BY <1>8, <3>1
    <3>3. number \in Nat /\ g \in TagNames(doc) /\ number = Numbered(doc, el)
      BY <1>1, <1>13, <2>3, SiblingsAreNumbered DEF TagNames
    <3>. HIDE DEF number
    <3>4. top.counts \in UNION {[S -> Nat] : S \in SUBSET TagNames(doc)}
      BY <3>2 DEF Frames
    <3>5. /\ Put(top.counts, g, number) \in UNION {[S -> Nat] : S \in SUBSET TagNames(doc)}
          /\ Counted(Put(top.counts, g, number), g) = number
          /\ \A tag : tag # g =>
               Counted(Put(top.counts, g, number), tag) = Counted(top.counts, tag)
      BY <3>3, <3>4, CountsAreKept
    <3>6. /\ grown.tag = top.tag /\ grown.path = top.path /\ grown.start = top.start
          /\ grown.counts = Put(top.counts, g, number)
          /\ grown \in Frames(doc)
      BY <3>2, <3>5 DEF Frames
    <3>. HIDE DEF grown
    <3>7. FrameIs(doc, paths, O, t + 1, p, grown)
      <4>1. \A tag : Counted(grown.counts, tag) = Cardinality(Opened(doc, O, p, tag, t + 1))
        BY <1>12, <3>1, <3>2, <3>3, <3>5, <3>6 DEF FrameIs
      <4>. QED BY <3>2, <3>6, <4>1 DEF FrameIs
    <3>8. /\ Front(s) \in Seq(Frames(doc)) /\ Len(Front(s)) = Len(s) - 1 /\ Len(s) \in Nat \ {0}
          /\ \A k \in 1 .. (Len(s) - 1) : Front(s)[k] = s[k]
      BY <1>6, <3>2, FrontOfSequence
    <3>9. /\ frames \in Seq(Frames(doc)) /\ Len(frames) = (Len(s) - 1) + 1
          /\ \A k \in 1 .. (Len(s) - 1) : frames[k] = Front(s)[k]
          /\ frames[(Len(s) - 1) + 1] = grown
      <4>1. frames = Append(Front(s), grown)
        BY <2>3
      <4>. HIDE DEF frames
      <4>. QED BY <3>6, <3>8, <4>1, AppendedToSequence
    <3>. HIDE DEF frames
    <3>10. (Len(s) - 1) + 1 = Len(s)
      BY <3>8
    <3>11. ASSUME NEW d \in open
           PROVE  FrameIs(doc, paths, O, t + 1, d, frames[Depth(above, d)])
      <4>1. CASE d = p
        BY <1>7, <3>1, <3>7, <3>9, <3>10, <4>1
      <4>2. CASE d # p
        <5>1. Depth(above, d) \in 1 .. Len(s) /\ Depth(above, d) < Len(s)
          BY <1>6, <1>7, <3>1, <4>2
        <5>2. Depth(above, d) \in 1 .. (Len(s) - 1)
          BY <3>8, <5>1
        <5>3. frames[Depth(above, d)] = s[Depth(above, d)]
          BY <3>8, <3>9, <5>2
        <5>. QED BY <2>1, <4>2, <5>3
      <4>. QED BY <4>1, <4>2
    <3>. QED BY <3>9, <3>10, <3>11
  <2>. QED BY <2>2, <2>3
<1>16. frame \in Frames(doc) /\ FrameIs(doc, paths, O, t + 1, el, frame)
  <2>1. none \in UNION {[S -> Nat] : S \in SUBSET TagNames(doc)} /\ \A tag : Counted(none, tag) = 0
    <3>1. none \in [{} -> Nat] /\ {} \in SUBSET TagNames(doc) /\ DOMAIN none = {}
      OBVIOUS
    <3>. HIDE DEF none
    <3>2. none \in UNION {[S -> Nat] : S \in SUBSET TagNames(doc)}
      BY <3>1
    <3>. QED BY <3>1, <3>2 DEF Counted
  <2>2. g \in TagNames(doc) /\ path \in Seq(Steps(doc))
    BY <1>14 DEF TagNames, PathsFollow
  <2>3. \A tag : Cardinality(Opened(doc, O, el, tag, t + 1)) = 0
    BY <1>12, FS_EmptySet
  <2>. HIDE DEF none
  <2>. QED BY <1>2, <1>14, <2>1, <2>2, <2>3 DEF Frames, FrameIs
<1>. HIDE DEF frame, frames
<1>17. (IF nested THEN acc.units + 1 ELSE acc.units) = Cardinality(Opened(doc, O, 1, "unit", t + 1))
  <2>1. CASE nested
    <3>1. p = 1 /\ g = "unit"
      BY <1>10, <2>1 DEF IsUnit
    <3>. QED BY <1>4, <1>12, <2>1, <3>1
  <2>2. CASE ~nested
    <3>1. ~(p = 1 /\ g = "unit")
      <4>1. single => \A x \in 2 .. n : doc[x].parent = 1 => doc[x].tag # "unit"
        BY DEF IsDocument
      <4>. QED BY <1>1, <1>10, <2>2, <4>1 DEF IsUnit
    <3>2. Opened(doc, O, 1, "unit", t + 1) = Opened(doc, O, 1, "unit", t)
      BY <1>12, <3>1
    <3>. QED BY <1>4, <2>2, <3>2
  <2>. QED BY <2>1, <2>2
<1>18. StackIs(doc, above, paths, O, t + 1, above[el], Append(frames, frame))
  <2>. DEFINE r == Append(frames, frame)
  <2>1. /\ r \in Seq(Frames(doc)) /\ Len(r) = Len(s) + 1
        /\ \A k \in 1 .. Len(s) : r[k] = frames[k]
        /\ r[Len(s) + 1] = frame
    BY <1>15, <1>16, AppendedToSequence
  <2>. HIDE DEF r
  <2>2. Len(r) = Cardinality(above[el])
    BY <1>7, <2>1 DEF Depth
  <2>3. ASSUME NEW d \in above[el]
        PROVE  Depth(above, d) \in 1 .. Len(r) /\ FrameIs(doc, paths, O, t + 1, d, r[Depth(above, d)])
    <3>1. CASE d = el
      <4>1. Len(s) + 1 \in 1 .. Len(r)
        BY <1>6, <2>1
      <4>. QED BY <1>7, <1>16, <2>1, <3>1, <4>1
    <3>2. CASE d # el
      <4>1. d \in open
        BY <1>3, <3>2
      <4>2. Depth(above, d) \in 1 .. Len(s) /\ Depth(above, d) \in 1 .. Len(r)
        BY <1>6, <2>1, <4>1
      <4>. QED BY <1>15, <2>1, <4>1, <4>2
    <3>. QED BY <3>1, <3>2
  <2>. QED BY <2>1, <2>2, <2>3 DEF StackIs, r
<1>. DEFINE r == Append(frames, frame)
            units == IF nested THEN acc.units + 1 ELSE acc.units
<1>19. /\ after.stack = r /\ after.units = units /\ after.spans = acc.spans
       /\ after = [stack |-> after.stack, units |-> after.units, spans |-> after.spans]
  <2>1. after = [stack |-> r, units |-> units, spans |-> acc.spans]
    BY <1>5
  <2>. HIDE DEF r, units
  <2>. QED BY <2>1
<1>20. HasParsed(doc, above, paths, O, C, t + 1, after)
  <2>. HIDE DEF r, units
  <2>1. units = Cardinality(Opened(doc, O, 1, "unit", t + 1))
    BY <1>17 DEF units
  <2>2. StackIs(doc, above, paths, O, t + 1, OpenAt(doc, O, C, t + 1), r)
    BY <1>3, <1>18 DEF r
  <2>. QED BY <1>3, <1>4, <1>19, <2>1, <2>2 DEF HasParsed
<1>. QED BY <1>20 DEF after

\* An end tag keeps it: end_element in xml_spans.py.
LEMMA ElementCloses ==
    ASSUME NEW doc, IsDocument(doc), NEW above, IsNested(doc, above),
           NEW paths, PathsFollow(doc, paths), NEW tags, NEW O, NEW C,
           StandIn(doc, tags, O, C), AreNested(doc, above, O, C),
           NEW el \in 1 .. Len(doc), NEW t, t = C[el] - 1,
           NEW acc, HasParsed(doc, above, paths, O, C, t, acc)
    PROVE  HasParsed(doc, above, paths, O, C, t + 1, CloseElement(acc, t + 1))
<1>. DEFINE n == Len(doc)
            s == acc.stack
            frame == Last(s)
            old == acc.spans
            spans == IF frame.path = NoPath THEN old ELSE Put(old, frame.path, <<frame.start, t + 1>>)
            closed == ClosedAt(doc, C, t)
            after == CloseElement(acc, t + 1)
<1>1. t \in Nat /\ t + 1 = C[el]
  <2>1. C[el] \in Nat \ {0}
    BY TagsDiffer
  <2>. QED BY <2>1
<1>2. /\ OpenAt(doc, O, C, t) = above[el] /\ OpenAt(doc, O, C, t + 1) = above[el] \ {el}
      /\ ClosedAt(doc, C, t + 1) = closed \cup {el}
  BY AtClosing
<1>3. \A parent, tag : Opened(doc, O, parent, tag, t + 1) = Opened(doc, O, parent, tag, t)
  BY AtClosing
<1>4. /\ acc = [stack |-> s, units |-> acc.units, spans |-> old]
      /\ acc.units = Cardinality(Opened(doc, O, 1, "unit", t))
      /\ StackIs(doc, above, paths, O, t, above[el], s)
      /\ SpansAre(doc, paths, O, C, closed, old)
  BY <1>2 DEF HasParsed
<1>5. after = [stack |-> Front(s), units |-> acc.units, spans |-> spans]
  <2>1. after = [acc EXCEPT !.stack = Front(@), !.spans = spans]
    BY DEF CloseElement
  <2>. HIDE DEF after, spans
  <2>. QED BY <1>4, <2>1
<1>6. /\ s \in Seq(Frames(doc)) /\ Len(s) = Depth(above, el)
      /\ \A d \in above[el] : /\ Depth(above, d) \in 1 .. Len(s)
                              /\ FrameIs(doc, paths, O, t, d, s[Depth(above, d)])
  BY <1>4 DEF StackIs, Depth
<1>7. /\ IsShaped(doc) /\ el \in above[el] /\ above[el] \subseteq 1 .. el
      /\ IsFiniteSet(above[el]) /\ Depth(above, el) \in Nat \ {0}
      /\ \A d \in above[el] : d = el \/ Depth(above, d) < Depth(above, el)
  BY DocumentShape, DepthsGoUp DEF IsNested
<1>8. /\ s # <<>> /\ Front(s) \in Seq(Frames(doc)) /\ Len(Front(s)) = Len(s) - 1
      /\ \A k \in 1 .. (Len(s) - 1) : Front(s)[k] = s[k]
      /\ FrameIs(doc, paths, O, t, el, frame)
  <2>1. s # <<>>
    BY <1>6, <1>7
  <2>2. frame = s[Len(s)]
    BY <1>6, <2>1, FrontOfSequence
  <2>. HIDE DEF frame, s
  <2>3. FrameIs(doc, paths, O, t, el, frame)
    BY <1>6, <1>7, <2>2
  <2>. QED BY <1>6, <2>1, <2>3, FrontOfSequence
<1>. HIDE DEF frame, s, old, closed
<1>9. StackIs(doc, above, paths, O, t + 1, above[el] \ {el}, Front(s))
  <2>. DEFINE r == Front(s)
  <2>1. Len(r) = Cardinality(above[el] \ {el})
    BY <1>6, <1>7, <1>8, FS_RemoveElement DEF Depth
  <2>2. ASSUME NEW d \in above[el] \ {el}
        PROVE  Depth(above, d) \in 1 .. Len(r) /\ FrameIs(doc, paths, O, t + 1, d, r[Depth(above, d)])
    <3>1. Depth(above, d) \in 1 .. Len(s) /\ Depth(above, d) < Len(s)
      BY <1>6, <1>7
    <3>2. Depth(above, d) \in 1 .. (Len(s) - 1)
      BY <1>6, <1>7, <3>1
    <3>3. r[Depth(above, d)] = s[Depth(above, d)]
      BY <1>8, <3>2
    <3>4. FrameIs(doc, paths, O, t, d, r[Depth(above, d)])
      BY <1>6, <3>3
    <3>5. FrameIs(doc, paths, O, t + 1, d, r[Depth(above, d)])
      BY <1>3, <3>4 DEF FrameIs
    <3>. QED BY <1>8, <3>2, <3>5
  <2>3. r \in Seq(Frames(doc))
    BY <1>8
  <2>. HIDE DEF r
  <2>. QED BY <2>1, <2>2, <2>3 DEF StackIs, r
<1>10. SpansAre(doc, paths, O, C, closed \cup {el}, spans)
  <2>0. frame.path = paths[el] /\ frame.start = O[el]
    BY <1>8 DEF FrameIs
  <2>1. /\ DOMAIN old = {paths[d] : d \in closed} \ {NoPath}
        /\ \A d \in closed : paths[d] # NoPath => old[paths[d]] = <<O[d], C[d]>>
        /\ closed \subseteq 1 .. n
    BY <1>4 DEF SpansAre, ClosedAt, closed
  <2>2. CASE paths[el] = NoPath
    <3>1. spans = old
      BY <2>0, <2>2
    <3>. HIDE DEF spans
    <3>. QED BY <2>1, <2>2, <3>1 DEF SpansAre
  <2>3. CASE paths[el] # NoPath
    <3>1. spans = Put(old, paths[el], <<O[el], C[el]>>)
      BY <1>1, <2>0, <2>3
    <3>. HIDE DEF spans
    <3>2. DOMAIN spans = DOMAIN old \cup {paths[el]} /\ spans[paths[el]] = <<O[el], C[el]>>
      BY <3>1 DEF Put
    <3>3. \A d \in closed : paths[d] # NoPath /\ d # el => spans[paths[d]] = <<O[d], C[d]>>
      <4>. SUFFICES ASSUME NEW d \in closed, paths[d] # NoPath, d # el
                    PROVE  spans[paths[d]] = <<O[d], C[d]>>
        OBVIOUS
      <4>1. paths[d] # paths[el]
        BY <2>1, <2>3, PathsDiffer
      <4>2. paths[d] \in DOMAIN old
        BY <2>1
      <4>. QED BY <2>1, <3>1, <4>1, <4>2 DEF Put
    <3>4. DOMAIN spans = {paths[d] : d \in closed \cup {el}} \ {NoPath}
      BY <2>1, <2>3, <3>2
    <3>. QED BY <3>2, <3>3, <3>4 DEF SpansAre
  <2>. QED BY <2>2, <2>3
<1>11. Opened(doc, O, 1, "unit", t + 1) = Opened(doc, O, 1, "unit", t)
  BY <1>3
<1>. DEFINE r == Front(s)
<1>. HIDE DEF spans, after, r
<1>12. /\ after.stack = r /\ after.units = acc.units /\ after.spans = spans
       /\ after = [stack |-> after.stack, units |-> after.units, spans |-> after.spans]
  BY <1>5 DEF r
<1>13. HasParsed(doc, above, paths, O, C, t + 1, after)
  BY <1>2, <1>4, <1>9, <1>10, <1>11, <1>12 DEF HasParsed, r
<1>. QED BY <1>13 DEF after

\* What the index holds, once the last tag is read.
LEMMA IndexIsBuilt ==
    ASSUME NEW doc, IsDocument(doc), NEW O, NEW C, StandIn(doc, Tags(doc), O, C),
           AreNested(doc, Above(doc), O, C)
    PROVE  SpansAre(doc, Paths(doc), O, C, 1 .. Len(doc), BuildXmlSpanIndex(doc, TRUE))
<1>. DEFINE n == Len(doc)
            above == Above(doc)
            paths == Paths(doc)
            tags == Tags(doc)
            m == Len(tags)
            parsed == ParsedTo(doc, tags, TRUE)
            P == {t \in Nat : t <= m => HasParsed(doc, above, paths, O, C, t, parsed[t])}
<1>1. IsNested(doc, above) /\ PathsFollow(doc, paths) /\ StandIn(doc, tags, O, C)
      /\ AreNested(doc, above, O, C)
  BY DocumentShape, AboveIsThere, PathsAreThere
<1>2. BuildXmlSpanIndex(doc, TRUE) = parsed[m].spans
  BY DEF BuildXmlSpanIndex
<1>. HIDE DEF above, paths, tags
<1>3. m \in Nat /\ \A el \in 1 .. n : /\ O[el] \in 1 .. m /\ O[el] \in Nat \ {0}
                                      /\ C[el] \in 1 .. m /\ C[el] \in Nat \ {0}
  BY <1>1, TagsDiffer DEF StandIn
<1>4. /\ parsed[0] = NothingParsed
      /\ \A t \in 1 .. m : parsed[t] = ParsedStep(doc, tags, TRUE, parsed[t - 1], t)
  BY <1>3, ParsedIsThere
<1>. HIDE DEF parsed
<1>5. 0 \in P
  <2>. DEFINE acc == NothingParsed
  <2>1. acc = [stack |-> acc.stack, units |-> acc.units, spans |-> acc.spans]
        /\ acc.stack = <<>> /\ acc.units = 0 /\ DOMAIN acc.spans = {}
    BY DEF NothingParsed
  <2>2. /\ Opened(doc, O, 1, "unit", 0) = {} /\ OpenAt(doc, O, C, 0) = {}
        /\ ClosedAt(doc, C, 0) = {}
    BY <1>3 DEF Opened, OpenAt, ClosedAt
  <2>3. Cardinality({}) = 0
    BY FS_EmptySet
  <2>4. StackIs(doc, above, paths, O, 0, {}, <<>>)
    BY <2>3 DEF StackIs
  <2>5. SpansAre(doc, paths, O, C, {}, acc.spans)
    <3>. HIDE DEF acc
    <3>. QED BY <2>1 DEF SpansAre
  <2>6. parsed[0] = acc
    BY <1>4
  <2>. HIDE DEF acc
  <2>. QED BY <2>1, <2>2, <2>3, <2>4, <2>5, <2>6 DEF HasParsed
<1>6. ASSUME NEW k \in Nat, k \in P PROVE k + 1 \in P
  <2>. SUFFICES ASSUME k + 1 <= m PROVE HasParsed(doc, above, paths, O, C, k + 1, parsed[k + 1])
    OBVIOUS
  <2>1. k + 1 \in 1 .. m /\ (k + 1) - 1 = k /\ k <= m
    BY <1>3
  <2>2. HasParsed(doc, above, paths, O, C, k, parsed[k])
    BY <1>6, <2>1
  <2>3. parsed[k + 1] = ParsedStep(doc, tags, TRUE, parsed[k], k + 1)
    BY <1>4, <2>1
  <2>4. PICK el \in 1 .. n : \/ k + 1 = O[el] /\ tags[k + 1] = OpenTag(el)
                             \/ k + 1 = C[el] /\ tags[k + 1] = CloseTag(el)
    BY <1>1, <2>1 DEF StandIn
  <2>5. CASE k + 1 = O[el] /\ tags[k + 1] = OpenTag(el)
    <3>1. k = O[el] - 1
      BY <2>5
    <3>2. HasParsed(doc, above, paths, O, C, k + 1,
                    OpenElement(doc, TRUE, parsed[k], doc[el].tag, k + 1))
      BY <1>1, <2>2, <3>1, ElementOpens
    <3>3. tags[k + 1].opens = TRUE /\ tags[k + 1].el = el
      BY <2>5 DEF OpenTag
    <3>4. parsed[k + 1] = OpenElement(doc, TRUE, parsed[k], doc[el].tag, k + 1)
      BY <2>3, <3>3 DEF ParsedStep
    <3>. QED BY <3>2, <3>4
  <2>6. CASE k + 1 = C[el] /\ tags[k + 1] = CloseTag(el)
    <3>1. k = C[el] - 1
      BY <2>6
    <3>2. HasParsed(doc, above, paths, O, C, k + 1, CloseElement(parsed[k], k + 1))
      BY <1>1, <2>2, <3>1, ElementCloses
    <3>. QED BY <2>3, <2>6, <3>2 DEF ParsedStep, CloseTag
  <2>. QED BY <2>4, <2>5, <2>6
<1>7. \A k \in Nat : k \in P
  <2>. HIDE DEF P
  <2>. QED BY <1>5, <1>6, NatSetInduction
<1>8. HasParsed(doc, above, paths, O, C, m, parsed[m])
  <2>1. m \in P
    <3>. HIDE DEF P
    <3>. QED BY <1>3, <1>7
  <2>. QED BY <1>3, <2>1
<1>9. ClosedAt(doc, C, m) = 1 .. n
  BY <1>3 DEF ClosedAt
<1>. QED BY <1>2, <1>8, <1>9 DEF HasParsed, paths

-----------------------------------------------------------------------------
(* The trees of a document.                                                *)

\* The elements within a unit, in order, with their paths.
IsWalk(doc, above, paths, unit, walk) ==
    /\ Len(walk) \in Nat \ {0} /\ DOMAIN walk = 1 .. Len(walk)
    /\ walk[1].el = unit
    /\ \A k \in 1 .. Len(walk) : /\ walk[k].el \in 1 .. Len(doc) /\ unit \in above[walk[k].el]
                                 /\ walk[k].path = paths[walk[k].el]
    /\ \A el \in 1 .. Len(doc) : unit \in above[el] => \E k \in 1 .. Len(walk) : walk[k].el = el
    /\ \A j, k \in 1 .. Len(walk) : j < k <=> walk[j].el < walk[k].el

\* So a file unit is walked.
LEMMA UnitIsWalked ==
    ASSUME NEW doc, IsDocument(doc), NEW n \in DOMAIN FileUnits(doc)
    PROVE  /\ FileUnits(doc)[n] \in 1 .. Len(doc) /\ IsUnit(doc, FileUnits(doc)[n])
           /\ IsWalk(doc, Above(doc), Paths(doc), FileUnits(doc)[n], WalkUnit(doc, n, TRUE))
<1>. DEFINE unit == FileUnits(doc)[n]
            above == Above(doc)
            paths == Paths(doc)
            S == {el \in ElementsIn(doc, unit) : TRUE}
            met == Positions(doc, S)
            walk == WalkUnit(doc, n, TRUE)
            N == Len(doc)
<1>1. IsShaped(doc) /\ IsNested(doc, above) /\ N \in Nat /\ DOMAIN doc = 1 .. N
  BY DocumentShape, AboveIsThere DEF IsShaped
<1>2. unit \in FileUnitsIn(doc)
  <2>1. FileUnitsIn(doc) \subseteq 1 .. N
    BY UnitsAreThere
  <2>2. IsFiniteSet(1 .. N)
    BY <1>1, FS_Interval
  <2>3. IsFiniteSet(FileUnitsIn(doc)) /\ FileUnitsIn(doc) \subseteq Int
    BY <1>1, <2>1, <2>2, FS_Subset
  <2>4. ToSet(FileUnits(doc)) = FileUnitsIn(doc)
    BY <2>3, SortedNumbers DEF FileUnits
  <2>. QED BY <2>4 DEF ToSet
<1>3. unit \in 1 .. N /\ IsUnit(doc, unit)
  BY <1>2, UnitsAreThere
<1>4. walk = [k \in DOMAIN met |-> [el |-> met[k], path |-> paths[met[k]]]]
  <2>1. S = {el \in ElementsIn(doc, unit) :
               ~(~TRUE /\ \E a \in Above(doc)[el] : unit < a /\ doc[a].tag \in SKIPPED_TREE_TAGS)}
    OBVIOUS
  <2>. HIDE DEF S
  <2>. QED BY <2>1 DEF WalkUnit
<1>5. S \cap DOMAIN doc = {el \in 1 .. N : unit \in above[el]}
  BY <1>1 DEF ElementsIn
<1>. HIDE DEF S, unit, above, paths
<1>. DEFINE at == {el \in 1 .. N : unit \in above[el]}
            T == ToSet(doc)
<1>6. /\ at \subseteq Nat \ {0} /\ IsFiniteSet(at) /\ Cardinality(at) \in Nat
      /\ met \in Seq(at) /\ Len(met) = Cardinality(at) /\ DOMAIN met = 1 .. Cardinality(at)
      /\ ToSet(met) = at
      /\ \A i, j \in DOMAIN met : i < j <=> met[i] < met[j]
  <2>1. doc \in Seq(T)
    BY DEF IsDocument
  <2>. HIDE DEF T
  <2>. QED BY <1>5, <2>1, PositionsOf
<1>. HIDE DEF met, walk
<1>7. /\ DOMAIN walk = 1 .. Cardinality(at) /\ Len(walk) = Cardinality(at)
      /\ \A k \in 1 .. Cardinality(at) : walk[k].el = met[k] /\ walk[k].path = paths[met[k]]
      /\ \A k \in 1 .. Cardinality(at) : met[k] \in at
  <2>. DEFINE c == Cardinality(at)
  <2>1. /\ c \in Nat /\ DOMAIN met = 1 .. c /\ met \in Seq(at) /\ Len(met) = c
    BY <1>6
  <2>. HIDE DEF at, c
  <2>2. walk = [k \in 1 .. c |-> [el |-> met[k], path |-> paths[met[k]]]]
    BY <1>4, <2>1
  <2>3. DOMAIN walk = 1 .. c
    BY <2>2
  <2>4. Len(walk) = c
    BY <2>1, <2>2
  <2>5. \A k \in 1 .. c : walk[k].el = met[k] /\ walk[k].path = paths[met[k]]
    BY <2>2
  <2>6. \A k \in 1 .. c : met[k] \in at
    BY <2>1
  <2>. QED BY <2>3, <2>4, <2>5, <2>6 DEF c
<1>8. unit \in at /\ \A el \in at : unit <= el
  BY <1>1, <1>3 DEF IsNested
<1>9. \A el \in at : \E k \in 1 .. Cardinality(at) : met[k] = el
  BY <1>6 DEF ToSet
<1>10. Cardinality(at) # 0 /\ met[1] = unit
  <2>1. PICK k \in 1 .. Cardinality(at) : met[k] = unit
    BY <1>8, <1>9
  <2>2. 1 \in 1 .. Cardinality(at) /\ (k = 1 \/ 1 < k)
    BY <1>6, <2>1
  <2>3. ~(met[1] < unit)
    BY <1>6, <1>7, <1>8, <2>2
  <2>4. 1 < k => met[1] < met[k]
    BY <1>6, <2>2
  <2>. QED BY <2>1, <2>2, <2>3, <2>4
<1>11. IsWalk(doc, above, paths, unit, walk)
  <2>1. 1 \in 1 .. Cardinality(at)
    BY <1>6, <1>10
  <2>2. \A k \in 1 .. Len(walk) : /\ walk[k].el \in 1 .. N /\ unit \in above[walk[k].el]
                                  /\ walk[k].path = paths[walk[k].el]
    BY <1>7
  <2>3. \A el \in 1 .. N : unit \in above[el] => \E k \in 1 .. Len(walk) : walk[k].el = el
    BY <1>7, <1>9
  <2>4. \A j, k \in 1 .. Len(walk) : j < k <=> walk[j].el < walk[k].el
    BY <1>6, <1>7
  <2>. QED BY <1>6, <1>7, <1>10, <2>1, <2>2, <2>3, <2>4 DEF IsWalk
<1>. QED BY <1>3, <1>11 DEF unit, above, paths, walk

\* Whatever is within a file unit has a path, one step longer than its parent's.
LEMMA UnitsHavePaths ==
    ASSUME NEW doc, IsDocument(doc), NEW above, IsNested(doc, above),
           NEW paths, PathsFollow(doc, paths), NEW unit \in 1 .. Len(doc), IsUnit(doc, unit)
    PROVE  /\ \A el \in 1 .. Len(doc) : unit \in above[el] => paths[el] # NoPath
           /\ \A el \in 1 .. Len(doc) : unit \in above[el] /\ el # unit =>
                /\ doc[el].parent \in 1 .. Len(doc) /\ unit \in above[doc[el].parent]
                /\ doc[el].parent < el /\ above[el] = {el} \cup above[doc[el].parent]
                /\ Front(paths[el]) = paths[doc[el].parent]
<1>. DEFINE n == Len(doc)
            up(el) == doc[el].parent
<1>1. n \in Nat /\ doc[1].parent = 0 /\ \A el \in 2 .. n : up(el) \in 1 .. n /\ up(el) < el
  BY DocumentShape DEF IsShaped
<1>2. \A el \in 1 .. n : el = 1 \/ el \in 2 .. n
  BY <1>1
<1>3. ASSUME NEW el \in 1 .. n, unit \in above[el], el # unit
      PROVE  /\ el \in 2 .. n /\ above[el] = {el} \cup above[up(el)] /\ unit \in above[up(el)]
             /\ ~IsUnit(doc, el)
  <2>1. el # 1
    BY <1>3 DEF IsNested
  <2>2. above[el] = {el} \cup above[up(el)] /\ unit \in above[up(el)]
    BY <1>2, <1>3, <2>1 DEF IsNested
  <2>3. ASSUME IsUnit(doc, el) PROVE FALSE
    <3>1. up(el) = 1 /\ up(unit) = 1
      BY <2>1, <2>3 DEF IsUnit
    <3>2. unit = 1
      BY <2>2, <3>1 DEF IsNested
    <3>. QED BY <1>1, <3>1, <3>2
  <2>. QED BY <1>2, <2>1, <2>2, <2>3
<1>. DEFINE P == {m \in Nat : \A el \in 1 .. n : el <= m /\ unit \in above[el] => paths[el] # NoPath}
<1>4. 0 \in P
  BY <1>1
<1>5. ASSUME NEW m \in Nat, m \in P PROVE m + 1 \in P
  <2>. SUFFICES ASSUME NEW el \in 1 .. n, el = m + 1, unit \in above[el] PROVE paths[el] # NoPath
    <3>1. \A el \in 1 .. n : el <= m + 1 => el <= m \/ el = m + 1
      BY <1>1
    <3>. QED BY <1>5, <3>1
  <2>1. CASE el = unit
    <3>1. paths[el] = <<Step(doc, el)>>
      BY <2>1 DEF PathsFollow
    <3>. QED BY <3>1 DEF NoPath
  <2>2. CASE el # unit
    <3>1. el \in 2 .. n /\ unit \in above[up(el)] /\ ~IsUnit(doc, el)
      BY <1>3, <2>2
    <3>2. up(el) \in 1 .. n /\ up(el) <= m
      BY <1>1, <3>1
    <3>3. paths[up(el)] # NoPath
      BY <1>5, <3>1, <3>2
    <3>4. paths[el] = Append(paths[up(el)], Step(doc, el))
      BY <3>1, <3>3 DEF PathsFollow
    <3>5. paths[up(el)] \in Seq(Steps(doc)) /\ Step(doc, el) \in Steps(doc)
      BY <3>2 DEF PathsFollow
    <3>. QED BY <3>4, <3>5, AppendedToSequence DEF NoPath
  <2>. QED BY <2>1, <2>2
<1>6. \A m \in Nat : m \in P
  <2>. HIDE DEF P
  <2>. QED BY <1>4, <1>5, NatSetInduction
<1>7. ASSUME NEW el \in 1 .. n, unit \in above[el] PROVE paths[el] # NoPath
  <2>1. n \in P
    <3>. HIDE DEF P
    <3>. QED BY <1>1, <1>6
  <2>2. el <= n
    BY <1>1
  <2>. QED BY <1>7, <2>1, <2>2
<1>8. ASSUME NEW el \in 1 .. n, unit \in above[el], el # unit
      PROVE  Front(paths[el]) = paths[up(el)]
  BY <1>3, <1>7, <1>8, PathsDiffer
<1>. QED BY <1>1, <1>3, <1>7, <1>8

\* A record with a field set to what it is.
LEMMA SetAsItIs ==
    ASSUME NEW f, NEW S, f = [x \in S |-> f[x]]
    PROVE  f = [f EXCEPT !.parent = @]
  OBVIOUS

\* A tree over a walk: where its nodes stand, and below which others.
IsTreeOver(doc, O, C, walk, nodes) ==
    /\ nodes \in Seq(ToSet(nodes)) /\ DOMAIN nodes = 1 .. Len(walk) /\ Len(nodes) = Len(walk)
    /\ \A k \in 1 .. Len(walk) : /\ nodes[k].path = walk[k].path
                                 /\ {"path", "parent", "xmlSpan"} \subseteq DOMAIN nodes[k]
                                 /\ nodes[k].xmlSpan = <<O[walk[k].el], C[walk[k].el]>>
                                 /\ nodes[k] = [nodes[k] EXCEPT !.parent = @]
    /\ nodes[1].parent = 0
    /\ \A k \in 2 .. Len(walk) : /\ nodes[k].parent \in 1 .. (k - 1)
                                 /\ walk[nodes[k].parent].el = doc[walk[k].el].parent

\* The node before with the front of the path is the parent.
UpGoes(doc, walk, k) ==
    LET j == CHOOSE j \in 1 .. (k - 1) : walk[j].path = Front(walk[k].path)
    IN  j \in 1 .. (k - 1) /\ walk[j].el = doc[walk[k].el].parent

LEMMA WalkGoesUp ==
    ASSUME NEW doc, IsDocument(doc), NEW above, IsNested(doc, above),
           NEW paths, PathsFollow(doc, paths), NEW unit \in 1 .. Len(doc), IsUnit(doc, unit),
           NEW walk, IsWalk(doc, above, paths, unit, walk), NEW k \in 2 .. Len(walk)
    PROVE  UpGoes(doc, walk, k)
<1>. DEFINE el == walk[k].el
            up == doc[el].parent
            j == CHOOSE j \in 1 .. (k - 1) : walk[j].path = Front(walk[k].path)
<1>1. /\ Len(walk) \in Nat \ {0} /\ k \in 1 .. Len(walk) /\ 1 \in 1 .. Len(walk) /\ 1 < k
      /\ \A i \in 1 .. (k - 1) : i \in 1 .. Len(walk)
  BY DEF IsWalk
<1>2. /\ el \in 1 .. Len(doc) /\ unit \in above[el] /\ walk[k].path = paths[el] /\ unit < el
  BY <1>1 DEF IsWalk
<1>3. /\ up \in 1 .. Len(doc) /\ unit \in above[up] /\ up < el /\ Front(paths[el]) = paths[up]
      /\ paths[up] # NoPath
  <2>1. el # unit
    BY <1>2, DocumentShape DEF IsShaped
  <2>. HIDE DEF el
  <2>. QED BY <1>2, <2>1, UnitsHavePaths
<1>4. PICK i \in 1 .. Len(walk) : walk[i].el = up
  BY <1>3 DEF IsWalk
<1>5. i \in 1 .. (k - 1) /\ walk[i].path = Front(walk[k].path)
  <2>1. i < k
    BY <1>1, <1>3, <1>4 DEF IsWalk
  <2>2. walk[i].path = paths[walk[i].el]
    BY DEF IsWalk
  <2>3. i \in 1 .. (k - 1)
    BY <1>1, <2>1
  <2>. QED BY <1>2, <1>3, <1>4, <2>2, <2>3
<1>6. j \in 1 .. (k - 1) /\ walk[j].path = Front(walk[k].path)
  BY <1>5
<1>. HIDE DEF j, el, up
<1>7. walk[j].el \in 1 .. Len(doc) /\ paths[walk[j].el] = paths[up]
  <2>1. j \in 1 .. Len(walk)
    BY <1>1, <1>6
  <2>. QED BY <1>2, <1>3, <1>6, <2>1 DEF IsWalk, el
<1>8. walk[j].el = up
  BY <1>3, <1>7, PathsDiffer
<1>. QED BY <1>6, <1>8 DEF UpGoes, j, up, el

\* The tree built for a file unit.
LEMMA TreeIsBuilt ==
    ASSUME NEW doc, IsDocument(doc), NEW n \in DOMAIN FileUnits(doc), NEW O, NEW C,
           StandIn(doc, Tags(doc), O, C), AreNested(doc, Above(doc), O, C)
    PROVE  IsTreeOver(doc, O, C, WalkUnit(doc, n, TRUE), BuildTree(doc, n, TRUE))
<1>. DEFINE above == Above(doc)
            paths == Paths(doc)
            unit == FileUnits(doc)[n]
            walk == WalkUnit(doc, n, TRUE)
            spans == BuildXmlSpanIndex(doc, TRUE)
            nodes == BuildTree(doc, n, TRUE)
            up(k) == CHOOSE j \in 1 .. (k - 1) : walk[j].path = Front(walk[k].path)
            span(k) == IF walk[k].path \in DOMAIN spans THEN spans[walk[k].path] ELSE NoSpan
            T == ToSet(nodes)
<1>1. IsNested(doc, above) /\ PathsFollow(doc, paths)
  BY DocumentShape, AboveIsThere, PathsAreThere
<1>2. unit \in 1 .. Len(doc) /\ IsUnit(doc, unit) /\ IsWalk(doc, above, paths, unit, walk)
  BY UnitIsWalked
<1>3. SpansAre(doc, paths, O, C, 1 .. Len(doc), spans)
  BY IndexIsBuilt
<1>. DEFINE node(k) == LET e == doc[walk[k].el] IN
              [path |-> walk[k].path, tag |-> e.tag, filename |-> e.filename,
               kind |-> NodeKind(e.tag, MoveId(e)), moveId |-> MoveId(e),
               from |-> e.from, to |-> e.to, pos |-> e.pos, xmlSpan |-> span(k),
               spans |-> <<NodePositions(doc, REVISION_0, TRUE)[walk[k].el],
                           NodePositions(doc, REVISION_1, TRUE)[walk[k].el]>>,
               parent |-> IF k = 1 THEN 0 ELSE up(k)]
<1>4. nodes = [k \in DOMAIN walk |-> node(k)]
  BY DEF BuildTree, TreeOfWalk
<1>5. \A k : /\ node(k).path = walk[k].path
             /\ {"path", "parent", "xmlSpan"} \subseteq DOMAIN node(k) /\ node(k).xmlSpan = span(k)
             /\ node(k).parent = (IF k = 1 THEN 0 ELSE up(k))
  <2>. HIDE DEF span, up, walk
  <2>. QED OBVIOUS
<1>6. \A k : node(k) = [node(k) EXCEPT !.parent = @]
  <2>. TAKE k
  <2>. DEFINE r == node(k)
  <2>1. r = [x \in DOMAIN r |-> r[x]]
    <3>. HIDE DEF span, up, walk
    <3>. QED OBVIOUS
  <2>. HIDE DEF node, r
  <2>2. r = [r EXCEPT !.parent = @]
    BY <2>1, SetAsItIs
  <2>. QED BY <2>2 DEF r
<1>. HIDE DEF walk, nodes, node, spans, above, paths, unit
<1>7. /\ DOMAIN walk = 1 .. Len(walk) /\ Len(walk) \in Nat \ {0}
      /\ \A k \in 1 .. Len(walk) : /\ walk[k].el \in 1 .. Len(doc) /\ unit \in above[walk[k].el]
                                   /\ walk[k].path = paths[walk[k].el]
  BY <1>2 DEF IsWalk
<1>8. ASSUME NEW k \in 1 .. Len(walk) PROVE span(k) = <<O[walk[k].el], C[walk[k].el]>>
  <2>1. paths[walk[k].el] # NoPath
    BY <1>1, <1>2, <1>7, UnitsHavePaths
  <2>2. paths[walk[k].el] \in DOMAIN spans /\ spans[paths[walk[k].el]] = <<O[walk[k].el], C[walk[k].el]>>
    BY <1>3, <1>7, <2>1 DEF SpansAre
  <2>. QED BY <1>7, <2>2
<1>9. ASSUME NEW k \in 2 .. Len(walk)
      PROVE  up(k) \in 1 .. (k - 1) /\ walk[up(k)].el = doc[walk[k].el].parent
  <2>1. UpGoes(doc, walk, k)
    BY <1>1, <1>2, WalkGoesUp
  <2>. QED BY <2>1 DEF UpGoes
<1>. HIDE DEF span, up, T
<1>10. /\ nodes \in Seq(T) /\ DOMAIN nodes = 1 .. Len(walk) /\ Len(nodes) = Len(walk)
  <2>1. DOMAIN nodes = 1 .. Len(walk) /\ nodes = [k \in 1 .. Len(walk) |-> nodes[k]]
    BY <1>4, <1>7
  <2>2. \A k \in 1 .. Len(walk) : nodes[k] \in T
    BY <2>1 DEF T, ToSet
  <2>. QED BY <1>7, <2>1, <2>2
<1>11. \A k \in 1 .. Len(walk) : nodes[k] = node(k)
  BY <1>4, <1>7
<1>12. \A k \in 1 .. Len(walk) : /\ nodes[k].path = walk[k].path
                                 /\ {"path", "parent", "xmlSpan"} \subseteq DOMAIN nodes[k]
                                 /\ nodes[k].xmlSpan = <<O[walk[k].el], C[walk[k].el]>>
                                 /\ nodes[k] = [nodes[k] EXCEPT !.parent = @]
  BY <1>5, <1>6, <1>8, <1>11
<1>13. nodes[1].parent = 0
  BY <1>5, <1>7, <1>11
<1>14. \A k \in 2 .. Len(walk) : /\ nodes[k].parent \in 1 .. (k - 1)
                                 /\ walk[nodes[k].parent].el = doc[walk[k].el].parent
  <2>. TAKE k \in 2 .. Len(walk)
  <2>1. k \in 1 .. Len(walk) /\ k # 1
    BY <1>7
  <2>2. nodes[k].parent = up(k)
    BY <1>5, <1>11, <2>1
  <2>. QED BY <1>9, <2>2
<1>15. IsTreeOver(doc, O, C, walk, nodes)
  BY <1>10, <1>12, <1>13, <1>14 DEF IsTreeOver, T
<1>. QED BY <1>15 DEF walk, nodes

\* The rendered spans change nothing else.
LEMMA SpansAreApplied ==
    ASSUME NEW doc, NEW O, NEW C, NEW walk, Len(walk) \in Nat \ {0},
           NEW nodes, IsTreeOver(doc, O, C, walk, nodes), NEW spans
    PROVE  IsTreeOver(doc, O, C, walk, ApplyTreeSpans(nodes, spans))
<1>. DEFINE m == Len(walk)
            Span(path, r) == IF path \in DOMAIN spans[r] THEN spans[r][path] ELSE NoSpan
            shown(k) == <<Span(nodes[k].path, REVISION_0), Span(nodes[k].path, REVISION_1)>>
            node(k) == [nodes[k] EXCEPT !.spans = shown(k)]
            after == ApplyTreeSpans(nodes, spans)
            T == ToSet(after)
<1>1. after = [k \in DOMAIN nodes |-> node(k)]
  BY DEF ApplyTreeSpans
<1>2. DOMAIN nodes = 1 .. m /\ m \in Nat \ {0}
  BY DEF IsTreeOver
<1>. HIDE DEF shown, after, T
<1>3. \A k \in 1 .. m : /\ {"path", "parent", "xmlSpan"} \subseteq DOMAIN node(k)
                        /\ node(k).path = nodes[k].path /\ node(k).parent = nodes[k].parent
                        /\ node(k).xmlSpan = nodes[k].xmlSpan
                        /\ node(k) = [x \in DOMAIN nodes[k] |-> node(k)[x]]
  BY DEF IsTreeOver
<1>. HIDE DEF node
<1>4. \A k \in 1 .. m : node(k) = [node(k) EXCEPT !.parent = @]
  BY <1>3, SetAsItIs
<1>5. \A k \in 1 .. m : after[k] = node(k)
  BY <1>1, <1>2
<1>6. after \in Seq(T) /\ DOMAIN after = 1 .. m /\ Len(after) = m
  <2>1. DOMAIN after = 1 .. m /\ after = [k \in 1 .. m |-> after[k]]
    BY <1>1, <1>2
  <2>2. \A k \in 1 .. m : after[k] \in T
    BY <2>1 DEF T, ToSet
  <2>. QED BY <1>2, <2>1, <2>2
<1>7. \A k \in 1 .. m : /\ after[k].path = walk[k].path
                        /\ {"path", "parent", "xmlSpan"} \subseteq DOMAIN after[k]
                        /\ after[k].xmlSpan = <<O[walk[k].el], C[walk[k].el]>>
                        /\ after[k] = [after[k] EXCEPT !.parent = @]
  <2>1. \A k \in 1 .. m : /\ nodes[k].path = walk[k].path
                          /\ nodes[k].xmlSpan = <<O[walk[k].el], C[walk[k].el]>>
    BY DEF IsTreeOver
  <2>. TAKE k \in 1 .. m
  <2>2. after[k] = node(k)
    BY <1>5
  <2>3. after[k].path = nodes[k].path /\ after[k].xmlSpan = nodes[k].xmlSpan
    BY <1>3, <2>2
  <2>4. {"path", "parent", "xmlSpan"} \subseteq DOMAIN after[k]
    BY <1>3, <2>2
  <2>5. after[k] = [after[k] EXCEPT !.parent = @]
    BY <1>4, <2>2
  <2>. QED BY <2>1, <2>3, <2>4, <2>5
<1>8. after[1].parent = 0
  BY <1>2, <1>3, <1>5 DEF IsTreeOver
<1>9. \A k \in 2 .. m : /\ after[k].parent \in 1 .. (k - 1)
                        /\ walk[after[k].parent].el = doc[walk[k].el].parent
  <2>. TAKE k \in 2 .. m
  <2>1. k \in 1 .. m
    BY <1>2
  <2>2. after[k].parent = nodes[k].parent
    BY <1>3, <1>5, <2>1
  <2>. QED BY <2>2 DEF IsTreeOver
<1>10. IsTreeOver(doc, O, C, walk, after)
  BY <1>6, <1>7, <1>8, <1>9 DEF IsTreeOver, T
<1>. QED BY <1>10 DEF after

\* Over the walk of a file unit it is a tree, in document order.
LEMMA WalkMakesTree ==
    ASSUME NEW doc, IsDocument(doc), NEW above, IsNested(doc, above), NEW tags, NEW O, NEW C,
           StandIn(doc, tags, O, C), AreNested(doc, above, O, C),
           NEW paths, PathsFollow(doc, paths), NEW unit \in 1 .. Len(doc), IsUnit(doc, unit),
           NEW walk, IsWalk(doc, above, paths, unit, walk),
           NEW nodes, IsTreeOver(doc, O, C, walk, nodes)
    PROVE  /\ IsTree(nodes) /\ InDocumentOrder(nodes) /\ nodes # <<>>
           /\ \A k \in DOMAIN nodes : nodes[k] = [nodes[k] EXCEPT !.parent = @]
<1>. DEFINE m == Len(walk)
            el(k) == walk[k].el
            Encloses(j, k) == /\ nodes[j].xmlSpan[1] < nodes[k].xmlSpan[1]
                              /\ nodes[k].xmlSpan[2] < nodes[j].xmlSpan[2]
            T == ToSet(nodes)
<1>1. /\ m \in Nat \ {0} /\ \A k \in 1 .. m : el(k) \in 1 .. Len(doc) /\ unit \in above[el(k)]
      /\ \A j, k \in 1 .. m : j < k <=> el(j) < el(k)
      /\ el(1) = unit
  BY DEF IsWalk
<1>2. /\ nodes \in Seq(T) /\ DOMAIN nodes = 1 .. m /\ Len(nodes) = m
      /\ \A k \in 1 .. m : /\ "xmlSpan" \in DOMAIN nodes[k]
                           /\ nodes[k].xmlSpan = <<O[el(k)], C[el(k)]>>
                           /\ nodes[k] = [nodes[k] EXCEPT !.parent = @]
      /\ nodes[1].parent = 0
      /\ \A k \in 2 .. m : nodes[k].parent \in 1 .. (k - 1) /\ el(nodes[k].parent) = doc[el(k)].parent
  BY DEF IsTreeOver
<1>3. \A d \in 1 .. Len(doc) : O[d] \in Nat /\ C[d] \in Nat
  BY TagsDiffer
<1>4. \A d, e \in 1 .. Len(doc) : O[d] < O[e] /\ C[e] < C[d] <=> d # e /\ d \in above[e]
  <2>1. \A d, e \in 1 .. Len(doc) : d \in above[e] => d <= e
    BY DEF IsNested
  <2>2. Len(doc) \in Nat
    BY DocumentShape DEF IsShaped
  <2>. TAKE d, e \in 1 .. Len(doc)
  <2>3. O[d] < O[e] <=> d < e
    BY DEF AreNested
  <2>4. C[e] < C[d] <=> e # d /\ (d \in above[e] \/ (e < d /\ e \notin above[d]))
    BY DEF AreNested
  <2>. QED BY <2>1, <2>2, <2>3, <2>4
<1>. HIDE DEF T, el
<1>5. \A j, k \in 1 .. m : Encloses(j, k) <=> el(j) # el(k) /\ el(j) \in above[el(k)]
  <2>. TAKE j, k \in 1 .. m
  <2>1. /\ nodes[j].xmlSpan[1] = O[el(j)] /\ nodes[j].xmlSpan[2] = C[el(j)]
        /\ nodes[k].xmlSpan[1] = O[el(k)] /\ nodes[k].xmlSpan[2] = C[el(k)]
    BY <1>2
  <2>. QED BY <1>1, <1>4, <2>1
<1>6. \A k \in DOMAIN nodes : "xmlSpan" \in DOMAIN nodes[k] /\ nodes[k].xmlSpan \in Nat \X Nat
  <2>. TAKE k \in DOMAIN nodes
  <2>1. k \in 1 .. m /\ nodes[k].xmlSpan = <<O[el(k)], C[el(k)]>> /\ "xmlSpan" \in DOMAIN nodes[k]
    BY <1>2
  <2>2. O[el(k)] \in Nat /\ C[el(k)] \in Nat
    BY <1>1, <1>3, <2>1
  <2>. QED BY <2>1, <2>2
<1>7. \A k \in DOMAIN nodes : \/ k = 1 /\ nodes[k].parent = 0
                              \/ k > 1 /\ nodes[k].parent \in 1 .. (k - 1)
  BY <1>1, <1>2
<1>8. ASSUME NEW k \in 2 .. Len(nodes)
      PROVE  /\ Encloses(nodes[k].parent, k)
             /\ \A j \in DOMAIN nodes :
                  Encloses(j, k) => j = nodes[k].parent \/ Encloses(j, nodes[k].parent)
  <2>. DEFINE p == nodes[k].parent
  <2>1. k \in 1 .. m /\ p \in 1 .. m /\ p < k /\ el(p) = doc[el(k)].parent /\ 1 < k /\ 1 \in 1 .. m
    BY <1>1, <1>2
  <2>2. el(k) # unit
    BY <1>1, <2>1, DocumentShape DEF IsShaped
  <2>3. above[el(k)] = {el(k)} \cup above[el(p)] /\ el(p) \in 1 .. Len(doc)
    BY <1>1, <2>1, <2>2, UnitsHavePaths
  <2>4. el(p) \in above[el(p)]
    BY <2>3 DEF IsNested
  <2>. HIDE DEF Encloses, p
  <2>5. el(p) # el(k)
    BY <1>1, <2>1
  <2>6. Encloses(p, k)
    BY <1>5, <2>1, <2>3, <2>4, <2>5
  <2>7. ASSUME NEW j \in DOMAIN nodes, Encloses(j, k) PROVE j = p \/ Encloses(j, p)
    <3>1. j \in 1 .. m /\ el(j) \in above[el(p)]
      BY <1>2, <1>5, <2>1, <2>3, <2>7
    <3>2. el(j) = el(p) => j = p
      BY <1>1, <2>1, <3>1
    <3>. QED BY <1>5, <2>1, <3>1, <3>2
  <2>. QED BY <2>6, <2>7 DEF p
<1>9. nodes # <<>>
  BY <1>1, <1>2
<1>10. IsTree(nodes)
  BY <1>2, <1>6, <1>7, <1>8, <1>9 DEF IsTree, T
<1>11. InDocumentOrder(nodes)
  <2>. SUFFICES ASSUME NEW j \in 1 .. m, NEW k \in 1 .. m, j < k
                PROVE  nodes[j].xmlSpan[1] < nodes[k].xmlSpan[1]
    BY <1>2 DEF InDocumentOrder
  <2>1. O[el(j)] < O[el(k)]
    BY <1>1 DEF AreNested
  <2>. QED BY <1>2, <2>1
<1>. QED BY <1>2, <1>9, <1>10, <1>11

\* Every node of a file stands in the document where its own element does.
ShowsDocument(doc, files) ==
    LET tags == Tags(doc)
        Stands(node, el) ==
          /\ tags[node.xmlSpan[1]] = [opens |-> TRUE, el |-> el]
          /\ tags[node.xmlSpan[2]] = [opens |-> FALSE, el |-> el]
        Shows(nodes, walk) ==
          /\ DOMAIN nodes = DOMAIN walk
          /\ \A k \in DOMAIN walk : nodes[k].path = walk[k].path /\ Stands(nodes[k], walk[k].el)
    IN  \A n \in DOMAIN files : Shows(files[n].tree, WalkUnit(doc, n, TRUE))

\* What is shown of a document.
LEMMA DocumentsAreShown ==
    ASSUME NEW doc, IsDocument(doc), NEW files, NEW rendered, AreRendered(rendered, doc)
    PROVE  /\ Publishable(Visualized(doc, files, rendered))
           /\ ShowsDocument(doc, Visualized(doc, files, rendered))
<1>. DEFINE above == Above(doc)
            paths == Paths(doc)
            tags == Tags(doc)
            m == Len(FileUnits(doc))
            nodes(n) == BuildTree(doc, n, TRUE)
            walk(n) == WalkUnit(doc, n, TRUE)
            shown(n) == ApplyTreeSpans(nodes(n), rendered[n].spans)
            all == Visualized(doc, files, rendered)
            S == ToSet(all)
<1>1. IsNested(doc, above) /\ PathsFollow(doc, paths)
  BY DocumentShape, AboveIsThere, PathsAreThere
<1>2. PICK O, C : StandIn(doc, tags, O, C) /\ AreNested(doc, above, O, C)
  BY <1>1, TagsStandInOrder
<1>3. m \in Nat /\ DOMAIN FileUnits(doc) = 1 .. m
  <2>1. FileUnitsIn(doc) \subseteq 1 .. Len(doc) /\ Len(doc) \in Nat
    BY UnitsAreThere, DocumentShape DEF IsShaped
  <2>2. IsFiniteSet(1 .. Len(doc))
    BY <2>1, FS_Interval
  <2>3. IsFiniteSet(FileUnitsIn(doc)) /\ FileUnitsIn(doc) \subseteq Int
    BY <2>1, <2>2, FS_Subset
  <2>4. /\ DOMAIN FileUnits(doc) = 1 .. Cardinality(FileUnitsIn(doc))
        /\ Len(FileUnits(doc)) = Cardinality(FileUnitsIn(doc)) /\ Cardinality(FileUnitsIn(doc)) \in Nat
    BY <2>3, SortedNumbers DEF FileUnits
  <2>. QED BY <2>4
<1>4. all = [n \in 1 .. m |-> [file |-> rendered[n].file, tree |-> shown(n)]]
  <2>. DEFINE built == BuildTreeIndex(doc, TRUE).trees
              before == BuildVisualizedFiles(doc, files, built)
  <2>3. all = ApplyRenderedSourceSpans(before, rendered)
    BY DEF Visualized
  <2>1. built = [n \in 1 .. m |-> nodes(n)]
    BY <1>3 DEF BuildTreeIndex
  <2>. HIDE DEF built, nodes
  <2>2. DOMAIN before = 1 .. m /\ \A n \in 1 .. m : before[n].tree = nodes(n)
    BY <1>3, <2>1 DEF BuildVisualizedFiles
  <2>. HIDE DEF before, all
  <2>4. \A n \in 1 .. m : ApplyTreeSpans(before[n].tree, rendered[n].spans) = shown(n)
    BY <2>2
  <2>5. all = [n \in 1 .. m |-> [file |-> rendered[n].file,
                                tree |-> ApplyTreeSpans(before[n].tree, rendered[n].spans)]]
    BY <2>2, <2>3 DEF ApplyRenderedSourceSpans
  <2>. HIDE DEF shown
  <2>. QED BY <2>4, <2>5
<1>. HIDE DEF m, all, shown, S, above, paths, tags
<1>5. /\ DOMAIN all = 1 .. m /\ all \in Seq(S)
      /\ \A n \in 1 .. m : all[n].file = rendered[n].file /\ all[n].tree = shown(n)
  <2>1. DOMAIN all = 1 .. m /\ all = [n \in 1 .. m |-> all[n]]
        /\ \A n \in 1 .. m : all[n].file = rendered[n].file /\ all[n].tree = shown(n)
    BY <1>4
  <2>2. \A n \in 1 .. m : all[n] \in S
    BY <2>1 DEF S, ToSet
  <2>. QED BY <1>3, <2>1, <2>2
<1>6. ASSUME NEW n \in 1 .. m
      PROVE  /\ IsTreeOver(doc, O, C, walk(n), shown(n))
             /\ \E unit \in 1 .. Len(doc) : IsUnit(doc, unit) /\ IsWalk(doc, above, paths, unit, walk(n))
  <2>0. n \in DOMAIN FileUnits(doc)
    BY <1>3
  <2>1. IsTreeOver(doc, O, C, walk(n), nodes(n))
    BY <1>2, <2>0, TreeIsBuilt DEF above, tags
  <2>2. /\ FileUnits(doc)[n] \in 1 .. Len(doc) /\ IsUnit(doc, FileUnits(doc)[n])
        /\ IsWalk(doc, above, paths, FileUnits(doc)[n], walk(n))
    BY <2>0, UnitIsWalked DEF above, paths
  <2>3. Len(walk(n)) \in Nat \ {0}
    BY <2>2 DEF IsWalk
  <2>. HIDE DEF walk, nodes
  <2>4. IsTreeOver(doc, O, C, walk(n), shown(n))
    BY <2>1, <2>3, SpansAreApplied DEF shown
  <2>. QED BY <2>2, <2>4
<1>. HIDE DEF walk
<1>7. ASSUME NEW n \in 1 .. m
      PROVE  /\ IsTree(shown(n)) /\ InDocumentOrder(shown(n))
             /\ \A k \in DOMAIN shown(n) : shown(n)[k] = [shown(n)[k] EXCEPT !.parent = @]
  <2>1. PICK unit \in 1 .. Len(doc) : IsUnit(doc, unit) /\ IsWalk(doc, above, paths, unit, walk(n))
    BY <1>6
  <2>2. IsTreeOver(doc, O, C, walk(n), shown(n))
    BY <1>6
  <2>. QED BY <1>1, <1>2, <2>1, <2>2, WalkMakesTree
<1>8. ASSUME NEW n \in 1 .. m, NEW k \in DOMAIN walk(n)
      PROVE  /\ DOMAIN shown(n) = DOMAIN walk(n) /\ shown(n)[k].path = walk(n)[k].path
             /\ tags[shown(n)[k].xmlSpan[1]] = OpenTag(walk(n)[k].el)
             /\ tags[shown(n)[k].xmlSpan[2]] = CloseTag(walk(n)[k].el)
  <2>1. PICK unit \in 1 .. Len(doc) : IsWalk(doc, above, paths, unit, walk(n))
    BY <1>6
  <2>2. DOMAIN walk(n) = 1 .. Len(walk(n)) /\ walk(n)[k].el \in 1 .. Len(doc)
    BY <2>1 DEF IsWalk
  <2>3. /\ DOMAIN shown(n) = DOMAIN walk(n) /\ shown(n)[k].path = walk(n)[k].path
        /\ shown(n)[k].xmlSpan = <<O[walk(n)[k].el], C[walk(n)[k].el]>>
    BY <1>6, <2>2 DEF IsTreeOver
  <2>. QED BY <1>2, <2>2, <2>3 DEF StandIn
<1>9. Publishable(all)
  <2>1. \A n \in 1 .. m : all[n].file.unit = n
    BY <1>3, <1>5 DEF AreRendered
  <2>2. /\ \A n \in DOMAIN all : all[n].file.unit \in Nat
        /\ \A i, n \in DOMAIN all : i < n => all[i].file.unit < all[n].file.unit
    BY <1>3, <1>5, <2>1
  <2>3. \A n \in DOMAIN all : /\ IsTree(all[n].tree) /\ InDocumentOrder(all[n].tree)
                              /\ \A k \in DOMAIN all[n].tree :
                                   all[n].tree[k] = [all[n].tree[k] EXCEPT !.parent = @]
    BY <1>5, <1>7
  <2>. QED BY <1>5, <2>2, <2>3 DEF Publishable, S
<1>10. ShowsDocument(doc, all)
  <2>. SUFFICES ASSUME NEW n \in 1 .. m
       PROVE  /\ DOMAIN all[n].tree = DOMAIN walk(n)
              /\ \A k \in DOMAIN walk(n) :
                   /\ all[n].tree[k].path = walk(n)[k].path
                   /\ tags[all[n].tree[k].xmlSpan[1]] = [opens |-> TRUE, el |-> walk(n)[k].el]
                   /\ tags[all[n].tree[k].xmlSpan[2]] = [opens |-> FALSE, el |-> walk(n)[k].el]
    BY <1>5 DEF ShowsDocument, tags, walk
  <2>1. all[n].tree = shown(n)
    BY <1>5
  <2>2. DOMAIN shown(n) = DOMAIN walk(n)
    <3>1. PICK unit \in 1 .. Len(doc) : IsWalk(doc, above, paths, unit, walk(n))
      BY <1>6
    <3>. QED BY <1>6, <3>1 DEF IsWalk, IsTreeOver
  <2>3. \A k \in DOMAIN walk(n) :
          /\ shown(n)[k].path = walk(n)[k].path
          /\ tags[shown(n)[k].xmlSpan[1]] = OpenTag(walk(n)[k].el)
          /\ tags[shown(n)[k].xmlSpan[2]] = CloseTag(walk(n)[k].el)
    BY <1>8
  <2>. QED BY <2>1, <2>2, <2>3 DEF OpenTag, CloseTag
<1>. QED BY <1>9, <1>10 DEF all

-----------------------------------------------------------------------------
(* The artifact, written and read.                                         *)

\* A file has an id of its own, though others have its name and sources.
LEMMA IdsDiffer ==
    ASSUME NEW files, NEW N \in Nat, DOMAIN files = 1 .. N,
           NEW m \in 1 .. N, NEW n \in 1 .. N, FileIds(files)[m] = FileIds(files)[n]
    PROVE  m = n
<1>. DEFINE Like(k) == {j \in 1 .. k : FileIdentity(files[j].file) = FileIdentity(files[k].file)}
<1>1. \A k \in 1 .. N : FileIds(files)[k] = <<FileIdentity(files[k].file), Cardinality(Like(k))>>
  BY DEF FileIds
<1>2. \A k \in 1 .. N : IsFiniteSet(Like(k)) /\ k \in Like(k)
  <2>. TAKE k \in 1 .. N
  <2>1. IsFiniteSet(1 .. k)
    BY FS_Interval
  <2>2. Like(k) \in SUBSET (1 .. k)
    OBVIOUS
  <2>3. IsFiniteSet(Like(k))
    BY <2>1, <2>2, FS_Subset
  <2>. QED BY <2>3
<1>3. ASSUME NEW i \in 1 .. N, NEW k \in 1 .. N, i < k, FileIds(files)[i] = FileIds(files)[k]
      PROVE  FALSE
  <2>1. /\ FileIdentity(files[i].file) = FileIdentity(files[k].file)
        /\ Cardinality(Like(i)) = Cardinality(Like(k))
    <3>. HIDE DEF Like
    <3>. QED BY <1>1, <1>3
  <2>2. Like(i) \in SUBSET Like(k) /\ k \notin Like(i)
    BY <1>3, <2>1
  <2>3. Cardinality(Like(i)) = Cardinality(Like(k)) => Like(i) = Like(k)
    <3>. HIDE DEF Like
    <3>. QED BY <1>2, <2>2, FS_Subset
  <2>. QED BY <1>2, <2>1, <2>2, <2>3
<1>. QED BY <1>3

\* What stands in sequences that are joined.
LEMMA JoinedHoldAll ==
    ASSUME NEW T, NEW s \in Seq(Seq(T)), NEW x
    PROVE  x \in ToSet(FlattenSeq(s)) <=> \E k \in DOMAIN s : x \in ToSet(s[k])
<1>. DEFINE n == Len(s)
            Upto(i) == UNION {ToSet(s[k]) : k \in 1 .. i}
            Good == {p \in (1 .. n) \X Seq(T) : ToSet(p[2]) = Upto(p[1])}
<1>1. n \in Nat /\ DOMAIN s = 1 .. n /\ \A k \in 1 .. n : s[k] \in Seq(T)
  OBVIOUS
<1>2. CASE s = <<>>
  <2>1. FlattenSeq(s) = <<>>
    BY <1>2 DEF FlattenSeq
  <2>. QED BY <1>2, <2>1 DEF ToSet
<1>3. CASE s # <<>>
  <2>1. 1 \in 1 .. n
    BY <1>1, <1>3
  <2>2. <<1, s[1]>> \in Good
    <3>1. Upto(1) = ToSet(s[1])
      OBVIOUS
    <3>. HIDE DEF Upto
    <3>. QED BY <1>1, <2>1, <3>1
  <2>3. ASSUME NEW i \in 1 .. (n - 1), NEW v \in Seq(T), <<i, v>> \in Good
        PROVE  <<i + 1, v \o s[i + 1]>> \in Good
    <3>. DEFINE j == i + 1
                w == v \o s[j]
    <3>1. j \in 1 .. n /\ s[j] \in Seq(T)
      BY <1>1
    <3>2. Upto(j) = Upto(i) \cup ToSet(s[j])
      <4>1. 1 .. j = (1 .. i) \cup {j}
        OBVIOUS
      <4>. HIDE DEF j
      <4>. QED BY <4>1
    <3>3. ToSet(v) = Upto(i)
      BY <2>3
    <3>. HIDE DEF j
    <3>4. ToSet(w) = ToSet(v) \cup ToSet(s[j]) /\ w \in Seq(T)
      <4>1. w \in Seq(T)
        BY <3>1
      <4>2. Len(v) \in Nat /\ Len(s[j]) \in Nat /\ DOMAIN w = 1 .. (Len(v) + Len(s[j]))
            /\ DOMAIN v = 1 .. Len(v) /\ DOMAIN s[j] = 1 .. Len(s[j])
        BY <3>1
      <4>3. \A k \in DOMAIN v : k \in DOMAIN w /\ w[k] = v[k]
        BY <3>1, <4>2
      <4>4. \A k \in DOMAIN s[j] : k + Len(v) \in DOMAIN w /\ w[k + Len(v)] = s[j][k]
        BY <3>1, <4>2
      <4>5. \A k \in DOMAIN w : \/ k \in DOMAIN v
                                \/ k - Len(v) \in DOMAIN s[j] /\ w[k] = s[j][k - Len(v)]
        BY <3>1, <4>2
      <4>. HIDE DEF w
      <4>. QED BY <4>1, <4>3, <4>4, <4>5 DEF ToSet
    <3>. HIDE DEF w, Upto
    <3>5. <<j, w>> \in Good
      BY <3>1, <3>2, <3>3, <3>4
    <3>. QED BY <3>5 DEF j, w
  <2>4. <<n, FlattenSeq(s)>> \in Good
    <3>. HIDE DEF Good
    <3>. QED BY <1>3, <2>2, <2>3, FlattenInduction
  <2>5. ToSet(FlattenSeq(s)) = Upto(n)
    BY <2>4
  <2>. QED BY <1>1, <2>5
<1>. QED BY <1>2, <1>3

FirstOf(s, m) == {s[i] : i \in 1 .. m}

\* The elements of a sequence that repeats none of them are as many as it is long.
LEMMA FirstAreCounted ==
    ASSUME NEW s, NEW n \in Nat, \A i, j \in 1 .. n : s[i] = s[j] => i = j, NEW m \in 0 .. n
    PROVE  IsFiniteSet(FirstOf(s, m)) /\ Cardinality(FirstOf(s, m)) = m
<1>. DEFINE T == {s[i] : i \in 1 .. m}
            f == [i \in 1 .. m |-> s[i]]
<1>1. f \in Bijection(1 .. m, T)
  <2>1. f \in Surjection(1 .. m, T)
    BY DEF Surjection
  <2>2. f \in Injection(1 .. m, T)
    BY DEF Injection, IsInjective
  <2>. QED BY <2>1, <2>2 DEF Bijection
<1>2. IsFiniteSet(1 .. m) /\ Cardinality(1 .. m) = m
  BY FS_Interval
<1>. HIDE DEF T, f
<1>3. IsFiniteSet(T) /\ Cardinality(T) = m
  BY <1>1, <1>2, FS_Bijection DEF ExistsBijection
<1>. QED BY <1>3 DEF T, FirstOf

\* Entries that stand in the order of their units, sorted by it.
LEMMA EntriesAreSorted ==
    ASSUME NEW entries, entries \in Seq(ToSet(entries)),
           \A k \in DOMAIN entries : entries[k].unit \in Nat,
           \A j, k \in DOMAIN entries : j < k => entries[j].unit < entries[k].unit
    PROVE  Sorted(ToSet(entries), LAMBDA f, g : f.unit < g.unit) = entries
<1>. DEFINE n == Len(entries)
            S == ToSet(entries)
            At(k) == CHOOSE x \in S : Cardinality({y \in S : y.unit < x.unit}) = k - 1
            U(k) == entries[k].unit
<1>1. n \in Nat /\ DOMAIN entries = 1 .. n /\ entries = [k \in 1 .. n |-> entries[k]]
  OBVIOUS
<1>2. S = FirstOf(entries, n)
  BY <1>1 DEF ToSet, FirstOf
<1>3. \A j, k \in 1 .. n : U(j) \in Nat /\ U(k) \in Nat /\ (j < k => U(j) < U(k))
  BY <1>1
<1>. HIDE DEF U, S
<1>4. \A j, k \in 1 .. n : U(j) < U(k) <=> j < k
  <2>. TAKE j, k \in 1 .. n
  <2>1. j < k \/ j = k \/ k < j
    OBVIOUS
  <2>. QED BY <1>3, <2>1
<1>5. \A j, k \in 1 .. n : entries[j] = entries[k] => j = k
  <2>. TAKE j, k \in 1 .. n
  <2>. HAVE entries[j] = entries[k]
  <2>1. U(j) = U(k)
    BY DEF U
  <2>2. ~(j < k) /\ ~(k < j)
    BY <1>3, <2>1
  <2>. QED BY <2>2
<1>6. IsFiniteSet(S) /\ Cardinality(S) = n
  <2>1. n \in 0 .. n
    BY <1>1
  <2>2. IsFiniteSet(FirstOf(entries, n)) /\ Cardinality(FirstOf(entries, n)) = n
    BY <1>1, <1>5, <2>1, FirstAreCounted
  <2>. QED BY <1>2, <2>2
<1>7. ASSUME NEW k \in 1 .. n
      PROVE  Cardinality({y \in S : y.unit < entries[k].unit}) = k - 1
  <2>1. {y \in S : y.unit < entries[k].unit} = FirstOf(entries, k - 1)
    <3>1. \A i \in 1 .. n : entries[i].unit < entries[k].unit <=> i \in 1 .. (k - 1)
      <4>1. \A i \in 1 .. n : entries[i].unit < entries[k].unit <=> i < k
        BY <1>4 DEF U
      <4>. QED BY <4>1
    <3>2. 1 .. (k - 1) \subseteq 1 .. n
      OBVIOUS
    <3>. QED BY <1>2, <3>1, <3>2 DEF FirstOf
  <2>2. k - 1 \in 0 .. n
    OBVIOUS
  <2>3. Cardinality(FirstOf(entries, k - 1)) = k - 1
    BY <1>1, <1>5, <2>2, FirstAreCounted
  <2>. QED BY <2>1, <2>3
<1>8. ASSUME NEW k \in 1 .. n PROVE At(k) = entries[k]
  <2>1. entries[k] \in S
    BY <1>2 DEF FirstOf
  <2>2. \A x \in S : Cardinality({y \in S : y.unit < x.unit}) = k - 1 => x = entries[k]
    <3>. TAKE x \in S
    <3>1. PICK j \in 1 .. n : x = entries[j]
      BY <1>2 DEF FirstOf
    <3>2. Cardinality({y \in S : y.unit < x.unit}) = j - 1
      BY <1>7, <3>1
    <3>. QED BY <3>1, <3>2
  <2>. QED BY <1>7, <2>1, <2>2
<1>9. Sorted(S, LAMBDA f, g : f.unit < g.unit) = [k \in 1 .. n |-> At(k)]
  BY <1>6 DEF Sorted
<1>. HIDE DEF At
<1>10. [k \in 1 .. n |-> At(k)] = entries
  BY <1>1, <1>8
<1>. QED BY <1>9, <1>10 DEF S


\* What is stored of a file, and the rows of all the nodes.
EntryOf(files, n) ==
    [id |-> FileIds(files)[n], unit |-> files[n].file.unit, filename |-> files[n].file.filename,
     root |-> IF files[n].tree = <<>> THEN NoOrdinal ELSE 0]

RowsOfFile(files, n) == NodeRecords(files[n].tree, FileIds(files)[n])

IsStored(a, files) ==
    /\ a.index.files = [n \in DOMAIN files |-> EntryOf(files, n)]
    /\ a.index.nodes = FlattenSeq([n \in DOMAIN files |-> RowsOfFile(files, n)])
    /\ a.sources = StoredSources(a.index.files, files)

LEMMA StoredHolds ==
    ASSUME NEW id, NEW document, NEW results, NEW moves, NEW files
    PROVE  IsStored(Stored(id, document, results, moves, files), files)
<1>. DEFINE a == Stored(id, document, results, moves, files)
            records == BuildIndexRecords(files)
<1>1. /\ records.files = [n \in DOMAIN files |-> EntryOf(files, n)]
      /\ records.nodes = FlattenSeq([n \in DOMAIN files |-> RowsOfFile(files, n)])
  BY DEF BuildIndexRecords, EntryOf, RowsOfFile
<1>. HIDE DEF records
<1>2. a.index.files = records.files /\ a.index.nodes = records.nodes
      /\ a.sources = StoredSources(records.files, files)
  BY DEF Stored, records
<1>. QED BY <1>1, <1>2 DEF IsStored

\* The rows of a file are those that bear its id.
LEMMA RowsAreFound ==
    ASSUME NEW files, Publishable(files), NEW a, IsStored(a, files), NEW n \in DOMAIN files
    PROVE  {r \in ToSet(a.index.nodes) : r.file = FileIds(files)[n]} = ToSet(RowsOfFile(files, n))
<1>. DEFINE N == Len(files)
            parts == [k \in DOMAIN files |-> RowsOfFile(files, k)]
            T == UNION {ToSet(parts[k]) : k \in 1 .. N}
<1>1. N \in Nat /\ DOMAIN files = 1 .. N
  BY DEF Publishable
<1>2. \A k \in 1 .. N : parts[k] = RowsOfFile(files, k)
  BY <1>1
<1>3. ASSUME NEW k \in 1 .. N
      PROVE  /\ RowsOfFile(files, k) \in Seq(T)
             /\ \A r \in ToSet(RowsOfFile(files, k)) : r.file = FileIds(files)[k]
  <2>. DEFINE rows == RowsOfFile(files, k)
              nodes == files[k].tree
  <2>1. rows \in Seq(ToSet(rows))
    <3>1. CASE nodes = <<>>
      <4>1. DOMAIN nodes = {}
        BY <3>1
      <4>2. rows = <<>>
        BY <4>1 DEF RowsOfFile, NodeRecords
      <4>. QED BY <4>2
    <3>2. CASE nodes # <<>>
      <4>1. IsTree(nodes)
        BY <1>1, <3>2 DEF Publishable
      <4>2. TreeRows(rows)
        BY <4>1, RecordsAreTreeRows DEF RowsOfFile
      <4>. QED BY <4>2 DEF TreeRows
    <3>. QED BY <3>1, <3>2
  <2>2. \A r \in ToSet(rows) : r.file = FileIds(files)[k]
    <3>1. \A j \in DOMAIN rows : rows[j].file = FileIds(files)[k]
      BY DEF RowsOfFile, NodeRecords
    <3>. HIDE DEF rows
    <3>. QED BY <3>1 DEF ToSet
  <2>3. ToSet(rows) \subseteq T
    BY <1>2
  <2>. HIDE DEF rows, T
  <2>4. Len(rows) \in Nat /\ rows \in [1 .. Len(rows) -> ToSet(rows)]
    BY <2>1
  <2>5. rows \in [1 .. Len(rows) -> T]
    BY <2>3, <2>4
  <2>6. rows \in Seq(T)
    BY <2>4, <2>5
  <2>. QED BY <2>2, <2>6 DEF rows
<1>. HIDE DEF T
<1>4. parts \in Seq(Seq(T)) /\ DOMAIN parts = 1 .. N
  <2>1. parts = [k \in 1 .. N |-> parts[k]]
    BY <1>1
  <2>2. \A k \in 1 .. N : parts[k] \in Seq(T)
    BY <1>2, <1>3
  <2>. HIDE DEF parts
  <2>3. parts \in [1 .. N -> Seq(T)]
    BY <2>1, <2>2
  <2>. QED BY <1>1, <2>3
<1>5. a.index.nodes = FlattenSeq(parts)
  BY DEF IsStored
<1>. HIDE DEF parts, N
<1>6. \A r : r \in ToSet(a.index.nodes) <=> \E k \in 1 .. N : r \in ToSet(RowsOfFile(files, k))
  <2>. TAKE r
  <2>1. r \in ToSet(FlattenSeq(parts)) <=> \E k \in DOMAIN parts : r \in ToSet(parts[k])
    BY <1>4, JoinedHoldAll
  <2>. QED BY <1>2, <1>4, <1>5, <2>1
<1>7. \A k \in 1 .. N : FileIds(files)[k] = FileIds(files)[n] => k = n
  BY <1>1, IdsDiffer
<1>8. \A r \in ToSet(a.index.nodes) : r.file = FileIds(files)[n] => r \in ToSet(RowsOfFile(files, n))
  <2>. TAKE r \in ToSet(a.index.nodes)
  <2>. HAVE r.file = FileIds(files)[n]
  <2>1. PICK k \in 1 .. N : r \in ToSet(RowsOfFile(files, k))
    BY <1>6
  <2>2. k = n
    BY <1>3, <1>7, <2>1
  <2>. QED BY <2>1, <2>2
<1>9. \A r \in ToSet(RowsOfFile(files, n)) : r \in ToSet(a.index.nodes) /\ r.file = FileIds(files)[n]
  BY <1>1, <1>3, <1>6
<1>. QED BY <1>8, <1>9

\* The entries of the files, sorted as they are read, and the sources found by them.
LEMMA EntriesAreFound ==
    ASSUME NEW files, Publishable(files), NEW a, IsStored(a, files)
    PROVE  LET entries == a.index.files
           IN  /\ Sorted(ToSet(entries), LAMBDA f, g : f.unit < g.unit) = entries
               /\ DOMAIN entries = DOMAIN files
               /\ \A n \in DOMAIN files : /\ entries[n] = EntryOf(files, n)
                                          /\ a.sources[entries[n].id] = files[n].file.source
<1>. DEFINE N == Len(files)
            entries == a.index.files
<1>1. /\ N \in Nat /\ DOMAIN files = 1 .. N
      /\ \A k \in 1 .. N : files[k].file.unit \in Nat
      /\ \A j, k \in 1 .. N : j < k => files[j].file.unit < files[k].file.unit
  BY DEF Publishable
<1>. HIDE DEF N
<1>2. entries = [n \in 1 .. N |-> EntryOf(files, n)]
  BY <1>1 DEF IsStored
<1>3. a.sources = StoredSources(entries, files)
  BY DEF IsStored
<1>. HIDE DEF entries
<1>4. /\ DOMAIN entries = 1 .. N
      /\ \A n \in 1 .. N : /\ entries[n] = EntryOf(files, n)
                           /\ entries[n].id = FileIds(files)[n]
                           /\ entries[n].unit = files[n].file.unit
                           /\ entries[n] \in ToSet(entries)
  BY <1>2 DEF EntryOf, ToSet
<1>5. entries \in Seq(ToSet(entries))
  <2>1. entries \in [1 .. N -> ToSet(entries)]
    <3>1. entries = [n \in 1 .. N |-> entries[n]]
      BY <1>2
    <3>. QED BY <1>4, <3>1
  <2>. QED BY <1>1, <2>1
<1>6. Sorted(ToSet(entries), LAMBDA f, g : f.unit < g.unit) = entries
  <2>1. \A k \in DOMAIN entries : entries[k].unit \in Nat
    BY <1>1, <1>4
  <2>2. \A j, k \in DOMAIN entries : j < k => entries[j].unit < entries[k].unit
    BY <1>1, <1>4
  <2>. QED BY <1>5, <2>1, <2>2, EntriesAreSorted
<1>7. ASSUME NEW n \in 1 .. N PROVE a.sources[entries[n].id] = files[n].file.source
  <2>1. entries[n].id \in {f.id : f \in ToSet(entries)}
    BY <1>4
  <2>2. \A k \in 1 .. N : entries[k].id = entries[n].id => k = n
    BY <1>1, <1>4, IdsDiffer
  <2>3. (CHOOSE k \in DOMAIN files : entries[k].id = entries[n].id) = n
    BY <1>1, <2>2
  <2>4. a.sources[entries[n].id] =
          files[CHOOSE k \in DOMAIN files : entries[k].id = entries[n].id].file.source
    BY <1>3, <2>1 DEF StoredSources
  <2>. QED BY <2>3, <2>4
<1>. QED BY <1>1, <1>4, <1>6, <1>7 DEF entries

\* What is read of an artifact is what was stored in it.
LEMMA ReadsBack ==
    ASSUME NEW files, Publishable(files), NEW a, IsStored(a, files)
    PROVE  ReadPayload(a) =
             [n \in DOMAIN files |->
                [filename |-> files[n].file.filename, source |-> files[n].file.source,
                 tree |-> files[n].tree]]
<1>. DEFINE entries == a.index.files
            Rows(id) == {r \in ToSet(a.index.nodes) : r.file = id}
<1>1. /\ Sorted(ToSet(entries), LAMBDA f, g : f.unit < g.unit) = entries
      /\ DOMAIN entries = DOMAIN files
      /\ \A n \in DOMAIN files : /\ entries[n] = EntryOf(files, n)
                                 /\ a.sources[entries[n].id] = files[n].file.source
  BY EntriesAreFound
<1>2. ReadPayload(a) =
        [n \in DOMAIN entries |->
           [filename |-> entries[n].filename, source |-> a.sources[entries[n].id],
            tree |-> IF entries[n].root = NoOrdinal THEN <<>>
                     ELSE RebuiltTree(Rows(entries[n].id), entries[n].root)]]
  BY <1>1 DEF ReadPayload
<1>3. \A n \in DOMAIN files : Rows(FileIds(files)[n]) = ToSet(RowsOfFile(files, n))
  BY RowsAreFound
<1>. HIDE DEF Rows, entries
<1>4. ASSUME NEW n \in DOMAIN files
      PROVE  /\ entries[n].filename = files[n].file.filename
             /\ (IF entries[n].root = NoOrdinal THEN <<>>
                 ELSE RebuiltTree(Rows(entries[n].id), entries[n].root)) = files[n].tree
  <2>1. /\ entries[n].filename = files[n].file.filename
        /\ entries[n].id = FileIds(files)[n]
        /\ entries[n].root = IF files[n].tree = <<>> THEN NoOrdinal ELSE 0
    <3>1. /\ EntryOf(files, n).filename = files[n].file.filename
          /\ EntryOf(files, n).id = FileIds(files)[n]
          /\ EntryOf(files, n).root = IF files[n].tree = <<>> THEN NoOrdinal ELSE 0
      BY DEF EntryOf
    <3>2. entries[n] = EntryOf(files, n)
      BY <1>1
    <3>. QED BY <3>1, <3>2
  <2>2. CASE files[n].tree = <<>>
    BY <2>1, <2>2
  <2>3. CASE files[n].tree # <<>>
    <3>1. /\ IsTree(files[n].tree) /\ InDocumentOrder(files[n].tree)
          /\ \A k \in DOMAIN files[n].tree :
               files[n].tree[k] = [files[n].tree[k] EXCEPT !.parent = @]
      BY <2>3 DEF Publishable
    <3>2. RebuiltTree(ToSet(NodeRecords(files[n].tree, FileIds(files)[n])), 0) = files[n].tree
      BY <3>1, TreeIsRebuilt
    <3>3. entries[n].root = 0 /\ 0 # NoOrdinal
      BY <2>1, <2>3 DEF NoOrdinal
    <3>. QED BY <1>3, <2>1, <3>2, <3>3 DEF RowsOfFile
  <2>. QED BY <2>1, <2>2, <2>3
<1>. QED BY <1>1, <1>2, <1>4

LEMMA NothingIsShown == PublicationInit => NodesStandInTheXml
<1>1. Publishable(<<>>)
  BY DEF Publishable
<1>. QED BY <1>1 DEF PublicationInit, NodesStandInTheXml

LEMMA DocumentsStayShown ==
    ASSUME NodesStandInTheXml, [VisualizeAny \/ PublishAny]_publicationVars
    PROVE  NodesStandInTheXml'
<1>1. CASE VisualizeAny
  <2>1. PICK doc, files, rendered :
          /\ IsDocument(doc) /\ AreRendered(rendered, doc)
          /\ xml' = doc /\ visualized' = Visualized(doc, files, rendered)
    BY <1>1 DEF VisualizeAny
  <2>2. IsDocument(xml') /\ Publishable(visualized') /\ ShowsDocument(xml', visualized')
    BY <2>1, DocumentsAreShown
  <2>. QED BY <2>2 DEF NodesStandInTheXml, ShowsDocument
<1>2. CASE UNCHANGED <<xml, visualized>>
  BY <1>2 DEF NodesStandInTheXml
<1>. QED BY <1>1, <1>2 DEF PublishAny, publicationVars

\* Of any document, however its files are nested, with any number of units and elements of
\* any names: the trees that are shown are trees in document order, every parent the
\* innermost node around its own, and the span that a node takes from the parser's index by
\* its path is that of the tags of its own element.  (build_xml_span_index in
\* srcdiff/xml_spans.py, build_unit_tree in tree_builder.py, iter_child_paths in core/)
THEOREM NodesStandWhereTheirElementsDo == PublicationSpec => []NodesStandInTheXml
  BY NothingIsShown, DocumentsStayShown, PTL DEF PublicationSpec

PublicationInv ==
    /\ NodesStandInTheXml
    /\ Published => visualized # <<>> /\ IsStored(artifact, visualized)

LEMMA PublicationInvStep ==
    ASSUME PublicationInv, [VisualizeAny \/ PublishAny]_publicationVars
    PROVE  PublicationInv'
<1>1. NodesStandInTheXml'
  BY DocumentsStayShown DEF PublicationInv
<1>2. CASE VisualizeAny
  <2>1. ~Published /\ artifact' = artifact
    BY <1>2 DEF PublicationInv, VisualizeAny
  <2>. QED BY <1>1, <2>1 DEF PublicationInv, Published
<1>3. CASE PublishAny
  <2>1. visualized # <<>> /\ visualized' = visualized /\ IsStored(artifact', visualized)
    BY <1>3, StoredHolds DEF PublishAny
  <2>. QED BY <1>1, <2>1 DEF PublicationInv
<1>4. CASE UNCHANGED publicationVars
  BY <1>1, <1>4 DEF publicationVars, PublicationInv, Published
<1>. QED BY <1>2, <1>3, <1>4

\* What is shown of a document stands in the artifact, once it is stored.  (_write_artifact,
\* _build_index_records, _append_node_records in artifacts/store.py)
THEOREM ArtifactsHoldTheirFiles == PublicationSpec => []PublicationInv
<1>1. PublicationInit => PublicationInv
  BY NothingIsShown DEF PublicationInit, PublicationInv, Published
<1>. QED BY <1>1, PublicationInvStep, PTL DEF PublicationSpec

\* The artifact of any document gives back the files, their sources and their trees, in
\* order, though its nodes are rows in a table.  (_append_node_records, _read_payload,
\* _rebuild_trees in artifacts/store.py)
THEOREM ArtifactsAreReadBack == PublicationSpec => []IndexRebuildsTheTrees
<1>1. PublicationInv => IndexRebuildsTheTrees
  <2>1. NodesStandInTheXml => Publishable(visualized)
    BY DEF NodesStandInTheXml
  <2>. QED BY <2>1, ReadsBack DEF PublicationInv, IndexRebuildsTheTrees
<1>. QED BY <1>1, ArtifactsHoldTheirFiles, PTL
=============================================================================
