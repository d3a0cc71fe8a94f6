------------------------------ MODULE TreeBranch ------------------------------
(* One branch of a file's tree (ArtifactTreeBranch): the window gives it     *)
(* some of its children, the others are loaded page by page.                 *)
EXTENDS NodeRows

CONSTANTS
  CHILD_PAGE,    \* children in a page, 100 in the code
  NODE_LIMIT     \* nodes in the tree's window, 500 in the code

ASSUME BranchAssumption == {CHILD_PAGE, NODE_LIMIT} \subseteq Nat \ {0}

VARIABLES
  tree,    \* [rows, node] of the file and the node that are open
  branch   \* the branch's state: children, complete, next

branchVars == <<tree, branch>>

NoTree == <<>>
NoBranch == [children |-> <<>>, complete |-> FALSE, next |-> 0]

Window(rows, profile) == TreeProjection(rows, profile, NODE_LIMIT)

BranchInit == tree = NoTree /\ branch = NoBranch

OpenBranch(rows, profile) ==
  /\ tree = NoTree
  /\ LET window == Window(rows, profile).nodes
     IN  \E ordinal \in DOMAIN window :
           /\ tree' = [rows |-> rows, node |-> ordinal]
           /\ branch' = [children |-> window[ordinal].children,
                         complete |-> window[ordinal].complete, next |-> 0]

\* Mutant: a page is appended as it comes.
AppendNodes(current, loaded) == current \o loaded

(* mergeNodes: those already there keep their place.                         *)
MergeNodes(current, loaded) ==
  current \o Selected(loaded, {k \in DOMAIN loaded : loaded[k] \notin ToSet(current)})

LoadMore ==
  /\ tree # NoTree /\ ~branch.complete
  /\ LET page == NodeChildren(tree.rows, tree.node, branch.next, CHILD_PAGE)
     IN  branch' = [children |-> MergeNodes(branch.children,
                                   [k \in DOMAIN page.children |-> page.children[k].id[2]]),
                    complete |-> page.next = NoNode,
                    next |-> IF page.next = NoNode THEN page.count ELSE page.next]
  /\ UNCHANGED tree

(* A branch of any tree that was published.                                  *)
OpenAnyBranch ==
  \E nodes, file : \E profile \in FOCUS_PROFILES :
    IsTree(nodes) /\ OpenBranch(NodeRecords(nodes, file), profile)

BranchSpec == BranchInit /\ [][OpenAnyBranch \/ LoadMore]_branchVars

-----------------------------------------------------------------------------
(* The window of a tree is one tree from the root down, no larger than asked *)
(* for; a node is said to be complete only when all its children are there,  *)
(* and the window holds every focused node that its bound leaves room for.   *)
WindowIsConnected(rows, profile) ==
  LET window == Window(rows, profile).nodes
      Under(o) == {c \in Ordinals(rows) : ParentOf(rows, c) = o}
  IN  /\ 0 \in DOMAIN window /\ Cardinality(DOMAIN window) <= NODE_LIMIT
      /\ \A o \in DOMAIN window :
           /\ o # 0 => \E p \in DOMAIN window : o \in ToSet(window[p].children)
           /\ window[o].complete <=> Under(o) \subseteq DOMAIN window
      /\ \A o \in Ordinals(rows) \ DOMAIN window :
           IsTreeFocus(Row(rows, o), profile) =>
             Cardinality(DOMAIN window)
               + Cardinality(Chain(rows, DOMAIN window, o)) > NODE_LIMIT

(* A region of the diff tree is below the nearest one whose XML contains it, *)
(* and none is lost but those the bound leaves out.                          *)
DiffTreeNests(rows, limit) ==
  LET diffs == DiffTreeProjection(rows, limit)
      Place(o) == Row(rows, o).payload.xmlSpan
      Inside(o, p) == Place(p)[1] < Place(o)[1] /\ Place(o)[2] < Place(p)[2]
      Around(o) == {p \in DiffOrdinals(rows) : Inside(o, p)}
      Nearest(o, p) == p \in Around(o) /\ \A q \in Around(o) : q = p \/ Inside(p, q)
  IN  /\ Cardinality(DOMAIN diffs.nodes) = diffs.count
      /\ diffs.truncated <=> diffs.count < Cardinality(DiffOrdinals(rows))
      /\ \A o \in DOMAIN diffs.nodes :
           /\ diffs.nodes[o].complete <=>
                \A d \in DiffOrdinals(rows) : Nearest(d, o) => d \in DOMAIN diffs.nodes
           /\ Around(o) = {} => o \in ToSet(diffs.roots)
           /\ \A p \in DOMAIN diffs.nodes :
                Nearest(o, p) => o \in ToSet(diffs.nodes[p].children)

(* Both trees of the file that is open, in every focus and at every bound.   *)
(* (projections.py: read_tree_projection, read_diff_tree_projection)         *)
TreesAreConnected ==
  tree # NoTree =>
    /\ \A profile \in FOCUS_PROFILES : WindowIsConnected(tree.rows, profile)
    /\ \A limit \in 1..NODE_LIMIT : DiffTreeNests(tree.rows, limit)

(* However many children the window showed already, following the pages to   *)
(* their end gives every child of the node, each once.                       *)
BranchHoldsEveryChild ==
  tree # NoTree =>
    LET all == {c \in Ordinals(tree.rows) : ParentOf(tree.rows, c) = tree.node}
    IN  /\ IsInjective(branch.children)
        /\ ToSet(branch.children) \subseteq all
        /\ branch.complete => ToSet(branch.children) = all
=============================================================================
