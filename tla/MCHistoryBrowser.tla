--------------------------- MODULE MCHistoryBrowser --------------------------
(* One example, text, file and review case, and two repositories: q has all   *)
(* of its three pairs, two pages of them, and p can be extended by a second.  *)
EXTENDS HistoryBrowser

CONSTANTS p, q

MCHistoryLength == [r \in Repositories |-> IF r = p THEN 2 ELSE 3]
MCSavedPairs == [r \in Repositories |-> IF r = p THEN 1 ELSE 3]
MCWithMoves == {1, 3}
=============================================================================
