------------------------ MODULE MCHistoryExtensions -------------------------
(* Small instances of HistoryExtensions for TLC. *)
EXTENDS HistoryExtensions

CONSTANTS p1, p2, c1, c2

MCRepositories == {p1, p2}
MCOneRepository == {p1}
MCClients == {c1, c2}

=============================================================================
