-------------------------- MODULE MCHistoryWorker ---------------------------
(* Small instances of HistoryWorker for TLC. *)
EXTENDS HistoryWorker, TLC

CONSTANTS f1, f2

MCOneRun == {1}
MCRuns == 1 .. 2
MCFingerprints == {f1, f2}
MCSymmetry == Permutations(MCFingerprints)
MCCodes == {"worker-restarted", "worker-stopped", "worker-process-failed", "build-failed"}

=============================================================================
