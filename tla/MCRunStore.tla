---------------------------- MODULE MCRunStore ------------------------------
(* A small instance of RunStore for TLC. *)
EXTENDS RunStore

MCRuns == 1 .. 3
MCFingerprints == {"pair"}
MCArtifacts == {"a"}
MCCodes == {"command-failed"}

=============================================================================
