------------------------------ MODULE MCStreams ------------------------------
(* Both streams of server-sent events, for TLC: a page that follows a run     *)
(* with a short log, read in batches smaller than the log, or an upload.  The *)
(* two share nothing but the server's threads, so a behaviour has one.        *)
EXTENDS RunEventStream, UploadProgress

VARIABLE page  \* what the page follows: "run" or "upload"

pageVars == <<followVars, uploadVars, page>>

MCRuns == {1}
MCFingerprints == {"pair"}
MCArtifacts == {"a"}
MCCodes == {"command-failed"}

MCInit == FollowInit /\ UploadInit /\ page \in {"run", "upload"}

MCNext ==
    \/ page = "run" /\ FollowNext /\ UNCHANGED <<uploadVars, page>>
    \/ page = "upload" /\ UploadNext /\ UNCHANGED <<followVars, page>>

MCSpec == MCInit /\ [][MCNext]_pageVars /\ FairStream /\ UploadFairness
=============================================================================
