------------------------ MODULE MCArtifactCollection ------------------------
(* Small instances of ArtifactCollection for TLC, and the plan on every        *)
(* inventory of at most three artifacts.                                       *)
EXTENDS ArtifactCollection

CONSTANTS c1, c2

MCRuns == 1 .. 2
MCFingerprints == {"pair"}
MCArtifacts == 1 .. 3
MCOldArtifacts == {3}
MCCodes == {"build-failed"}
MCClients == {c1, c2}
MCOneClient == {c1}
MCPolicy == [maxArtifacts |-> 1, maxBytes |-> NoLimit, maxAge |-> NoLimit]

Kinds == {[valid |-> TRUE, protected |-> p, size |-> s, created |-> c] :
             p \in BOOLEAN, s \in 1 .. 2, c \in 0 .. 1}
         \cup {[valid |-> FALSE, protected |-> p, size |-> 1, created |-> Never] : p \in BOOLEAN}
ItemOf(id, kind) ==
    [id |-> id, size |-> kind.size, created |-> kind.created, protected |-> kind.protected,
     integrity |-> IF kind.valid THEN "valid" ELSE "corrupt"]
MCInventories ==
    UNION {{{ItemOf(id, f[id]) : id \in present} : f \in [present -> Kinds]} :
              present \in SUBSET MCArtifacts}
MCPolicies == [maxArtifacts : {NoLimit, 0, 1, 2}, maxBytes : {NoLimit, 0, 2, 3},
             maxAge : {NoLimit, 0, 1}]
MCTimes == 1 .. 2

=============================================================================
