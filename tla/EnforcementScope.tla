--------------------------- MODULE EnforcementScope ---------------------------
(***************************************************************************)
(* The decision functions every Gate 4 laboratory shares:                  *)
(* egress_policy.py and enforcement_scope.py.  An artifact is a file (path,*)
(* device, inode) and the hash of its contents.                            *)
(***************************************************************************)

NoHash == "no hash"
Unpinned == [pid |-> "unpinned"]

\* ArtifactIdentity.from_path.
ArtifactIdentity(file, contents) == [file |-> file, hash |-> contents]

\* ProcessIdentity.from_pid: of the thread's process; the hash is left out
\* for speed once the process is pinned.
ProcessIdentity(pid, start, artifact, include_hash) ==
    [pid |-> pid, start |-> start,
     artifact |-> [artifact EXCEPT !.hash = IF include_hash THEN @ ELSE NoHash]]

\* ExecutableEgressPolicy.evaluate of a connect to a unix, loopback, external
\* or unresolved address.
Evaluate(in_scope, destination) ==
    IF ~in_scope \/ destination \in {"unix", "loopback"} THEN "ALLOW"
    ELSE IF destination = "unresolved" THEN "ABSTAIN" ELSE "DENY"

\* ExecutableProcessScope.bind_or_verify: the new pin and the verdict.  The
\* first identity must be the expected artifact, hash included; later ones
\* are read without the hash.
BindOrVerify(target, expected, pinned, identity) ==
    IF identity.pid # target THEN [pinned |-> pinned, ok |-> FALSE]
    ELSE IF pinned = Unpinned
    THEN [pinned |-> IF identity.artifact = expected THEN identity ELSE Unpinned,
          ok |-> identity.artifact = expected]
    ELSE [pinned |-> pinned,
          ok |-> /\ identity.start = pinned.start
                 /\ identity.artifact.file = pinned.artifact.file]

\* enforcement_effect: the target fails closed, everybody else is let go.
EnforcementEffect(effect, target, failed) ==
    IF ~target THEN "ALLOW" ELSE IF failed \/ effect = "ABSTAIN" THEN "DENY" ELSE effect
=============================================================================
