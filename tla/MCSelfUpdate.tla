---------------------------- MODULE MCSelfUpdate ----------------------------
(***************************************************************************)
(* Runs of `cy-tls update`, at once and one after another, while releases  *)
(* appear and are withdrawn.                                               *)
(***************************************************************************)
EXTENDS SelfUpdate

CONSTANTS r1, r2, r3, v1, v2

MCRuns == {r1, r2, r3}
MCVersions == {v1, v2}

=============================================================================
