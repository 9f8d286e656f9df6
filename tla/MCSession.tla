----------------------------- MODULE MCSession -----------------------------
(***************************************************************************)
(* Three scan requests, of no, one and two targets, and two clients that   *)
(* poll without end.                                                       *)
(***************************************************************************)
EXTENDS Session

CONSTANTS empty, one, two, r1, r2

MCPosts == {empty, one, two}
MCTargets == [p \in MCPosts |-> CASE p = empty -> 0 [] p = one -> 1 [] p = two -> 2]
MCReaders == {r1, r2}

=============================================================================
