----------------------------- MODULE MCExecutor -----------------------------
(***************************************************************************)
(* Scans that make a probe of two round trips, fetch the headers, and make *)
(* a probe of one.                                                         *)
(***************************************************************************)
EXTENDS Executor

CONSTANTS s1, s2, s3

MCScans == {s1, s2, s3}
MCProgram == <<[kind |-> "probe", trips |-> 2], [kind |-> "fetch", trips |-> 3],
               [kind |-> "probe", trips |-> 1]>>
MCNever == -1
MCLatencies == {1, MCNever}

=============================================================================
