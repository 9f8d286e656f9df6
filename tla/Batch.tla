------------------------------- MODULE Batch -------------------------------
(***************************************************************************)
(* What a batch of scans promises, whatever the transport: the result of   *)
(* every target of the input is written once, in any order, and the batch  *)
(* ends either complete or aborted.  Bulk.tla (the `bulk` subcommand) is   *)
(* shown to implement it.                                                  *)
(***************************************************************************)
EXTENDS Naturals

CONSTANT MaxTargets      \* entries of the longest input considered

VARIABLES
  total,                 \* entries of the input, duplicates included
  reported,              \* entries whose record is on stdout, newline included
  status                 \* "running", "complete" or "aborted"

vars == <<total, reported, status>>

Target == 1..total

Init ==
  /\ total \in 0..MaxTargets
  /\ reported = {}
  /\ status = "running"

Report(t) ==
  /\ status = "running"
  /\ t \notin reported
  /\ reported' = reported \union {t}
  /\ UNCHANGED <<total, status>>

(* Complete is reached only with nothing left to report.                   *)
Complete ==
  /\ status = "running"
  /\ reported = Target
  /\ status' = "complete"
  /\ UNCHANGED <<total, reported>>

(* A failed write ends the batch; what is on stdout stays there.           *)
Abort ==
  /\ status = "running"
  /\ status' = "aborted"
  /\ UNCHANGED <<total, reported>>

Next ==
  \/ \E t \in Target : Report(t)
  \/ Complete
  \/ Abort

Spec == Init /\ [][Next]_vars /\ WF_vars(Next)
=============================================================================
