----------------------------- MODULE Assessment -----------------------------
(***************************************************************************)
(* What a scan promises whoever reads its report: findings are gathered    *)
(* and never taken back; the summary is drawn up once, from all of them,   *)
(* and is then final.  It names exactly the breach indicators among the    *)
(* findings, and a target passes only if no finding is critical.           *)
(***************************************************************************)
EXTENDS Catalog

VARIABLES
  findings,              \* IDs in the findings vector
  passed, breaches,      \* the summary's verdict, and the breaches it names
  final                  \* the summary has been drawn up

vars == <<findings, passed, breaches, final>>

Init ==
  /\ findings = {}
  /\ ~passed
  /\ breaches = {}
  /\ ~final

Gather ==
  /\ ~final /\ ~final'
  /\ findings \subseteq findings'
  /\ UNCHANGED <<passed, breaches>>

Conclude ==
  /\ ~final /\ final'
  /\ findings \subseteq findings'
  /\ breaches' = findings' \intersect BreachIndicators
  /\ passed' => findings' \intersect (Critical \union BreachIndicators) = {}

Next == Gather \/ Conclude

(* Every scan ends with a summary.                                         *)
Spec == Init /\ [][Next]_vars /\ <>final
=============================================================================
