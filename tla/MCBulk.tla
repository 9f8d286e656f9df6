------------------------------- MODULE MCBulk -------------------------------
(* Instances of Bulk for TLC: every file of up to MaxTargets entries with  *)
(* every --concurrency up to MaxConcurrency, the edges 0 and 1 included.   *)
EXTENDS Bulk
=============================================================================
