----------------------------- MODULE ScanClaims -----------------------------
(***************************************************************************)
(* What the documentation of cy-tls says a report shows, where the scan of *)
(* Scan.tla does something else.                                           *)
(***************************************************************************)
EXTENDS Scan

(* A scan with cipher enumeration that lost no probe.                      *)
Complete == pc = "done" /\ server.reachable /\ full /\ faults = 0

(* docs/finding-ids.md: TLS-ZERO-RTT-ACCEPTED, "TLS 1.3 0-RTT early-data   *)
(* accepted".  protocols.contribute_findings runs before the 0-RTT probe.  *)
ZeroRttReported ==
  Complete /\ seen.proto.zero_rtt => "TLS-ZERO-RTT-ACCEPTED" \in findings
=============================================================================
