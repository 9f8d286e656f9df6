------------------------------ MODULE Catalog ------------------------------
(***************************************************************************)
(* The finding IDs that decide the headline of a report, with what         *)
(* finding.rs, summary.rs and grade.rs hold against each of them.          *)
(***************************************************************************)

(* Severity::Critical in FINDING_CATALOG.                                  *)
Critical == {
  "TLS-SSLV2", "TLS-SSLV3", "TLS-RC4-CIPHER", "TLS-NULL-CIPHER",
  "TLS-EXPORT-CIPHER", "TLS-ANON-CIPHER", "TLS-CERT-EXPIRED",
  "TLS-CERT-SELF-SIGNED", "TLS-OCSP-REVOKED", "TLS-ROBOT-VULNERABLE",
  "TLS-DROWN-VULNERABLE", "TLS-HEARTBLEED", "TLS-CCS-INJECTION",
  "TLS-CERT-LEAF-IS-CA", "TLS-CERT-INTERMEDIATE-EXPIRED"}

(* BREACH_INDICATORS of summary.rs: "exploitable now".                     *)
BreachIndicators == {
  "TLS-HEARTBLEED", "TLS-CCS-INJECTION", "TLS-ROBOT-VULNERABLE",
  "TLS-DROWN-VULNERABLE", "TLS-TICKETBLEED", "TLS-OPENSSL-PADDING-ORACLE",
  "TLS-GOLDENDOODLE-ACTIVE", "TLS-OCSP-REVOKED", "TLS-CERT-EXPIRED",
  "TLS-CERT-INTERMEDIATE-EXPIRED", "TLS-CERT-HOSTNAME-MISMATCH",
  "TLS-CERT-SELF-SIGNED", "TLS-CERT-LEAF-IS-CA", "TLS-SSLV2", "TLS-SSLV3",
  "TLS-RC4-CIPHER", "TLS-NULL-CIPHER", "TLS-EXPORT-CIPHER",
  "TLS-ANON-CIPHER"}

(* critical_vulns of grade.rs: each one forces the score to 0.             *)
HardFails == {
  "TLS-HEARTBLEED", "TLS-CCS-INJECTION", "TLS-ROBOT-VULNERABLE",
  "TLS-DROWN-VULNERABLE", "TLS-TICKETBLEED", "TLS-OPENSSL-PADDING-ORACLE",
  "TLS-GOLDENDOODLE-ACTIVE", "TLS-CERT-EXPIRED", "TLS-CERT-SELF-SIGNED",
  "TLS-CERT-HOSTNAME-MISMATCH", "TLS-CERT-INTERMEDIATE-EXPIRED",
  "TLS-CERT-LEAF-IS-CA", "TLS-CERT-NOT-YET-VALID"}

(* medium_caps of grade.rs, and the certificate about to expire: the code  *)
(* caps the score at 80 for each of them, "grade <= C" ones included.      *)
MediumCaps == {
  "TLS-CLIENT-RENEG-ALLOWED", "TLS-COMPRESSION-ENABLED",
  "TLS-INSECURE-RENEG-LEGACY", "TLS-NO-EXTENDED-MASTER-SECRET",
  "TLS-NO-FALLBACK-SCSV", "TLS-FORWARD-SECRECY-WEAK",
  "TLS-CERT-NEAR-EXPIRY"}

(* Findings that already say why a chain is rejected: grade T is not given *)
(* on top of them.                                                         *)
TrustExplained == {
  "TLS-CERT-EXPIRED", "TLS-CERT-SELF-SIGNED", "TLS-CERT-HOSTNAME-MISMATCH",
  "TLS-CERT-INTERMEDIATE-EXPIRED", "TLS-CERT-NOT-YET-VALID"}
=============================================================================
