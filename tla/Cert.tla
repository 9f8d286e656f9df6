-------------------------------- MODULE Cert --------------------------------
(***************************************************************************)
(* CertificateInfo::contribute_findings (cert.rs): the findings on a       *)
(* certificate, as a function of what inspect() recorded of it.  Times are *)
(* whole hours relative to the scan.  A certificate is a record            *)
(*   notBefore, notAfter   validity, in hours from now                     *)
(*   intermediates         set of the hours left to the other chain certs  *)
(*   keyAlg, keyBits       of the leaf's key                               *)
(*   flaws                 what is wrong with the leaf or the chain, a     *)
(*                         subset of Flaws below                           *)
(*   scts, operators       embedded SCTs, distinct known log operators     *)
(*   stapled, ocspStatus   of the OCSP probes                              *)
(*   mozillaTrusted        the strict handshake succeeded                  *)
(*   rejectedBy            the other trust stores that refuse the chain    *)
(***************************************************************************)
EXTENDS Integers, FiniteSets

(* One flaw per test of contribute_findings that reads one field.          *)
FindingOf == [
  self_signed       |-> "TLS-CERT-SELF-SIGNED",
  incomplete        |-> "TLS-CHAIN-INCOMPLETE",
  deep              |-> "TLS-CERT-CHAIN-DEEP",
  misordered        |-> "TLS-CERT-CHAIN-MISORDERED",
  aia_unreachable   |-> "TLS-CERT-AIA-CA-ISSUERS-UNREACHABLE",
  https_ocsp        |-> "TLS-OCSP-URL-HTTPS-SCHEME",
  weak_signature    |-> "TLS-CERT-WEAK-SIGNATURE",
  no_server_auth    |-> "TLS-CERT-MISSING-SERVER-AUTH-EKU",
  no_aki            |-> "TLS-CERT-NO-AKI",
  is_ca             |-> "TLS-CERT-LEAF-IS-CA",
  short_serial      |-> "TLS-CERT-WEAK-SERIAL-ENTROPY",
  symantec          |-> "TLS-SYMANTEC-DISTRUSTED-CA",
  must_staple       |-> "TLS-MUST-STAPLE-VIOLATED",
  wrong_host        |-> "TLS-CERT-HOSTNAME-MISMATCH",
  no_san            |-> "TLS-CERT-CN-ONLY",
  wildcard          |-> "TLS-CERT-DANGEROUS-WILDCARD",
  shared            |-> "TLS-CERT-SHARED-INFRA-CERT"]

Flaws == DOMAIN FindingOf

(* A certificate and its chain; "unanchored" if no store knows the root.   *)
CertRecord == [
  notBefore: Int, notAfter: Int, intermediates: SUBSET Int,
  keyAlg: {"rsaEncryption", "ecPublicKey", "Ed25519", "Ed448", "other"},
  keyBits: Nat, flaws: SUBSET (Flaws \union {"unanchored"}), scts: Nat,
  operators: Nat, stapled: BOOLEAN,
  ocspStatus: {"none", "good", "revoked", "unknown"},
  mozillaTrusted: BOOLEAN, rejectedBy: SUBSET {"apple", "android", "java"}]

(* chrono's num_days(): whole days, truncated towards zero.                *)
num_days(hours) == IF hours >= 0 THEN hours \div 24 ELSE -((-hours) \div 24)

Lifetime(c) == num_days(c.notAfter - c.notBefore)

-----------------------------------------------------------------------------
(* A near expiry that starts at one day, a mutated form.                   *)
ValidityGap(c) ==
  LET days == num_days(c.notAfter) IN
  (IF days < 0 THEN {"TLS-CERT-EXPIRED"}
     ELSE IF days \in 1..29 THEN {"TLS-CERT-NEAR-EXPIRY"} ELSE {})
  \union (IF c.notBefore > 0 THEN {"TLS-CERT-NOT-YET-VALID"} ELSE {})
  \union (IF Lifetime(c) > 398 THEN {"TLS-CERT-EXCESSIVE-LIFETIME"} ELSE {})

(* The window: expired, or near expiry; not yet valid; too long.           *)
Validity(c) ==
  LET days == num_days(c.notAfter) IN
  (IF days < 0 THEN {"TLS-CERT-EXPIRED"}
     ELSE IF days < 30 THEN {"TLS-CERT-NEAR-EXPIRY"} ELSE {})
  \union (IF c.notBefore > 0 THEN {"TLS-CERT-NOT-YET-VALID"} ELSE {})
  \union (IF Lifetime(c) > 398 THEN {"TLS-CERT-EXCESSIVE-LIFETIME"} ELSE {})

(* The single-field tests.  A self-signed leaf is excused from AKI and CA; *)
(* must-staple is only violated without a staple.                          *)
Excused(c) ==
  (IF "self_signed" \in c.flaws THEN {"no_aki", "is_ca"} ELSE {})
    \union (IF c.stapled THEN {"must_staple"} ELSE {})

WeakKey(c) ==
  \/ c.keyAlg = "rsaEncryption" /\ c.keyBits < 2048
  \/ c.keyAlg = "ecPublicKey" /\ c.keyBits < 256

Leaf(c) ==
  {FindingOf[f] : f \in c.flaws \ Excused(c)}
    \union (IF WeakKey(c) THEN {"TLS-CERT-WEAK-KEY"} ELSE {})

Revocation(c) ==
  (IF c.stapled THEN {} ELSE {"TLS-OCSP-NOT-STAPLED"})
    \union (IF c.ocspStatus = "revoked" THEN {"TLS-OCSP-REVOKED"} ELSE {})

(* Certificate Transparency: Chrome's count and operator rules.            *)
Transparency(c) ==
  IF c.scts = 0 THEN {"TLS-SCT-MISSING"}
  ELSE (IF c.operators = 1 THEN {"TLS-CT-INSUFFICIENT-DIVERSITY"} ELSE {})
       \union (IF c.scts < (IF Lifetime(c) < 180 THEN 2 ELSE 3)
                 THEN {"TLS-CERT-SCT-COUNT-INSUFFICIENT"} ELSE {})

(* The chain's other certificates: expired ones outrank near ones.         *)
Intermediates(c) ==
  LET days == {num_days(h) : h \in c.intermediates} IN
  IF \E d \in days : d < 0 THEN {"TLS-CERT-INTERMEDIATE-EXPIRED"}
  ELSE IF \E d \in days : d < 90 THEN {"TLS-CERT-INTERMEDIATE-NEAR-EXPIRY"}
  ELSE {}

-----------------------------------------------------------------------------
(* The trust findings look at what is already in the findings vector, which*)
(* at that point does not hold the findings on the intermediates yet.      *)
BreachOfCert == {
  "TLS-CERT-EXPIRED", "TLS-CERT-SELF-SIGNED", "TLS-CERT-HOSTNAME-MISMATCH",
  "TLS-CERT-NOT-YET-VALID", "TLS-CERT-INTERMEDIATE-EXPIRED"}

ReasonGiven == BreachOfCert \union
  {"TLS-CERT-WEAK-SIGNATURE", "TLS-CERT-MISSING-SERVER-AUTH-EKU"}

NotTrusted == [
  apple   |-> "TLS-CHAIN-NOT-TRUSTED-APPLE",
  android |-> "TLS-CHAIN-NOT-TRUSTED-ANDROID",
  java    |-> "TLS-CHAIN-NOT-TRUSTED-JAVA"]

Trust(c, soFar) ==
  (IF ~c.mozillaTrusted /\ soFar \intersect ReasonGiven = {}
     THEN {"TLS-CHAIN-NOT-TRUSTED-MOZILLA"} ELSE {})
  \union
  (IF soFar \intersect BreachOfCert # {} THEN {}
     ELSE {NotTrusted[s] : s \in c.rejectedBy})

BeforeTrust(c) == Validity(c) \union Leaf(c) \union Revocation(c) \union Transparency(c)

(* The trust findings before those on the leaf's fields, a mutated form.   *)
TrustEarly(c) ==
  BeforeTrust(c) \union Trust(c, Validity(c)) \union Intermediates(c)

CertFindings(c) ==
  BeforeTrust(c) \union Trust(c, BeforeTrust(c)) \union Intermediates(c)
=============================================================================
