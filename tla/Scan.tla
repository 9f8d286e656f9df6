-------------------------------- MODULE Scan --------------------------------
(***************************************************************************)
(* scan_one (scan/mod.rs): the probes a target goes through, one after the *)
(* other, what each leaves for the later ones, and the report drawn from   *)
(* it.  Every probe may be lost to the network; what the scan does then is *)
(* its own business, probe by probe.  `findings` holds the IDs that decide *)
(* the grade and the summary and those some property is about; posture     *)
(* findings on HTTP headers, HTTP/2, cipher preference and DNS are not     *)
(* followed.                                                               *)
(***************************************************************************)
EXTENDS Probes, Grade

CONSTANTS
  Servers,               \* the servers a scan may meet
  MaxFaults              \* probes lost in one scan, at most

ASSUME ScanAssumption ==
  /\ MaxFaults \in Nat
  /\ Servers \subseteq {s \in ServerRecord : Wellformed(s)}

VARIABLES
  server,                \* the target
  full,                  \* without --no-cipher-enum
  pc,                    \* the probe that is next
  faults,                \* probes lost so far
  seen,                  \* what the probes have recorded
  findings,              \* IDs in the findings vector
  report                 \* grade and summary, or NoReport

vars == <<server, full, pc, faults, seen, findings, report>>

-----------------------------------------------------------------------------
NothingSeen == [
  ssl2 |-> FALSE, ssl3 |-> FALSE, tls10 |-> FALSE, tls11 |-> FALSE,
  tls12 |-> FALSE, tls13 |-> FALSE, suites |-> {}, zero_rtt |-> FALSE]

Unscanned == [
  proto    |-> NothingSeen,      \* ProtocolSupport
  cert     |-> NoCert,           \* CertificateInfo, or none
  accepted |-> {},               \* accepted_at_12 of the first enumeration
  banner   |-> {},               \* ServerFingerprint
  hsts     |-> FALSE,            \* headers.hsts.present
  fs       |-> "uncomputed"]     \* forward_secrecy_bucket

NoReport == [letter |-> "none", score |-> 0, passed |-> FALSE, breaches |-> {}]

Steps == {
  "connect", "handshake", "legacy", "strict", "tolerant", "ocsp", "staple",
  "zero_rtt", "enum13", "enum12", "robot", "dh", "features", "heartbleed",
  "ccs", "ticketbleed", "headers", "fingerprint", "padding", "goldendoodle",
  "banner", "grease", "fs", "scsv", "conclude", "done"}

Init ==
  /\ server \in Servers
  /\ full \in BOOLEAN
  /\ pc = "connect"
  /\ faults = 0
  /\ seen = Unscanned
  /\ findings = {}
  /\ report = NoReport

(* One step of the scan; a lost probe counts as a fault.                   *)
Probe(from, to, lost) ==
  /\ pc = from
  /\ pc' = to
  /\ faults' = faults + (IF lost THEN 1 ELSE 0)
  /\ faults' <= MaxFaults
  /\ UNCHANGED <<server, full>>

Push(ids) == findings' = findings \union ids
When(condition, ids) == IF condition THEN ids ELSE {}

(* The CBC suites scan_one keeps for the padding oracle probes.            *)
Cbc == {s \in seen.accepted : is_cbc_suite(s)}

-----------------------------------------------------------------------------
(* resolve_and_connect; a target that cannot be reached gets a stub.       *)
Connect(lost) ==
  LET up == server.reachable /\ ~lost IN
  /\ Probe("connect", IF up THEN "handshake" ELSE "done", lost)
  /\ Push(When(~up, {"TLS-UNREACHABLE"}))
  /\ UNCHANGED <<seen, report>>

(* protocol::enumerate, the rustls handshake: it marks one version.        *)
Handshake(lost) ==
  /\ Probe("handshake", "legacy", lost)
  /\ IF lost \/ StrictHandshakes(server) = {}
       THEN UNCHANGED seen
       ELSE \E h \in StrictHandshakes(server) :
              seen' = [seen EXCEPT !.proto[h[1]] = TRUE, !.proto.suites = {h[2]}]
  /\ UNCHANGED <<findings, report>>

ProtocolFindings(proto) ==
  When(proto.ssl2, {"TLS-SSLV2", "TLS-DROWN-VULNERABLE"})
    \union When(proto.ssl3, {"TLS-SSLV3"})
    \union When(proto.tls10, {"TLS-WEAK-VERSION-1.0"})
    \union When(proto.tls11, {"TLS-WEAK-VERSION-1.1"})
    \union When(~proto.tls13, {"TLS-NO-TLS13"})
    \union When(proto.zero_rtt, {"TLS-ZERO-RTT-ACCEPTED"})

(* protocol::enumerate, the four raw probes, then contribute_findings.     *)
LegacyVersions(lost) ==
  /\ pc = "legacy"
  /\ pc' = "strict"
  /\ faults' = faults + Cardinality(lost)
  /\ faults' <= MaxFaults
  /\ seen' = [seen EXCEPT !.proto =
       [v \in DOMAIN @ |-> IF v \in Legacy THEN v \in LegacySeen(server, lost) ELSE @[v]]]
  /\ Push(ProtocolFindings(seen'.proto))
  /\ UNCHANGED <<server, full, report>>

-----------------------------------------------------------------------------
(* The record of an inspection that forgets how it connected, a mutated    *)
(* form.                                                                   *)
InspectedVerified(trusted) ==
  [Observed(server.cert) EXCEPT
     !.mozillaTrusted = TRUE, !.stapled = FALSE, !.ocspStatus = "none"]

(* cert::inspect.  Its first connect fails: no certificate.  The strict    *)
(* handshake fails, or times out: once more without verification, and the  *)
(* chain counts as refused.  That fails too: no certificate.               *)
Inspected(trusted) ==
  [Observed(server.cert) EXCEPT
     !.mozillaTrusted = trusted, !.stapled = FALSE, !.ocspStatus = "none"]

InspectConnectFails ==
  /\ Probe("strict", "staple", TRUE)
  /\ UNCHANGED <<seen, findings, report>>

StrictInspect(lost) ==
  LET accepted == ~lost /\ StrictHandshakes(server) # {} IN
  /\ Probe("strict", IF accepted THEN "ocsp" ELSE "tolerant", lost)
  /\ seen' = IF accepted THEN [seen EXCEPT !.cert = Inspected(TRUE)] ELSE seen
  /\ UNCHANGED <<findings, report>>

TolerantInspect(lost) ==
  LET accepted == ~lost /\ Handshakes(server) # {} IN
  /\ Probe("tolerant", IF accepted THEN "ocsp" ELSE "staple", lost)
  /\ seen' = IF accepted THEN [seen EXCEPT !.cert = Inspected(FALSE)] ELSE seen
  /\ UNCHANGED <<findings, report>>

(* active_ocsp_query; "none" is also a leaf without a responder URL.       *)
QueryResponder(lost) ==
  /\ Probe("ocsp", "staple", lost)
  /\ seen' = IF lost THEN seen
             ELSE [seen EXCEPT !.cert.ocspStatus = server.cert.ocspStatus]
  /\ UNCHANGED <<findings, report>>

(* A probe without a staple erases what the responder said, a mutated form.*)
StapleErases(lost) ==
  LET status == StapleSeen(server, lost) IN
  /\ Probe("staple", "zero_rtt", lost)
  /\ seen' = IF seen.cert.keyAlg = "none" THEN seen
             ELSE [seen EXCEPT
                     !.cert.stapled = status # "absent",
                     !.cert.ocspStatus =
                        IF status \in {"absent", "unreadable"} THEN "none" ELSE status]
  /\ UNCHANGED <<findings, report>>

(* ocsp::probe: a staple with a status overrides the responder.            *)
Staple(lost) ==
  LET status == StapleSeen(server, lost) IN
  /\ Probe("staple", "zero_rtt", lost)
  /\ seen' = IF seen.cert.keyAlg = "none" THEN seen
             ELSE [seen EXCEPT
                     !.cert.stapled = status # "absent",
                     !.cert.ocspStatus =
                        IF status \in {"absent", "unreadable"} THEN @ ELSE status]
  /\ UNCHANGED <<findings, report>>

(* tls13_0rtt::probe, then the findings on the certificate.                *)
ZeroRtt(lost) ==
  /\ Probe("zero_rtt", IF full THEN "enum13" ELSE "ccs", lost)
  /\ seen' = [seen EXCEPT !.proto.zero_rtt =
                seen.proto.tls13 /\ ZeroRttAccepted(server, lost)]
  /\ Push(When(seen.cert.keyAlg # "none", CertFindings(seen.cert)))
  /\ UNCHANGED report

-----------------------------------------------------------------------------
(* The cipher enumerations.  Only the second one feeds findings.           *)
EnumerateTls13(lost) ==
  /\ Probe("enum13", "enum12", lost)
  /\ \E e \in IF seen.proto.tls13 THEN Enumerated13(server, lost) ELSE {{}} :
       seen' = [seen EXCEPT !.proto.suites = @ \union e]
  /\ UNCHANGED <<findings, report>>

EnumerateTls12(lost) ==
  /\ Probe("enum12", "robot", lost)
  /\ \E e \in Enumerated(server, lost) :
       /\ seen' = [seen EXCEPT !.accepted = e,
                               !.proto.suites = @ \union e,
                               !.proto.tls12 = @ \/ e # {}]
       /\ Push(WeakFindings(e))
  /\ UNCHANGED report

(* The ROBOT probe, for servers with RSA key exchange.  A probe that could *)
(* not run counts as a vulnerable server.                                  *)
Robot(lost) ==
  /\ Probe("robot", "dh", lost)
  /\ \E v \in IF RobotEligible \intersect seen.accepted = {}
                THEN {"not_run"} ELSE RobotVerdicts(server, lost) :
       Push(When(v \in {"vulnerable", "indeterminate"}, {"TLS-ROBOT-VULNERABLE"}))
  /\ UNCHANGED <<seen, report>>

(* The DH parameter probe, then CBC and BEAST eligibility.                 *)
DhAndCbc(lost) ==
  /\ Probe("dh", "features", lost)
  /\ Push(When(DheSuites \intersect seen.accepted # {}, DhFindings(server, lost))
          \union When(\/ Cbc # {}
                      \/ seen.proto.tls10 /\ BeastSuites \intersect seen.accepted # {},
                      {"TLS-CBC-MAC-THEN-ENCRYPT"}))
  /\ UNCHANGED <<seen, report>>

-----------------------------------------------------------------------------
(* tls12_features::probe and the findings on extensions.                   *)
TlsFeatures(lost) ==
  /\ \E f \in Features(server, lost) :
       /\ Probe("features", IF "heartbeat" \in f.with THEN "heartbleed" ELSE "ccs", lost)
       /\ Push(When("heartbeat" \in f.with, {"TLS-HEARTBEAT-ENABLED"})
               \union When(seen.proto.tls12 /\ "reneg_info" \in f.without,
                           {"TLS-INSECURE-RENEG-LEGACY"})
               \union When(seen.proto.tls12 /\ "ems" \in f.without,
                           {"TLS-NO-EXTENDED-MASTER-SECRET"}))
  /\ UNCHANGED <<seen, report>>

Heartbleed(lost) ==
  /\ Probe("heartbleed", "ccs", lost)
  /\ Push(When(HeartbleedVerdict(server, lost) = "vulnerable", {"TLS-HEARTBLEED"}))
  /\ UNCHANGED <<seen, report>>

Ccs(lost) ==
  /\ Probe("ccs", "ticketbleed", lost)
  /\ \E v \in IF seen.proto.tls12 THEN CcsVerdicts(server, lost) ELSE {"not_run"} :
       Push(When(v = "vulnerable", {"TLS-CCS-INJECTION"}))
  /\ UNCHANGED <<seen, report>>

Ticketbleed(lost) ==
  /\ Probe("ticketbleed", "headers", lost)
  /\ Push(When(seen.proto.tls12 /\ TicketbleedVerdict(server, lost) = "vulnerable",
               {"TLS-TICKETBLEED"}))
  /\ UNCHANGED <<seen, report>>

Headers(lost) ==
  /\ Probe("headers", "fingerprint", lost)
  /\ seen' = [seen EXCEPT !.hsts = HstsSeen(server, lost)]
  /\ UNCHANGED <<findings, report>>

Fingerprint(lost) ==
  /\ Probe("fingerprint", IF Cbc = {} THEN "banner" ELSE "padding", lost)
  /\ seen' = [seen EXCEPT !.banner = BannerSeen(server, lost)]
  /\ UNCHANGED <<findings, report>>

-----------------------------------------------------------------------------
(* The CBC padding oracle: confirmed, cleared, or else the same ID from the*)
(* banner or from eligibility alone.                                       *)
PaddingOracle(lost) ==
  /\ Probe("padding", "goldendoodle", lost)
  /\ \E v \in IF \h002F \in Cbc THEN PaddingVerdicts(server, lost) ELSE {"not_run"} :
       Push(When(v # "not_vulnerable", {"TLS-OPENSSL-PADDING-ORACLE"}))
  /\ UNCHANGED <<seen, report>>

Goldendoodle(lost) ==
  /\ Probe("goldendoodle", "banner", lost)
  /\ Push(When(\h002F \in Cbc /\ GoldendoodleVerdict(server, lost) = "vulnerable",
               {"TLS-GOLDENDOODLE-ACTIVE"}))
  /\ UNCHANGED <<seen, report>>

(* Verdicts drawn from the Server header.                                  *)
JudgeBanner ==
  /\ Probe("banner", IF full THEN "grease" ELSE "conclude", FALSE)
  /\ Push(When(Cbc # {} /\ "lucky13" \in seen.banner, {"TLS-LUCKY13-LIKELY"})
          \union When(/\ full
                      /\ "cbc_family" \in seen.banner
                      /\ \E s \in seen.proto.suites \intersect TLS12_SUITES : NameLooksCbc(s),
                      {"TLS-CBC-ORACLE-FAMILY-FP"}))
  /\ UNCHANGED <<seen, report>>

Grease(lost) ==
  /\ Probe("grease", "fs", lost)
  /\ Push(When(~GreaseTolerated(server, lost), {"TLS-GREASE-INTOLERANT"}))
  /\ UNCHANGED <<seen, report>>

(* Forward secrecy, from an enumeration of its own.                        *)
ForwardSecrecy(lost) ==
  /\ Probe("fs", "scsv", lost)
  /\ \E e \in Enumerated(server, lost) :
       LET bucket == FsBucket(e, seen.proto.tls13) IN
       /\ seen' = [seen EXCEPT !.fs = bucket]
       /\ Push(When(bucket \in {"none", "some-clients"}, {"TLS-FORWARD-SECRECY-WEAK"}))
  /\ UNCHANGED report

FallbackScsv(lost) ==
  /\ Probe("scsv", "conclude", lost)
  /\ Push(When(/\ seen.proto.tls12 \/ seen.proto.tls13
               /\ ScsvVerdict(server, lost) = "not_honored",
               {"TLS-NO-FALLBACK-SCSV"}))
  /\ UNCHANGED <<seen, report>>

(* grade::compute and summary::compute, on all of it.                      *)
Conclude ==
  LET letter == Letter(seen.proto, seen.cert, seen.hsts, findings, seen.fs) IN
  /\ Probe("conclude", "done", FALSE)
  /\ report' = [letter   |-> letter,
                score    |-> Score(seen.proto, seen.cert, findings),
                passed   |-> Passed(letter, findings),
                breaches |-> Breaches(findings)]
  /\ UNCHANGED <<seen, findings>>

Advance(lost) ==
  \/ Connect(lost)
  \/ Handshake(lost)
  \/ StrictInspect(lost)
  \/ TolerantInspect(lost)
  \/ QueryResponder(lost)
  \/ Staple(lost)
  \/ ZeroRtt(lost)
  \/ EnumerateTls13(lost)
  \/ EnumerateTls12(lost)
  \/ Robot(lost)
  \/ DhAndCbc(lost)
  \/ TlsFeatures(lost)
  \/ Heartbleed(lost)
  \/ Ccs(lost)
  \/ Ticketbleed(lost)
  \/ Headers(lost)
  \/ Fingerprint(lost)
  \/ PaddingOracle(lost)
  \/ Goldendoodle(lost)
  \/ Grease(lost)
  \/ ForwardSecrecy(lost)
  \/ FallbackScsv(lost)

Step ==
  \/ \E lost \in BOOLEAN : Advance(lost)
  \/ \E lost \in SUBSET Legacy : LegacyVersions(lost)
  \/ InspectConnectFails
  \/ JudgeBanner
  \/ Conclude

Terminated == pc = "done" /\ UNCHANGED vars

Next == Step \/ Terminated

(* Every await of scan_one is under a timeout, the two blocking fetches    *)
(* under ureq's.                                                           *)
Spec == Init /\ [][Next]_vars /\ WF_vars(Step)

-----------------------------------------------------------------------------
Letters == {"A+", "A", "B", "C", "D", "E", "F", "T"}

TypeOK ==
  /\ server \in Servers
  /\ full \in BOOLEAN
  /\ pc \in Steps
  /\ faults \in 0..MaxFaults
  /\ seen \in [
       proto: [ssl2: BOOLEAN, ssl3: BOOLEAN, tls10: BOOLEAN, tls11: BOOLEAN,
               tls12: BOOLEAN, tls13: BOOLEAN, zero_rtt: BOOLEAN,
               suites: SUBSET (TLS12_SUITES \union TLS13_SUITES)],
       cert: CertRecord \union {NoCert},
       accepted: SUBSET TLS12_SUITES,
       banner: SUBSET Banners,
       hsts: BOOLEAN,
       fs: {"uncomputed", "none", "some-clients", "modern-clients", "robust"}]
  /\ \/ report = NoReport
     \/ report.letter \in Letters /\ report.score \in 0..100

(* Whatever probes were lost, a target only passes when its chain has been *)
(* accepted by the Mozilla store: a lost inspection leaves no certificate, *)
(* which costs the grade, and a chain seen only without verification makes *)
(* it T, or F when the certificate says why.                               *)
PassMeansTrusted == report.passed => Trusted(server.cert)

(* What a server really exposes, under the IDs of BREACH_INDICATORS; the   *)
(* two IDs that also stand for mere eligibility are left out.              *)
Eligibility == {"TLS-ROBOT-VULNERABLE", "TLS-OPENSSL-PADDING-ORACLE"}
OldVersions(versions) ==
  When("ssl2" \in versions, {"TLS-SSLV2", "TLS-DROWN-VULNERABLE"})
    \union When("ssl3" \in versions, {"TLS-SSLV3"})
Exposed(s) ==
  OldVersions(s.versions)
    \union WeakFindings(s.suites)
    \union When("ccs" \in s.flaws, {"TLS-CCS-INJECTION"})
    \union When("ticketbleed" \in s.flaws, {"TLS-TICKETBLEED"})
    \union When("goldendoodle" \in s.flaws, {"TLS-GOLDENDOODLE-ACTIVE"})
    \union When("revoked" \in {s.cert.ocspStatus, s.staple}, {"TLS-OCSP-REVOKED"})
    \union (CertFindings(Observed(s.cert)) \ {"TLS-OCSP-REVOKED"})

(* No probe, lost or not, in any combination, invents a breach.            *)
NoInventedBreach ==
  (findings \intersect BreachIndicators) \ Eligibility \subseteq Exposed(server)

(* The breaches a complete scan can see: those whose probe's ClientHello   *)
(* the server answers, with an RSA key where the probe encrypts to it, and *)
(* those of a certificate that a handshake shows.  A staple with a status, *)
(* "unknown" included, hides the responder's verdict.                      *)
Detectable(s) ==
  LET over(offer, flaw, id) == When(Answers(s, offer) /\ flaw \in s.flaws, {id})
      staple == StapleSeen(s, FALSE)
  IN
  OldVersions(LegacySeen(s, {}))
    \union (WeakFindings(s.suites) \intersect BreachIndicators)
    \union over(FeatureOffer, "ccs", "TLS-CCS-INJECTION")
    \union over(FeatureOffer, "ticketbleed", "TLS-TICKETBLEED")
    \union over({\h002F}, "padding", "TLS-OPENSSL-PADDING-ORACLE")
    \union When(s.cert.keyAlg = "rsaEncryption",
                over(RobotOffer, "robot", "TLS-ROBOT-VULNERABLE")
                  \union over({\h002F}, "goldendoodle", "TLS-GOLDENDOODLE-ACTIVE"))
    \union When(Handshakes(s) # {},
                ((CertFindings(Observed(s.cert)) \ {"TLS-OCSP-REVOKED"})
                   \intersect BreachIndicators)
                \union
                When(\/ staple = "revoked"
                     \/ /\ staple \in {"absent", "unreadable"}
                        /\ s.cert.ocspStatus = "revoked",
                     {"TLS-OCSP-REVOKED"}))

(* A complete scan that lost no probe tells every breach it could see, and *)
(* passes no target that has one or whose certificate it has not seen.     *)
CompleteScanTells ==
  pc = "done" /\ server.reachable /\ full /\ faults = 0 =>
    /\ Detectable(server) \subseteq findings
    /\ report.passed => Detectable(server) = {} /\ Handshakes(server) # {}

(* The scan implements what a report promises.                             *)
AbstractReport == INSTANCE Assessment WITH
  passed   <- report.passed,
  breaches <- report.breaches,
  final    <- pc = "done"
ImplementsAssessment == AbstractReport!Spec
=============================================================================
