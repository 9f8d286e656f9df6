------------------------------- MODULE Probes -------------------------------
(***************************************************************************)
(* The probes of a scan, one operator each: the set of outcomes a probe can*)
(* have against a server, `lost` when the network makes it fail somewhere  *)
(* between connect and the last read (refused, reset, timed out).          *)
(***************************************************************************)
EXTENDS Server

(* legacy_proto::build_client_hello: of the suites the enumeration knows,  *)
(* those offered to see whether a version before TLS 1.2 is spoken; NULL is*)
(* not among them.                                                         *)
LegacyOffer ==
  EcdheAead \union RsaAead \union RsaCbc \union Rc4
    \union {TripleDes, \h0033, \h0039, \hC009, \hC00A, \hC013, \hC014}

(* legacy_proto::probe_version and probe_sslv2, with its own suites: the   *)
(* version, unless lost or served only with suites that are not offered.   *)
LegacySeen(s, lost) ==
  {v \in (s.versions \intersect Legacy) \ lost :
     v = "ssl2" \/ Answers(s, LegacyOffer \ Tls12Only)}

(* ocsp::probe, over a TLS 1.2 handshake: the status in the staple, or     *)
(* "absent"; a staple that does not parse is stapled without a status.     *)
FeatureOffer == {\hC02F, \hC030, \hC02B, \hC02C, \hCCA8, \hCCA9, \h009C}
StapleSeen(s, lost) ==
  IF lost \/ ~Answers(s, FeatureOffer) THEN "absent" ELSE s.staple

(* cipher_enum::enumerate_at_version: every accepted suite, or those found *)
(* before the handshake that was lost.  The ServerHello's version is not   *)
(* looked at.                                                              *)
Enumerated(s, lost) == IF lost THEN SUBSET s.suites ELSE {s.suites}

(* cipher_enum_tls13::enumerate                                            *)
Enumerated13(s, lost) == IF lost THEN SUBSET s.suites13 ELSE {s.suites13}

(* tls13_0rtt::probe: one handshake for a ticket, and a second one with    *)
(* early data; an answer only if neither is lost.                          *)
ZeroRttAccepted(s, lost) == ~lost /\ "early_data" \in s.flaws

(* vuln_robot::probe: five malformed ClientKeyExchanges.  An observation   *)
(* that is lost is a response class like any other, so it makes a sound    *)
(* server look like an oracle, and can hide one.                           *)
RobotOffer == {\h009C, \h009D, \h002F, \h0035}
RobotVerdicts(s, lost) ==
  IF ~Answers(s, RobotOffer) \/ s.cert.keyAlg # "rsaEncryption"
    THEN IF lost THEN {"not_applicable", "indeterminate"} ELSE {"not_applicable"}
  ELSE IF lost
    THEN {"not_applicable", "not_vulnerable", "vulnerable", "indeterminate"}
  ELSE IF "robot" \in s.flaws THEN {"vulnerable"} ELSE {"not_vulnerable"}

(* dh_params::probe: the findings on the group.                            *)
DhFindings(s, lost) ==
  IF lost \/ ~Answers(s, DheSuites) THEN {}
  ELSE (IF "dh1024" \in s.flaws THEN {"TLS-DH-WEAK"} ELSE {})
       \union (IF "dh_listed" \in s.flaws THEN {"TLS-DH-COMMON-PRIME"} ELSE {})

(* tls12_features::probe: the extensions the ServerHello is seen without   *)
(* (Some(false)) and with (Some(true)).  The hello's heartbeat extension   *)
(* carries a byte its length does not count, so the extensions after it,   *)
(* Extended Master Secret among them, cannot be parsed; only a lenient     *)
(* server answers.  A ServerHello with no extension block at all says      *)
(* nothing of any; it has one when an extension is answered.               *)
NoFeatures == [without |-> {}, with |-> {}]
Features(s, lost) ==
  IF lost \/ ~s.lenient \/ ~Answers(s, FeatureOffer) THEN {NoFeatures}
  ELSE {[without |-> {"ems"} \union (s.lacks \intersect {"reneg_info"}),
         with    |-> IF "heartbleed" \in s.flaws THEN {"heartbeat"} ELSE {}]}
       \union {f \in {NoFeatures} : "reneg_info" \in s.lacks /\ "heartbleed" \notin s.flaws}

(* vuln_heartbleed::probe: its heartbeat record announces 8 bytes and has  *)
(* 3, so the server keeps waiting for the rest and nothing is read back.   *)
HeartbleedVerdict(s, lost) == IF lost THEN "indeterminate" ELSE "not_vulnerable"

(* No answer in time taken for acceptance, a mutated form.                 *)
CcsTimeoutAccepts(s, lost) ==
  IF ~Answers(s, FeatureOffer) THEN {"indeterminate"}
  ELSE IF lost \/ "ccs" \in s.flaws THEN {"vulnerable"} ELSE {"not_vulnerable"}

(* vuln_ccs::probe: silence after the early ChangeCipherSpec is read as a  *)
(* refusal.                                                                *)
CcsVerdicts(s, lost) ==
  IF ~Answers(s, FeatureOffer) THEN {"indeterminate"}
  ELSE IF lost THEN {"indeterminate", "not_vulnerable"}
  ELSE IF "ccs" \in s.flaws THEN {"vulnerable"} ELSE {"not_vulnerable"}

(* vuln_ticketbleed::probe                                                 *)
TicketbleedVerdict(s, lost) ==
  IF lost \/ ~Answers(s, FeatureOffer) THEN "indeterminate"
  ELSE IF "ticketbleed" \in s.flaws THEN "vulnerable" ELSE "not_vulnerable"

(* headers::fetch and server_fingerprint::fetch, over a verified handshake.*)
HstsSeen(s, lost)   == ~lost /\ StrictHandshakes(s) # {} /\ s.hsts
BannerSeen(s, lost) == IF lost \/ StrictHandshakes(s) = {} THEN {} ELSE s.banner

(* vuln_padding_oracle_active::probe.  A refused handshake is an alert like*)
(* any other; two timeouts, an early close or a key that is not RSA leave  *)
(* it undecided.                                                           *)
PaddingVerdicts(s, lost) ==
  IF lost THEN {"indeterminate", "not_vulnerable"}
  ELSE IF ~Answers(s, {\h002F}) THEN {"not_vulnerable"}
  ELSE IF s.cert.keyAlg # "rsaEncryption" THEN {"indeterminate"}
  ELSE IF "padding" \in s.flaws THEN {"vulnerable"} ELSE {"not_vulnerable"}

(* vuln_goldendoodle_active::probe                                         *)
GoldendoodleVerdict(s, lost) ==
  IF lost \/ ~Answers(s, {\h002F}) \/ s.cert.keyAlg # "rsaEncryption"
    THEN "indeterminate"
  ELSE IF "goldendoodle" \in s.flaws THEN "vulnerable" ELSE "not_vulnerable"

(* grease::probe: a ServerHello for a suite that was not reserved.         *)
GreaseOffer == {\hC02F, \hC030, \h009C, \h002F}
GreaseTolerated(s, lost) ==
  ~lost /\ Answers(s, GreaseOffer) /\ "grease" \notin s.lacks

(* fallback_scsv::probe: a TLS 1.1 ClientHello with the signalling suite.  *)
ScsvVerdict(s, lost) ==
  IF lost THEN "indeterminate"
  ELSE IF "scsv" \notin s.lacks /\ s.versions \intersect {"tls12", "tls13"} # {}
    THEN "honored"
  ELSE IF /\ s.versions \intersect {"ssl3", "tls10", "tls11"} # {}
          /\ Answers(s, GreaseOffer \ Tls12Only)
    THEN "not_honored"
  ELSE "indeterminate"
=============================================================================
