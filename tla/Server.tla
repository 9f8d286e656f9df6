------------------------------- MODULE Server -------------------------------
(***************************************************************************)
(* The TLS server on the other side of a scan: external, described by what *)
(* the probes of cy-tls depend on.  A server is a record                   *)
(*   reachable   its port accepts connections                              *)
(*   versions    protocol versions it speaks                               *)
(*   suites      what it accepts in a handshake up to TLS 1.2              *)
(*   suites13    what it accepts in a TLS 1.3 handshake                    *)
(*   cert        its certificate, as Cert.tla describes it; ocspStatus is  *)
(*               what the OCSP responder answers                           *)
(*   staple      "absent", or the status in the response it staples        *)
(*   hsts        it sends Strict-Transport-Security                        *)
(*   banner      what its Server header gives away, a subset of Banners    *)
(*   flaws       vulnerabilities it has, a subset of Vulnerabilities       *)
(*   lacks       protections it does not have, a subset of Protections     *)
(*   lenient     it answers a ClientHello whose extension block does not   *)
(*               parse, using the extensions before the damage             *)
(***************************************************************************)
EXTENDS Cert, Suites

Versions == {"ssl2", "ssl3", "tls10", "tls11", "tls12", "tls13"}
Legacy   == {"ssl2", "ssl3", "tls10", "tls11"}

(* "ccs" answers an early ChangeCipherSpec with a record of its own,       *)
(* "ccs_silent" accepts it and waits for the client.                       *)
Vulnerabilities == {
  "robot", "ccs", "ccs_silent", "ticketbleed", "heartbleed", "padding",
  "goldendoodle", "dh1024", "dh_listed", "early_data"}
Protections == {"reneg_info", "scsv", "grease"}
Banners == {"openssl_old", "lucky13", "cbc_family", "other"}

ServerRecord == [
  reachable: BOOLEAN, versions: SUBSET Versions, suites: SUBSET TLS12_SUITES,
  suites13: SUBSET TLS13_SUITES, cert: CertRecord,
  staple: {"absent", "unreadable", "good", "revoked", "unknown"},
  hsts: BOOLEAN, banner: SUBSET Banners, flaws: SUBSET Vulnerabilities,
  lacks: SUBSET Protections, lenient: BOOLEAN]

(* A server that speaks some version up to TLS 1.2 (SSLv2 has suites of its*)
(* own) accepts some suite in it, and only TLS 1.2 negotiates Tls12Only.   *)
Wellformed(s) ==
  /\ (s.suites = {}) = (s.versions \subseteq {"ssl2", "tls13"})
  /\ (s.suites13 = {}) = ("tls13" \notin s.versions)
  /\ "tls12" \notin s.versions => s.suites \intersect Tls12Only = {}
  /\ s.versions \intersect {"ssl3", "tls10", "tls11"} # {} =>
       s.suites \ Tls12Only # {}

-----------------------------------------------------------------------------
(* webpki, with the Mozilla roots: a chain is refused outside its validity,*)
(* not anchored in the store, for another host, self-signed, or without    *)
(* serverAuth.                                                             *)
InWindow(c) == c.notBefore <= 0 /\ c.notAfter > 0 /\ \A h \in c.intermediates : h > 0

Refused == {"self_signed", "wrong_host", "no_san", "is_ca", "no_server_auth", "unanchored"}

Trusted(c) == InWindow(c) /\ c.flaws \intersect Refused = {}

(* What inspect() records of a certificate.                                *)
Observed(c) ==
  [c EXCEPT !.mozillaTrusted = Trusted(c), !.flaws = @ \ {"unanchored"}]

(* The outcomes of a rustls handshake, as <<version, suite>>: TLS 1.3 where*)
(* the server has it, else TLS 1.2 with an AEAD suite over ECDHE.          *)
Rustls13 == {\h1301, \h1302, \h1303}
Handshakes(s) ==
  IF "tls13" \in s.versions
    THEN {<<"tls13", c>> : c \in s.suites13 \intersect Rustls13}
  ELSE IF "tls12" \in s.versions
    THEN {<<"tls12", c>> : c \in s.suites \intersect EcdheAead}
  ELSE {}

(* The same, when the client also verifies the chain.                      *)
StrictHandshakes(s) == IF Trusted(s.cert) THEN Handshakes(s) ELSE {}

(* A hand-made TLS 1.2 ClientHello with these suites gets a ServerHello: it*)
(* offers no supported_versions, so TLS 1.3 is never negotiated, and an    *)
(* older server answers it with its own version.                           *)
Answers(s, offer) == s.suites \intersect offer # {}
=============================================================================
