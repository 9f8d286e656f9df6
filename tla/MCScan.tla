------------------------------- MODULE MCScan -------------------------------
(* A well-run server, and one variation of it for each thing a probe looks *)
(* at, alone and with the ones it interacts with.                          *)
EXTENDS ScanClaims

goodCert == [
  notBefore |-> -24, notAfter |-> 2000, intermediates |-> {9000},
  keyAlg |-> "rsaEncryption", keyBits |-> 4096, flaws |-> {}, scts |-> 3,
  operators |-> 2, stapled |-> FALSE, ocspStatus |-> "good",
  mozillaTrusted |-> FALSE, rejectedBy |-> {}]

good == [
  reachable |-> TRUE, versions |-> {"tls12", "tls13"},
  suites |-> {\hC02F, \hC030}, suites13 |-> {\h1302}, cert |-> goodCert,
  staple |-> "good", hsts |-> TRUE, banner |-> {"other"}, flaws |-> {},
  lacks |-> {}, lenient |-> FALSE]

(* The same server with RSA key exchange and CBC beside its modern suites. *)
rsa == [good EXCEPT !.suites = {\hC02F, \h002F}]
old == [rsa EXCEPT !.versions = {"tls10", "tls12"}, !.suites13 = {}]

BadCerts == {
  [goodCert EXCEPT !.notBefore = -3000, !.notAfter = -48],
  [goodCert EXCEPT !.notAfter = -2],
  [goodCert EXCEPT !.intermediates = {-30}],
  [goodCert EXCEPT !.flaws = {"self_signed"}],
  [goodCert EXCEPT !.flaws = {"wrong_host"}],
  [goodCert EXCEPT !.flaws = {"unanchored"}],
  [goodCert EXCEPT !.ocspStatus = "revoked"]}

MCServers ==
  {good, rsa, old,
   [good EXCEPT !.reachable = FALSE],
   [good EXCEPT !.versions = {"tls13"}, !.suites = {}],
   [good EXCEPT !.versions = {"tls12"}, !.suites13 = {}],
   [good EXCEPT !.suites = {\h009E, \h0033}, !.flaws = {"dh1024", "dh_listed"}],
   [good EXCEPT !.suites = {\hC013}],
   [good EXCEPT !.suites = {\h0067}],
   [good EXCEPT !.suites = {\hC030, \h0001}, !.cert.keyBits = 2048],
   [good EXCEPT !.suites = {\hC02F, \h009D}, !.flaws = {"robot"}],
   [good EXCEPT !.staple = "revoked"],
   [good EXCEPT !.staple = "unreadable", !.cert.ocspStatus = "revoked"],
   [good EXCEPT !.staple = "unknown", !.cert.ocspStatus = "revoked"],
   [good EXCEPT !.flaws = {"ccs"}],
   [good EXCEPT !.flaws = {"ccs_silent", "early_data"}, !.lacks = {"scsv", "reneg_info"}],
   [good EXCEPT !.flaws = {"ticketbleed"}],
   [good EXCEPT !.lenient = TRUE, !.flaws = {"heartbleed"}, !.lacks = {"reneg_info"}],
   [good EXCEPT !.banner = {"cbc_family"}],
   [rsa EXCEPT !.flaws = {"robot"}],
   [rsa EXCEPT !.flaws = {"padding"}],
   [rsa EXCEPT !.flaws = {"goldendoodle"}],
   [rsa EXCEPT !.banner = {"openssl_old", "lucky13"}],
   [rsa EXCEPT !.cert.keyAlg = "ecPublicKey", !.cert.keyBits = 256,
               !.suites = {\hC02B, \hC009}],
   [rsa EXCEPT !.cert.keyAlg = "ecPublicKey", !.cert.keyBits = 256,
               !.suites = {\hC02B, \h009C}, !.flaws = {"robot"}],
   [old EXCEPT !.versions = {"ssl2", "ssl3", "tls10", "tls12"}, !.lacks = {"scsv"}],
   [rsa EXCEPT !.versions = {"ssl3", "tls12", "tls13"}],
   [old EXCEPT !.versions = {"ssl3", "tls10"}, !.suites = {\h0002}],
   [good EXCEPT !.lenient = TRUE, !.lacks = {"reneg_info"}],
   [old EXCEPT !.versions = {"tls10"}, !.suites = {\h002F, \h000A}],
   [old EXCEPT !.versions = {"tls10", "tls11", "tls12"}, !.suites = {\hC030, \h0005, \h0002}]}
  \union {[good EXCEPT !.cert = c] : c \in BadCerts}

ASSUME ServersAreWellformed == \A s \in MCServers : Wellformed(s)
=============================================================================
