------------------------------- MODULE Suites -------------------------------
(***************************************************************************)
(* The cipher suites cy-tls knows, by their 16-bit code point, and every   *)
(* list of code points the scan classifies an accepted suite with.         *)
(***************************************************************************)
EXTENDS Naturals

(* cipher_enum::TLS12_SUITES, by family.                                   *)
EcdheAead == {\hC02B, \hC02C, \hC02F, \hC030, \hCCA8, \hCCA9}
EcdheCbc  == {\hC023, \hC024, \hC027, \hC028, \hC009, \hC00A, \hC013, \hC014}
DheAead   == {\h009E, \h009F}
DheCbc    == {\h0033, \h0039, \h0067, \h006B}
RsaAead   == {\h009C, \h009D}
RsaCbc    == {\h002F, \h0035}
Rc4       == {\h0005, \h0004}
Null      == {\h0001, \h0002}
TripleDes == \h000A

TLS12_SUITES ==
  EcdheAead \union EcdheCbc \union DheAead \union DheCbc \union RsaAead
    \union RsaCbc \union Rc4 \union Null \union {TripleDes}

(* cipher_enum_tls13: the five-suite menu.                                 *)
TLS13_SUITES == {\h1301, \h1302, \h1303, \h1304, \h1305}

-----------------------------------------------------------------------------
(* The weak-cipher match of scan_one.                                      *)
WeakFindings(accepted) ==
  {id \in {"TLS-3DES-CIPHER", "TLS-RC4-CIPHER", "TLS-NULL-CIPHER"} :
     \/ id = "TLS-3DES-CIPHER" /\ TripleDes \in accepted
     \/ id = "TLS-RC4-CIPHER" /\ Rc4 \intersect accepted # {}
     \/ id = "TLS-NULL-CIPHER" /\ Null \intersect accepted # {}}

(* TLS_RSA_WITH_*: the suites that make scan_one run the ROBOT probe.      *)
RobotEligible == RsaCbc \union RsaAead \union Null \union Rc4 \union {TripleDes}

(* The suites that make it run the DH parameter probe.                     *)
DheSuites == DheAead \union DheCbc

(* vuln_goldendoodle::TLS12_CBC_SUITES that are enumerated at all; 0x003c  *)
(* and 0x003d are in the list but not in TLS12_SUITES.                     *)
CbcListed == EcdheCbc \union RsaCbc \union {\h0033, \h0039}
is_cbc_suite(s) == s \in CbcListed

(* The CBC suites by their names: what the list above means to be.         *)
CbcNamed == EcdheCbc \union RsaCbc \union DheCbc \union {TripleDes}

(* BEAST: the CBC suites scan_one matches when TLS 1.0 is supported.       *)
BeastSuites == EcdheCbc \union RsaCbc

(* The test on names behind TLS-CBC-ORACLE-FAMILY-FP: "_CBC_", or ending   *)
(* in _SHA, _SHA256 or _SHA384, which every name but RC4_128_MD5 and       *)
(* NULL_MD5 does, the GCM and CHACHA20 ones included.                      *)
NameLooksCbc(s) == s \notin {\h0004, \h0001}

(* Suites no version before TLS 1.2 can negotiate.                         *)
Tls12Only == TLS12_SUITES \ ({\hC009, \hC00A, \hC013, \hC014, \h0033, \h0039}
                             \union RsaCbc \union Rc4 \union Null \union {TripleDes})

-----------------------------------------------------------------------------
(* forward_secrecy::classify_kx                                            *)
KxRsa(s)   == s \in RobotEligible
KxDhe(s)   == s \in DheSuites
KxEcdhe(s) == s \in EcdheAead \union EcdheCbc

(* forward_secrecy::classify, on the suites and whether TLS 1.3 was seen.  *)
FsBucket(accepted, tls13) ==
  LET has(Kx(_)) == \E s \in accepted : Kx(s) IN
  IF has(KxRsa) THEN IF has(KxDhe) \/ has(KxEcdhe) THEN "some-clients" ELSE "none"
  ELSE IF has(KxDhe) THEN "modern-clients"
  ELSE IF has(KxEcdhe) THEN IF tls13 THEN "robust" ELSE "modern-clients"
  ELSE IF tls13 THEN "robust" ELSE "none"

(* grade::score_for_suite, on the names the suites have.                   *)
SuiteScore(s) ==
  IF s \in Null THEN 0
  ELSE IF s \in Rc4 THEN 40
  ELSE IF s = TripleDes THEN 60
  ELSE IF s \in {\hC02C, \hC030, \hCCA8, \hCCA9, \h009F, \h009D, \h1302, \h1303} THEN 100
  ELSE IF s \in {\hC02B, \hC02F, \h009E, \h009C, \h1301, \h1304, \h1305} THEN 95
  ELSE 80
=============================================================================
