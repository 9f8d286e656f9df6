------------------------------- MODULE Grade -------------------------------
(***************************************************************************)
(* grade::compute and summary::compute: the letter, the score and the      *)
(* `passed` flag of a report.  Inputs: the protocols seen, with the cipher *)
(* suites recorded for TLS 1.2 and 1.3; the certificate, or NoCert; HSTS   *)
(* (present or preloaded); the finding IDs; the forward secrecy bucket, or *)
(* "uncomputed".                                                           *)
(***************************************************************************)
EXTENDS Catalog, Suites, FiniteSets

NoCert == [keyAlg |-> "none", keyBits |-> 0, mozillaTrusted |-> FALSE]

lesser(a, b) == IF a < b THEN a ELSE b

(* What a protocol record and a certificate must be for a grade.           *)
IsProto(p) ==
  /\ \A v \in {"ssl2", "ssl3", "tls10", "tls11", "tls12", "tls13"} : p[v] \in BOOLEAN
  /\ p.suites \subseteq TLS12_SUITES \union TLS13_SUITES
IsCert(c) == c.keyBits \in Nat /\ c.mozillaTrusted \in BOOLEAN

-----------------------------------------------------------------------------
(* Protocol score.                                                         *)
ProtocolScore(proto) ==
  LET best == IF proto.tls13 THEN 100
              ELSE IF proto.tls12 THEN 95
              ELSE IF proto.tls11 THEN 80
              ELSE IF proto.tls10 THEN 70
              ELSE 50
  IN  IF proto.ssl2 THEN 0
      ELSE IF proto.ssl3 THEN 50
      ELSE IF proto.tls10 \/ proto.tls11 THEN lesser(best, 80)
      ELSE best

(* Key exchange score: the certificate's key, then the findings on DHE,    *)
(* EXPORT and anonymous suites.                                            *)
KeyScore(cert) ==
  CASE cert.keyAlg = "ecPublicKey" ->
         IF cert.keyBits >= 384 THEN 100 ELSE IF cert.keyBits >= 256 THEN 95 ELSE 50
    [] cert.keyAlg = "rsaEncryption" ->
         IF cert.keyBits >= 4096 THEN 100 ELSE IF cert.keyBits >= 2048 THEN 90
         ELSE IF cert.keyBits >= 1024 THEN 60 ELSE 20
    [] cert.keyAlg \in {"Ed25519", "Ed448"} -> 100
    [] cert.keyAlg = "none" -> 0
    [] OTHER -> 80

KeyExchangeScore(cert, findings) ==
  IF findings \intersect {"TLS-ANON-CIPHER", "TLS-EXPORT-CIPHER"} # {} THEN 0
  ELSE IF findings \intersect {"TLS-DH-WEAK", "TLS-DH-COMMON-PRIME"} # {}
    THEN lesser(KeyScore(cert), 40)
  ELSE KeyScore(cert)

(* Cipher score: midpoint of the strongest and the weakest suite, 90 when  *)
(* none is known.                                                          *)
SuitesScore(suites) ==
  LET scores    == {SuiteScore(s) : s \in suites}
      strongest == CHOOSE m \in scores : \A n \in scores : n <= m
      weakest   == CHOOSE m \in scores : \A n \in scores : m <= n
  IN  IF suites = {} THEN 90 ELSE (strongest + weakest) \div 2

(* A ceiling assigned where it should be a minimum, a mutated form.        *)
CipherScoreAssigned(suites, findings) ==
  IF "TLS-CBC-MAC-THEN-ENCRYPT" \in findings THEN 80 ELSE SuitesScore(suites)

CipherScore(suites, findings) ==
  LET ceiling == IF "TLS-NULL-CIPHER" \in findings THEN 0
                 ELSE IF "TLS-RC4-CIPHER" \in findings THEN 40
                 ELSE IF "TLS-3DES-CIPHER" \in findings THEN 60
                 ELSE IF "TLS-CBC-MAC-THEN-ENCRYPT" \in findings THEN 80
                 ELSE 100
  IN  lesser(SuitesScore(suites), ceiling)

(* Weights that favour the ciphers, a mutated form.                        *)
CompositeSkewed(p, k, c) == (2 * p + 2 * k + 6 * c + 5) \div 10

(* round(0.30 p + 0.30 k + 0.40 c), exact in tenths: the f64 sum never     *)
(* falls on the other side of a half for the values the three scores take. *)
Composite(p, k, c) == (3 * p + 3 * k + 4 * c + 5) \div 10

-----------------------------------------------------------------------------
HardFail(findings) == findings \intersect HardFails # {}

Score(proto, cert, findings) ==
  LET composite == Composite(ProtocolScore(proto),
                             KeyExchangeScore(cert, findings),
                             CipherScore(proto.suites, findings))
  IN  IF HardFail(findings) THEN 0
      ELSE IF findings \intersect MediumCaps # {} THEN lesser(composite, 80)
      ELSE composite

letter_for_score(score) ==
  IF score >= 90 THEN "A" ELSE IF score >= 80 THEN "B"
  ELSE IF score >= 70 THEN "C" ELSE IF score >= 60 THEN "D"
  ELSE IF score >= 50 THEN "E" ELSE "F"

(* The bonus that lifts A to A+.                                           *)
FsOk(fs, tls13) == IF fs = "uncomputed" THEN tls13 ELSE fs = "modern"

Lifted(letter, proto, hsts, fs) ==
  IF letter = "A" /\ proto.tls13 /\ FsOk(fs, proto.tls13) /\ hsts
    THEN "A+" ELSE letter

(* The override for a chain the Mozilla store rejects.                     *)
Distrusted(cert, findings) ==
  /\ cert.keyAlg # "none"
  /\ ~cert.mozillaTrusted
  /\ ~HardFail(findings)
  /\ findings \intersect TrustExplained = {}

(* The letter without the override, a mutated form.                        *)
LetterUntrusting(proto, cert, hsts, findings, fs) ==
  Lifted(letter_for_score(Score(proto, cert, findings)), proto, hsts, fs)

Letter(proto, cert, hsts, findings, fs) ==
  LET letter == Lifted(letter_for_score(Score(proto, cert, findings)), proto, hsts, fs)
  IN  IF letter # "F" /\ Distrusted(cert, findings) THEN "T" ELSE letter

-----------------------------------------------------------------------------
(* summary::compute                                                        *)
(* The critical findings instead, a mutated form.                          *)
BreachesCritical(findings) == findings \intersect Critical

Breaches(findings) == findings \intersect BreachIndicators

Passed(letter, findings) ==
  /\ letter \in {"A+", "A", "A-"}
  /\ findings \intersect Critical = {}
  /\ Breaches(findings) = {}
=============================================================================
