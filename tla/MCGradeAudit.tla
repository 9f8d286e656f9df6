---------------------------- MODULE MCGradeAudit ----------------------------
(* Every combination of old versions with a modern one or none, suites of  *)
(* every score, keys on both sides of every threshold.                     *)
EXTENDS GradeAudit, TLC

proto_(old, modern, suites) ==
  [v \in {"ssl2", "ssl3", "tls10", "tls11", "tls12", "tls13"} |-> v \in old \union modern]
    @@ [suites |-> suites]

MCProtos ==
  {proto_(old, modern, suites) :
     old \in {{}, {"ssl2"}, {"ssl3"}, {"tls10", "tls11"}},
     modern \in {{}, {"tls12"}, {"tls13"}},
     suites \in {{}, {\hC030}, {\h1302, \h0005, \h0001}}}

MCGradedCerts ==
  {NoCert} \union
  {[keyAlg |-> k[1], keyBits |-> k[2], mozillaTrusted |-> t] :
     k \in {<<"rsaEncryption", 1023>>, <<"rsaEncryption", 2048>>,
            <<"ecPublicKey", 256>>, <<"Ed25519", 256>>},
     t \in BOOLEAN}

(* "robust" stands for every bucket: the grade only asks for "modern",     *)
(* which forward_secrecy.rs never writes.                                  *)
MCBuckets == {"uncomputed", "robust"}

MCIds ==
  {"TLS-NULL-CIPHER", "TLS-RC4-CIPHER", "TLS-CBC-MAC-THEN-ENCRYPT",
   "TLS-DH-WEAK", "TLS-ANON-CIPHER", "TLS-CERT-NEAR-EXPIRY", "TLS-CERT-EXPIRED",
   "TLS-HEARTBLEED", "TLS-OCSP-REVOKED"}
=============================================================================
