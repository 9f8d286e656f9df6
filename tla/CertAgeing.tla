----------------------------- MODULE CertAgeing -----------------------------
(***************************************************************************)
(* The same server scanned again and again while its certificate ages:     *)
(* hours pass between two scans, nothing else changes.                     *)
(***************************************************************************)
EXTENDS Server, Grade

CONSTANTS
  Certs,                 \* the certificates considered, as issued
  Gaps,                  \* hours between two scans
  MaxAge                 \* hours after which nothing more is scanned

ASSUME AgeingAssumption ==
  /\ Certs \subseteq CertRecord
  /\ Gaps \subseteq Nat \ {0}
  /\ MaxAge \in Nat

VARIABLES
  chain,                 \* the certificate, relative to the latest scan
  age,                   \* hours since the first scan
  reported               \* what the latest scan reports of it

ageing == <<chain, age, reported>>

-----------------------------------------------------------------------------
Aged(c, hours) ==
  [c EXCEPT !.notBefore = @ - hours, !.notAfter = @ - hours,
            !.intermediates = {h - hours : h \in @}]

Scan(c) == CertFindings(Observed(c))

AgeingInit ==
  /\ chain \in Certs
  /\ age = 0
  /\ reported = Scan(chain)

ScanAgain(gap) ==
  /\ age + gap <= MaxAge
  /\ age' = age + gap
  /\ chain' = Aged(chain, gap)
  /\ reported' = Scan(chain')

AgeingNext == \E gap \in Gaps : ScanAgain(gap)

AgeingSpec == AgeingInit /\ [][AgeingNext]_ageing

-----------------------------------------------------------------------------
(* The grade of an otherwise perfect server that presents this certificate.*)
BestServer ==
  [ssl2 |-> FALSE, ssl3 |-> FALSE, tls10 |-> FALSE, tls11 |-> FALSE,
   tls12 |-> TRUE, tls13 |-> TRUE, suites |-> {\hC030, \h1302}]
GradeNow == Letter(BestServer, Observed(chain), TRUE, reported, "uncomputed")

(* A chain any of whose certificates is past its end never passes, not     *)
(* even in the day in which num_days still says 0 and the leaf is reported *)
(* as near expiry: the strict handshake has failed by then, and the grade  *)
(* is T where it is not F.                                                 *)
ExpiredNeverPasses ==
  ~InWindow(chain) => ~Passed(GradeNow, reported)

(* Whichever store refuses a chain, Mozilla's in the strict handshake or   *)
(* another, the report has a finding that says so or one that says why; and*)
(* not both, because the latter silences the former, wherever in the code  *)
(* it is pushed.  Only an expired intermediate comes too late for that.    *)
RefusalExplained ==
  LET reasons(ids) == reported \intersect ids
      inTime(ids)  == reasons(ids) \ {"TLS-CERT-INTERMEDIATE-EXPIRED"}
      told(id, ids) == /\ id \in reported \/ reasons(ids) # {}
                       /\ inTime(ids) # {} => id \notin reported
  IN  /\ ~Observed(chain).mozillaTrusted => told("TLS-CHAIN-NOT-TRUSTED-MOZILLA", ReasonGiven)
      /\ \A store \in chain.rejectedBy : told(NotTrusted[store], BreachOfCert)

(* What was expired stays expired, and with a scan a day nothing expires   *)
(* without having been reported as near expiry by an earlier scan.         *)
Expiry ==
  [][/\ "TLS-CERT-EXPIRED" \in reported => "TLS-CERT-EXPIRED" \in reported'
     /\ "TLS-CERT-EXPIRED" \in reported' \ reported =>
          "TLS-CERT-NEAR-EXPIRY" \in reported
     /\ "TLS-CERT-INTERMEDIATE-EXPIRED" \in reported' \ reported =>
          "TLS-CERT-INTERMEDIATE-NEAR-EXPIRY" \in reported]_ageing
=============================================================================
