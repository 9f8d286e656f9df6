---------------------------- MODULE AuditProofs ----------------------------
(***************************************************************************)
(* What the audits make of the data they are given, for all of it.         *)
(*   - The grade: what passes is sound in each dimension, and one more     *)
(*     finding never helps.                                                *)
(*   - A certificate's findings as it ages, whatever it is.                *)
(*   - The posture of an SSH server and of a site: a clean result was      *)
(*     earned, what is found is true, and a peer that offers or allows     *)
(*     more is not judged better.                                          *)
(***************************************************************************)
EXTENDS GradeAudit, CertAgeing, Posture, GradeLemmas, SequenceTheorems, WellFoundedInduction

(* More findings lower each score, or leave it.                            *)
LEMMA ScoreFalls ==
  ASSUME NEW p, IsProto(p), NEW c, IsCert(c), NEW F, NEW G, F \subseteq G
  PROVE  /\ Score(p, c, F) \in Nat
         /\ Score(p, c, G) \in Nat
         /\ Score(p, c, G) <= Score(p, c, F)
<1> DEFINE ps    == ProtocolScore(p)
           ks(X) == KeyExchangeScore(c, X)
           cs(X) == CipherScore(p.suites, X)
           kc(X) == Composite(ps, ks(X), cs(X))
<1>1. /\ ps \in Nat
      /\ ks(F) \in Nat /\ ks(G) \in Nat
      /\ cs(F) \in Nat /\ cs(G) \in Nat
  BY ProtocolPoints, KeyPoints, CipherPercentage DEF IsProto
<1>2. ks(G) <= ks(F)
  <2>1. KeyScore(c) \in Nat
    BY DEF KeyScore, IsCert
  <2> QED BY <2>1 DEF KeyExchangeScore, lesser
<1>3. cs(G) <= cs(F)
  <2> DEFINE sv == SuitesScore(p.suites)
  <2>1. sv \in 0..100
    BY SuitesPercentage DEF IsProto
  <2> HIDE DEF sv
  <2>2. cs(G) <= cs(F)
    BY <2>1 DEF CipherScore, lesser, sv
  <2> QED BY <2>2
<1>4. kc(F) \in Nat /\ kc(G) \in Nat /\ kc(G) <= kc(F)
  <2> HIDE DEF ps, ks, cs
  <2> QED BY <1>1, <1>2, <1>3 DEF Composite
<1>5. /\ HardFail(F) => HardFail(G)
      /\ F \intersect MediumCaps # {} => G \intersect MediumCaps # {}
  BY DEF HardFail
<1> HIDE DEF kc
<1>6. \A X \in {F, G} : Score(p, c, X) = IF HardFail(X) THEN 0
         ELSE IF X \intersect MediumCaps # {} THEN lesser(kc(X), 80) ELSE kc(X)
  BY DEF Score, kc
<1> QED BY <1>4, <1>5, <1>6 DEF lesser

(* The order of two letters, from what makes each of them.                 *)
LEMMA LetterOrder ==
  ASSUME NEW a \in {"A+", "A", "B", "C", "D", "E", "F"},
         NEW b \in {"A+", "A", "B", "C", "D", "E", "F"},
         Rank(b) <= Rank(a),
         NEW da \in BOOLEAN, NEW db \in BOOLEAN,
         db => da, da => db \/ b = "F"
  PROVE  Rank(IF b # "F" /\ db THEN "T" ELSE b)
           <= Rank(IF a # "F" /\ da THEN "T" ELSE a)
<1>1. CASE b = "F"
  BY <1>1 DEF Rank
<1>2. CASE b # "F" /\ a # "F"
  BY <1>2 DEF Rank
<1>3. CASE b # "F" /\ a = "F"
  BY <1>3 DEF Rank
<1> QED BY <1>1, <1>2, <1>3

(* So does the letter, which trust can only lower as well.                 *)
LEMMA LetterFalls ==
  ASSUME NEW p, IsProto(p), NEW c, IsCert(c), NEW h, NEW fsb,
         NEW F, NEW G, F \subseteq G
  PROVE  Rank(Letter(p, c, h, G, fsb)) <= Rank(Letter(p, c, h, F, fsb))
<1> DEFINE s == Score(p, c, F)
           t == Score(p, c, G)
           a == Lifted(letter_for_score(s), p, h, fsb)
           b == Lifted(letter_for_score(t), p, h, fsb)
<1>1. s \in Nat /\ t \in Nat /\ t <= s
  BY ScoreFalls
<1>2. HardFail(G) => t = 0
  BY DEF Score
<1>3. /\ a \in {"A+", "A", "B", "C", "D", "E", "F"}
      /\ b \in {"A+", "A", "B", "C", "D", "E", "F"}
  <2> HIDE DEF s, t
  <2> QED BY DEF Lifted, letter_for_score
<1>4. Rank(b) <= Rank(a)
  <2> HIDE DEF s, t
  <2> QED BY <1>1 DEF Lifted, letter_for_score, Rank
<1>5. HardFail(G) => b = "F"
  <2> HIDE DEF s, t
  <2> QED BY <1>2 DEF Lifted, letter_for_score
<1>6. Distrusted(c, G) => Distrusted(c, F)
  BY DEF Distrusted, HardFail
<1>7. Distrusted(c, F) => Distrusted(c, G) \/ b = "F"
  <2>1. G \intersect TrustExplained # {} => HardFail(G)
    BY ExplainedIsHardFail DEF HardFail
  <2> HIDE DEF b
  <2> QED BY <1>5, <2>1 DEF Distrusted
<1>8. /\ Distrusted(c, F) \in BOOLEAN
      /\ Distrusted(c, G) \in BOOLEAN
  BY DEF Distrusted
<1>9. Rank(IF b # "F" /\ Distrusted(c, G) THEN "T" ELSE b)
        <= Rank(IF a # "F" /\ Distrusted(c, F) THEN "T" ELSE a)
  <2> HIDE DEF a, b
  <2> QED BY <1>3, <1>4, <1>6, <1>7, <1>8, LetterOrder
<1> QED BY <1>9 DEF Letter

-----------------------------------------------------------------------------
(* The inputs keep the shape the constants give them.                      *)
Shape == IsProto(proto) /\ IsCert(cert)

(* The graded inputs never change, so they keep their shape.               *)
LEMMA ShapeInvariant == Spec => []Shape
<1>1. Init => Shape
  BY AuditAssumption DEF Init, Shape
<1>2. Shape /\ [Next]_vars => Shape'
  BY DEF Shape, Next, Add, vars, inputs, IsProto, IsCert
<1> QED BY <1>1, <1>2, PTL DEF Spec

(* grade::compute and summary::compute: what passes is sound in every      *)
(* dimension and trusted, whatever the findings.                           *)
THEOREM SoundThroughout == Spec => []PassIsSoundThroughout
<1>1. Shape => PassIsSoundThroughout
  BY PassingLetter DEF Shape, PassIsSoundThroughout, PassedNow, LetterNow
<1> QED BY <1>1, ShapeInvariant, PTL

(* grade::compute and summary::compute: one more finding of any ID raises  *)
(* neither the score nor the letter, and makes no failing target pass.     *)
THEOREM Monotonicity == Spec => MoreFindingsNeverHelp
<1> DEFINE Falls ==
      /\ ScoreNow' <= ScoreNow
      /\ Rank(LetterNow') <= Rank(LetterNow)
      /\ PassedNow' => PassedNow
<1>1. Shape /\ [Next]_vars => [Falls]_vars
  <2> SUFFICES ASSUME Shape, NEW id \in Ids, Add(id) PROVE Falls
    BY DEF Next
  <2>1. /\ IsProto(proto) /\ IsCert(cert) /\ findings \subseteq findings'
        /\ proto' = proto /\ cert' = cert /\ hsts' = hsts /\ fs' = fs
    BY DEF Shape, Add, inputs
  <2>2. ScoreNow' <= ScoreNow
    BY <2>1, ScoreFalls DEF ScoreNow
  <2>3. Rank(LetterNow') <= Rank(LetterNow)
    BY <2>1, LetterFalls DEF LetterNow
  <2>4. PassedNow' => PassedNow
    <3>1. LetterNow \in {"A+", "A", "B", "C", "D", "E", "F", "T"}
      BY DEF LetterNow, Letter, Lifted, letter_for_score
    <3>2. LetterNow' \in {"A+", "A"} => LetterNow \in {"A+", "A"}
      <4> HIDE DEF LetterNow
      <4> QED BY <2>3, <3>1 DEF Rank
    <3>3. LetterNow' # "A-"
      BY DEF LetterNow, Letter, Lifted, letter_for_score
    <3> QED BY <2>1, <3>2, <3>3 DEF PassedNow, Passed, Breaches
  <2> QED BY <2>2, <2>3, <2>4
<1> QED BY <1>1, ShapeInvariant, PTL DEF Spec, MoreFindingsNeverHelp

-----------------------------------------------------------------------------
(* num_days truncates towards zero: a day past the end before it is        *)
(* negative.                                                               *)
LEMMA Days ==
  ASSUME NEW h \in Int
  PROVE  /\ num_days(h) < 0 <=> h <= -24
         /\ num_days(h) < 30 <=> h < 720
         /\ num_days(h) < 90 <=> h < 2160
  BY DEF num_days

(* A certificate that ages is one still: its ends come nearer, no more.    *)
LEMMA AgedCert ==
  ASSUME NEW c \in CertRecord, NEW g \in Nat
  PROVE  /\ Aged(c, g) \in CertRecord
         /\ Aged(c, g).notAfter = c.notAfter - g
         /\ Aged(c, g).intermediates = {h - g : h \in c.intermediates}
<1> DEFINE Left == {h - g : h \in c.intermediates}
           c1 == [c EXCEPT !.notBefore = c.notBefore - g]
           c2 == [c1 EXCEPT !.notAfter = c.notAfter - g]
           c3 == [c2 EXCEPT !.intermediates = Left]
<1>1. /\ c.notBefore - g \in Int /\ c.notAfter - g \in Int
      /\ Left \in SUBSET Int
  BY DEF CertRecord
<1>2. Aged(c, g) = c3
  BY Zenon DEF Aged
<1> HIDE DEF Left
<1>3. c1 \in CertRecord
  BY <1>1 DEF CertRecord
<1> HIDE DEF c1
<1>4. c2 \in CertRecord /\ c2.notAfter = c.notAfter - g
  BY <1>1, <1>3 DEF CertRecord
<1> HIDE DEF c2
<1>5. /\ c3 \in CertRecord
      /\ c3.notAfter = c2.notAfter /\ c3.intermediates = Left
  BY <1>1, <1>4 DEF CertRecord
<1> HIDE DEF c3
<1> QED BY <1>2, <1>4, <1>5 DEF Left

(* The certificate has its shape, and its findings are those of its age.   *)
AgeInv == chain \in CertRecord /\ reported = Scan(chain)

(* CertificateInfo::contribute_findings on every scan: what is reported is *)
(* what the certificate deserves at that time.                             *)
LEMMA AgeInvariant == AgeingSpec => []AgeInv
<1>1. AgeingInit => AgeInv
  BY AgeingAssumption DEF AgeingInit, AgeInv
<1>2. AgeInv /\ [AgeingNext]_ageing => AgeInv'
  <2> SUFFICES ASSUME AgeInv, [AgeingNext]_ageing PROVE AgeInv'
    OBVIOUS
  <2>1. CASE UNCHANGED ageing
    BY <2>1 DEF ageing, AgeInv
  <2>2. ASSUME NEW gap \in Gaps, ScanAgain(gap) PROVE AgeInv'
    <3>1. /\ chain' = Aged(chain, gap) /\ reported' = Scan(chain')
          /\ gap \in Nat
      BY <2>2, AgeingAssumption DEF ScanAgain
    <3>2. Aged(chain, gap) \in CertRecord
      BY <3>1, AgedCert DEF AgeInv
    <3> QED BY <3>1, <3>2 DEF AgeInv
  <2> QED BY <2>1, <2>2 DEF AgeingNext
<1> QED BY <1>1, <1>2, PTL DEF AgeingSpec

(* cert.rs and grade::compute: whatever the certificate, a chain any of    *)
(* whose certificates is past its end, or not yet valid, does not pass.    *)
THEOREM ExpiredIsRefused == AgeingSpec => []ExpiredNeverPasses
<1>1. AgeInv => ExpiredNeverPasses
  <2> SUFFICES ASSUME AgeInv, ~InWindow(chain)
               PROVE  ~Passed(GradeNow, reported)
    BY DEF ExpiredNeverPasses
  <2>1. LET c == Observed(chain)
        IN  c.mozillaTrusted = FALSE /\ c.keyAlg # "none"
    BY DEF AgeInv, CertRecord, Observed, Trusted
  <2>2. CASE HardFail(reported)
    <3>1. GradeNow = "F"
      BY <2>2 DEF GradeNow, Letter, Lifted, Score, letter_for_score, HardFail
    <3> QED BY <3>1 DEF Passed
  <2>3. CASE ~HardFail(reported)
    <3>1. reported \intersect TrustExplained = {}
      BY <2>3 DEF HardFail, TrustExplained, HardFails
    <3>2. Distrusted(Observed(chain), reported)
      BY <3>1, <2>1, <2>3 DEF Distrusted
    <3>3. GradeNow \in {"F", "T"}
      BY <3>2 DEF GradeNow, Letter
    <3> QED BY <3>3 DEF Passed
  <2> QED BY <2>2, <2>3
<1> QED BY <1>1, AgeInvariant, PTL

(* contribute_findings: whatever the certificate and its age, a store's    *)
(* refusal is told by a finding of its own or by one that says why, and but*)
(* for an expired intermediate not by both.                                *)
THEOREM RefusalHasReason == AgeingSpec => []RefusalExplained
<1>1. AgeInv => RefusalExplained
  <2> SUFFICES ASSUME AgeInv PROVE RefusalExplained
    OBVIOUS
  <2> DEFINE o == Observed(chain)
             Refusals == {"TLS-CHAIN-NOT-TRUSTED-MOZILLA", "TLS-CHAIN-NOT-TRUSTED-APPLE",
                          "TLS-CHAIN-NOT-TRUSTED-ANDROID", "TLS-CHAIN-NOT-TRUSTED-JAVA"}
             B == BeforeTrust(o)
             T == Trust(o, B)
             I == Intermediates(o)
  <2>1. reported = B \union T \union I
    BY DEF AgeInv, Scan, CertFindings
  <2>2. o.rejectedBy = chain.rejectedBy /\ chain.rejectedBy \subseteq {"apple", "android", "java"}
        /\ o.flaws \subseteq Flaws
    BY DEF AgeInv, CertRecord, Observed
  <2>3. Refusals \intersect B = {}
    <3>1. \A f \in Flaws : FindingOf[f] \notin Refusals
      BY DEF Flaws, FindingOf
    <3>2. Refusals \intersect Leaf(o) = {}
      BY <2>2, <3>1 DEF Leaf
    <3>3. Refusals \intersect (Validity(o) \union Revocation(o) \union Transparency(o)) = {}
      BY DEF Validity, Revocation, Transparency
    <3> QED BY <3>2, <3>3 DEF BeforeTrust
  <2>4. I \subseteq {"TLS-CERT-INTERMEDIATE-EXPIRED", "TLS-CERT-INTERMEDIATE-NEAR-EXPIRY"}
    BY DEF Intermediates
  <2>5. \A store \in chain.rejectedBy : NotTrusted[store] \in Refusals
    BY <2>2 DEF NotTrusted
  <2>6. T \subseteq Refusals
    BY <2>2, <2>5 DEF Trust
  <2>7. ReasonGiven \intersect Refusals = {} /\ BreachOfCert \subseteq ReasonGiven
        /\ "TLS-CERT-INTERMEDIATE-NEAR-EXPIRY" \notin ReasonGiven
    BY DEF ReasonGiven, BreachOfCert
  <2> HIDE DEF B, I
  <2>8. /\ ~o.mozillaTrusted =>
             ("TLS-CHAIN-NOT-TRUSTED-MOZILLA" \in T <=> B \intersect ReasonGiven = {})
        /\ \A store \in chain.rejectedBy :
             NotTrusted[store] \in T <=> B \intersect BreachOfCert = {}
    BY <2>2 DEF Trust, NotTrusted
  <2> HIDE DEF T, o, Refusals
  <2>9. "TLS-CHAIN-NOT-TRUSTED-MOZILLA" \in Refusals
    BY DEF Refusals
  <2>10. \A id \in Refusals : id \in reported <=> id \in T
    BY <2>1, <2>3, <2>4 DEF Refusals
  <2>11. \A ids \in SUBSET ReasonGiven :
           reported \intersect ids \subseteq (B \intersect ids) \union {"TLS-CERT-INTERMEDIATE-EXPIRED"}
           /\ B \intersect ids \subseteq reported
    BY <2>1, <2>4, <2>6, <2>7
  <2> QED BY <2>5, <2>7, <2>8, <2>9, <2>10, <2>11 DEF RefusalExplained, o
<1> QED BY <1>1, AgeInvariant, PTL

(* The hours at which each of the four findings on expiry is reported.     *)
LEMMA WhenExpired ==
  ASSUME NEW c \in CertRecord
  PROVE  LET F == Scan(c) IN
         /\ "TLS-CERT-EXPIRED" \in F <=> c.notAfter <= -24
         /\ "TLS-CERT-NEAR-EXPIRY" \in F <=> c.notAfter \in -23..719
         /\ "TLS-CERT-INTERMEDIATE-EXPIRED" \in F <=> \E h \in c.intermediates : h <= -24
         /\ "TLS-CERT-INTERMEDIATE-NEAR-EXPIRY" \in F <=>
              /\ \E h \in c.intermediates : h < 2160
              /\ \A h \in c.intermediates : h > -24
<1> DEFINE o == Observed(c)
           V == Validity(o)
           I == Intermediates(o)
           OnExpiry == {"TLS-CERT-EXPIRED", "TLS-CERT-NEAR-EXPIRY",
                        "TLS-CERT-INTERMEDIATE-EXPIRED", "TLS-CERT-INTERMEDIATE-NEAR-EXPIRY"}
<1>1. /\ o.notAfter = c.notAfter /\ o.intermediates = c.intermediates
      /\ c.notAfter \in Int /\ c.intermediates \subseteq Int
      /\ o.flaws \subseteq Flaws /\ o.rejectedBy \subseteq {"apple", "android", "java"}
  BY DEF Observed, CertRecord
<1>2. \A id \in OnExpiry : id \in Scan(c) <=> id \in V \/ id \in I
  <2>1. \A f \in Flaws : FindingOf[f] \notin OnExpiry
    BY DEF Flaws, FindingOf
  <2>2. OnExpiry \intersect Leaf(o) = {}
    BY <1>1, <2>1 DEF Leaf
  <2>3. OnExpiry \intersect Revocation(o) = {}
    BY DEF Revocation
  <2>4. OnExpiry \intersect Transparency(o) = {}
    BY DEF Transparency
  <2>5. OnExpiry \intersect Trust(o, BeforeTrust(o)) = {}
    BY <1>1 DEF Trust, NotTrusted
  <2> QED BY <2>2, <2>3, <2>4, <2>5 DEF Scan, CertFindings, BeforeTrust
<1>3. /\ "TLS-CERT-EXPIRED" \in V <=> num_days(c.notAfter) < 0
      /\ "TLS-CERT-NEAR-EXPIRY" \in V <=> ~(num_days(c.notAfter) < 0) /\ num_days(c.notAfter) < 30
      /\ "TLS-CERT-INTERMEDIATE-EXPIRED" \notin V
      /\ "TLS-CERT-INTERMEDIATE-NEAR-EXPIRY" \notin V
  BY <1>1, Zenon DEF Validity
<1>4. /\ "TLS-CERT-INTERMEDIATE-EXPIRED" \in I <=>
           \E h \in c.intermediates : num_days(h) < 0
      /\ "TLS-CERT-INTERMEDIATE-NEAR-EXPIRY" \in I <=>
           /\ \E h \in c.intermediates : num_days(h) < 90
           /\ \A h \in c.intermediates : ~(num_days(h) < 0)
      /\ "TLS-CERT-EXPIRED" \notin I
      /\ "TLS-CERT-NEAR-EXPIRY" \notin I
  BY <1>1 DEF Intermediates
<1> HIDE DEF V, I
<1>5. \A h \in c.intermediates \union {c.notAfter} :
        /\ num_days(h) < 0 <=> h <= -24
        /\ num_days(h) < 30 <=> h < 720
        /\ num_days(h) < 90 <=> h < 2160
  BY <1>1, Days
<1> QED BY <1>1, <1>2, <1>3, <1>4, <1>5

(* contribute_findings: with a scan at least every thirty days, leaf and   *)
(* intermediates are reported as near expiry before they are as expired,   *)
(* and a leaf once expired stays so.                                       *)
THEOREM ExpiryIsAnnounced ==
  ASSUME Gaps \subseteq 0..720
  PROVE  AgeingSpec => Expiry
<1> DEFINE Announced ==
     /\ "TLS-CERT-EXPIRED" \in reported => "TLS-CERT-EXPIRED" \in reported'
     /\ "TLS-CERT-EXPIRED" \in reported' \ reported =>
          "TLS-CERT-NEAR-EXPIRY" \in reported
     /\ "TLS-CERT-INTERMEDIATE-EXPIRED" \in reported' \ reported =>
          "TLS-CERT-INTERMEDIATE-NEAR-EXPIRY" \in reported
<1>1. AgeInv /\ [AgeingNext]_ageing => [Announced]_ageing
  <2> SUFFICES ASSUME AgeInv, NEW gap \in Gaps, ScanAgain(gap)
               PROVE  Announced
    BY DEF AgeingNext
  <2> DEFINE d == Aged(chain, gap)
  <2>1. /\ reported' = Scan(d) /\ reported = Scan(chain)
        /\ gap \in 0..720 /\ chain \in CertRecord
    BY DEF ScanAgain, AgeInv
  <2>2. gap \in Int /\ 0 <= gap /\ gap <= 720
    BY <2>1
  <2>3. /\ d \in CertRecord /\ d.notAfter = chain.notAfter - gap
        /\ d.intermediates = {h - gap : h \in chain.intermediates}
    BY <2>1, AgedCert
  <2>4. chain.notAfter \in Int /\ chain.intermediates \subseteq Int
    BY <2>1 DEF CertRecord
  <2> HIDE DEF d
  <2>5. /\ "TLS-CERT-EXPIRED" \in reported <=> chain.notAfter <= -24
        /\ "TLS-CERT-NEAR-EXPIRY" \in reported <=> chain.notAfter \in -23..719
        /\ "TLS-CERT-INTERMEDIATE-EXPIRED" \in reported <=>
             \E h \in chain.intermediates : h <= -24
        /\ "TLS-CERT-INTERMEDIATE-NEAR-EXPIRY" \in reported <=>
             /\ \E h \in chain.intermediates : h < 2160
             /\ \A h \in chain.intermediates : h > -24
    BY <2>1, WhenExpired
  <2>6. /\ "TLS-CERT-EXPIRED" \in reported' <=> d.notAfter <= -24
        /\ "TLS-CERT-INTERMEDIATE-EXPIRED" \in reported' <=>
             \E h \in d.intermediates : h <= -24
    BY <2>1, <2>3, WhenExpired
  <2>7. /\ "TLS-CERT-EXPIRED" \in reported => "TLS-CERT-EXPIRED" \in reported'
        /\ "TLS-CERT-EXPIRED" \in reported' \ reported => "TLS-CERT-NEAR-EXPIRY" \in reported
    <3> DEFINE e == chain.notAfter
    <3>1. e \in Int /\ d.notAfter = e - gap
      BY <2>3, <2>4
    <3> HIDE DEF e
    <3>2. e <= -24 => e - gap <= -24
      BY <2>2, <3>1
    <3>3. e - gap <= -24 => e <= -24 \/ e \in -23..719
      BY <2>2, <3>1
    <3> QED BY <2>5, <2>6, <3>1, <3>2, <3>3 DEF e
  <2>8. "TLS-CERT-INTERMEDIATE-EXPIRED" \in reported' \ reported =>
          "TLS-CERT-INTERMEDIATE-NEAR-EXPIRY" \in reported
    <3> SUFFICES ASSUME "TLS-CERT-INTERMEDIATE-EXPIRED" \in reported' \ reported
                 PROVE  "TLS-CERT-INTERMEDIATE-NEAR-EXPIRY" \in reported
      OBVIOUS
    <3>1. PICK h \in chain.intermediates : h - gap <= -24
      BY <2>3, <2>6
    <3>2. h < 2160
      <4>1. h \in Int
        BY <2>4
      <4> QED BY <2>2, <3>1, <4>1
    <3>3. \A i \in chain.intermediates : i > -24
      BY <2>4, <2>5
    <3> QED BY <2>5, <3>2, <3>3
  <2> QED BY <2>7, <2>8
<1> QED BY <1>1, AgeInvariant, PTL DEF AgeingSpec, Expiry
-----------------------------------------------------------------------------
(* A set of natural numbers has a least element.                           *)
LEMMA Least ==
  ASSUME NEW T, T \subseteq Nat, T # {}
  PROVE  \E x \in T : \A y \in T : x <= y
<1> DEFINE R == OpToRel(<, Nat)
<1>1. \A x, y \in Nat : <<y, x>> \in R <=> y < x
  BY DEF OpToRel
<1>2. IsWellFoundedOn(R, Nat)
  BY NatLessThanWellFounded
<1> HIDE DEF R
<1>3. PICK x \in T : \A y \in T : ~(<<y, x>> \in R)
  BY <1>2, WFMin
<1>4. ASSUME NEW y \in T PROVE x <= y
  <2>1. x \in Nat /\ y \in Nat /\ ~(y < x)
    BY <1>1, <1>3
  <2> QED BY <2>1
<1> QED BY <1>4

Name == Seq(STRING) \ {<<>>}
List == UNION {[S -> BOOLEAN] : S \in SUBSET Entries}
Covers(list, host, name) == name \in DOMAIN list /\ (name = host \/ list[name])

LEMMA LenOfNone == Len(<<>>) = 0
  BY EmptySeq

(* The name that is left of a host from its i-th label on.                 *)
LEMMA FromLabel ==
  ASSUME NEW host \in Name
  PROVE  /\ Len(host) \in Nat /\ Len(host) > 0
         /\ From(host, 1) = host
         /\ \A i \in 1..Len(host) : /\ From(host, i) \in Name
                                    /\ Len(From(host, i)) = Len(host) - i + 1
                                    /\ \A j \in 1..(Len(host) - i + 1) : From(host, i)[j] = host[i + j - 1]
<1>1. host \in Seq(STRING) /\ Len(host) \in Nat /\ Len(host) > 0
  BY EmptySeq DEF Name
<1>2. From(host, 1) = host
  BY <1>1, SubSeqFull DEF From
<1>3. ASSUME NEW i \in 1..Len(host)
      PROVE  /\ From(host, i) \in Name
             /\ Len(From(host, i)) = Len(host) - i + 1
             /\ \A j \in 1..(Len(host) - i + 1) : From(host, i)[j] = host[i + j - 1]
  <2> DEFINE n == Len(host)
             f == SubSeq(host, i, n)
  <2>1. \A j \in i..n : host[j] \in STRING
    <3>1. \A j \in 1..n : host[j] \in STRING
      BY <1>1, ElementOfSeq
    <3> QED BY <3>1
  <2>2. i \in Int /\ n \in Int /\ i <= n
    BY <1>1
  <2>3. /\ f \in Seq(STRING)
        /\ Len(f) = IF i <= n THEN n - i + 1 ELSE 0
        /\ \A j \in 1..(n - i + 1) : f[j] = host[i + j - 1]
    <3> HIDE DEF n
    <3> QED BY <2>1, <2>2, SubSeqProperties
  <2>4. Len(f) # 0
    BY <2>2, <2>3
  <2> HIDE DEF f
  <2>5. f # <<>>
    BY <2>4, LenOfNone
  <2>6. /\ From(host, i) \in Name
        /\ Len(From(host, i)) = Len(host) - i + 1
        /\ \A j \in 1..(Len(host) - i + 1) : From(host, i)[j] = host[i + j - 1]
    BY <2>2, <2>3, <2>5 DEF Name, From, f
  <2> QED BY <2>6
<1> QED BY <1>1, <1>2, <1>3

(* What the lookup tries is all that can cover a host.                     *)
LEMMA TriedIsAll ==
  ASSUME NEW host \in Name, NEW list \in List
  PROVE  /\ Candidates(host) \subseteq 1..Len(host)
         /\ \A i \in 1..Len(host) : Covers(list, host, From(host, i)) <=>
                                      i \in Candidates(host) /\ Matches(list, host, i)
<1>1. Len(host) \in Nat /\ Len(host) > 0
  BY FromLabel
<1>2. \A name \in DOMAIN list : Len(name) > 1
  BY PostureAssumption DEF List
<1>3. Candidates(host) \subseteq 1..Len(host)
  BY <1>1 DEF Candidates
<1>4. ASSUME NEW i \in 1..Len(host)
      PROVE  Covers(list, host, From(host, i)) <=> i \in Candidates(host) /\ Matches(list, host, i)
  <2>1. Len(From(host, i)) = Len(host) - i + 1 /\ From(host, 1) = host
    BY FromLabel
  <2>2. From(host, i) = host <=> i = 1
    BY <1>1, <2>1
  <2>3. From(host, i) \in DOMAIN list => i \in Candidates(host)
    <3>1. From(host, i) \in DOMAIN list => i < Len(host)
      BY <1>1, <1>2, <2>1
    <3> QED BY <1>1, <3>1 DEF Candidates
  <2> QED BY <2>2, <2>3 DEF Covers, Matches, lookup_exact
<1> QED BY <1>3, <1>4

LEMMA Lookup ==
  ASSUME NEW host \in Name, NEW list \in List
  PROVE  LET matched == is_preloaded(list, host)
         IN  /\ matched = None <=> \A i \in 1..Len(host) : ~Covers(list, host, From(host, i))
             /\ matched # None =>
                  \E k \in 1..Len(host) :
                    /\ matched = From(host, k) /\ Covers(list, host, From(host, k))
                    /\ \A j \in 1..(k - 1) : ~Covers(list, host, From(host, j))
<1> DEFINE hits == {i \in Candidates(host) : Matches(list, host, i)}
           matched == is_preloaded(list, host)
<1>0. /\ Len(host) \in Nat /\ hits \subseteq 1..Len(host)
      /\ \A i \in 1..Len(host) : Covers(list, host, From(host, i)) <=> i \in hits
  BY FromLabel, TriedIsAll
<1>1. CASE hits = {}
  BY <1>0, <1>1 DEF is_preloaded
<1>2. CASE hits # {}
  <2>1. \E k \in hits : \A j \in hits : k <= j
    <3>1. hits \subseteq Nat
      BY <1>0
    <3> QED BY <1>2, <3>1, Least
  <2> DEFINE k == CHOOSE i \in hits : \A j \in hits : i <= j
  <2>2. k \in hits /\ \A j \in hits : k <= j
    BY <2>1
  <2>3. matched = From(host, k)
    BY <1>2 DEF is_preloaded
  <2> HIDE DEF k, hits
  <2>4. k \in 1..Len(host)
    BY <1>0, <2>2
  <2>5. From(host, k) # None
    BY <2>4, FromLabel DEF Name, None
  <2>6. \A j \in 1..(k - 1) : j \notin hits
    BY <1>0, <2>2
  <2>7. \A j \in 1..(k - 1) : j \in 1..Len(host)
    BY <1>0, <2>4
  <2> HIDE DEF matched
  <2> QED BY <1>0, <2>2, <2>3, <2>4, <2>5, <2>6, <2>7 DEF matched
<1> QED BY <1>1, <1>2

(* Without its leading label a host has the same parents.                  *)
LEMMA FromTail ==
  ASSUME NEW host \in Name, Len(host) > 1, NEW k \in 2..Len(host)
  PROVE  /\ Tail(host) \in Name /\ Len(Tail(host)) = Len(host) - 1
         /\ From(Tail(host), k - 1) = From(host, k)
<1>1. host \in Seq(STRING) /\ host # <<>> /\ Len(host) \in Nat
  BY FromLabel DEF Name
<1>2. /\ Tail(host) \in Seq(STRING) /\ Len(Tail(host)) = Len(host) - 1
      /\ \A i \in 1..Len(Tail(host)) : Tail(host)[i] = host[i + 1]
  BY <1>1, HeadTailProperties
<1>3. Tail(host) \in Name
  <2>1. Len(Tail(host)) # 0
    BY <1>1, <1>2
  <2>2. Tail(host) # <<>>
    BY <2>1, LenOfNone
  <2> QED BY <1>2, <2>2 DEF Name
<1> DEFINE f == From(Tail(host), k - 1)
           g == From(host, k)
<1>4. k - 1 \in 1..Len(Tail(host)) /\ k \in 1..Len(host)
  BY <1>1, <1>2
<1>5. /\ f \in Name /\ Len(f) = Len(Tail(host)) - (k - 1) + 1
      /\ \A j \in 1..(Len(Tail(host)) - (k - 1) + 1) : f[j] = Tail(host)[(k - 1) + j - 1]
  BY <1>3, <1>4, FromLabel
<1>6. /\ g \in Name /\ Len(g) = Len(host) - k + 1
      /\ \A j \in 1..(Len(host) - k + 1) : g[j] = host[k + j - 1]
  BY <1>4, FromLabel
<1> HIDE DEF f, g
<1>7. Len(f) = Len(g) /\ Len(f) = Len(host) - k + 1
  BY <1>1, <1>2, <1>5, <1>6
<1>8. ASSUME NEW j \in 1..Len(f) PROVE f[j] = g[j]
  <2>1. (k - 1) + j - 1 \in 1..Len(Tail(host)) /\ ((k - 1) + j - 1) + 1 = k + j - 1
    BY <1>1, <1>2, <1>7
  <2>2. f[j] = Tail(host)[(k - 1) + j - 1]
    BY <1>1, <1>2, <1>5, <1>7
  <2>3. g[j] = host[k + j - 1]
    BY <1>6, <1>7
  <2> QED BY <1>2, <2>1, <2>2, <2>3
<1>9. f = g
  BY <1>5, <1>6, <1>7, <1>8, SeqEqual DEF Name
<1> QED BY <1>2, <1>3, <1>9 DEF f, g

(* The lookup's answer, for every host and every list.                     *)
LEMMA PreloadIsRight ==
  ASSUME NEW host \in Name, NEW list \in List
  PROVE  LET matched == is_preloaded(list, host)
         IN  /\ matched = None <=> \A i \in 1..Len(host) : ~Covers(list, host, From(host, i))
             /\ matched # None => /\ Covers(list, host, matched)
                                  /\ \A i \in 1..(Len(host) - Len(matched)) :
                                       ~Covers(list, host, From(host, i))
             /\ matched # None /\ ~verify(list, host).preloaded =>
                  matched = host /\ Head(host) = "www"
<1> DEFINE matched == is_preloaded(list, host)
<1> SUFFICES ASSUME matched # None
             PROVE  /\ Covers(list, host, matched)
                    /\ \A i \in 1..(Len(host) - Len(matched)) : ~Covers(list, host, From(host, i))
                    /\ ~verify(list, host).preloaded => matched = host /\ Head(host) = "www"
  BY Lookup
<1>1. PICK k \in 1..Len(host) :
        /\ matched = From(host, k) /\ Covers(list, host, From(host, k))
        /\ \A j \in 1..(k - 1) : ~Covers(list, host, From(host, j))
  BY Lookup
<1>2. Len(matched) = Len(host) - k + 1 /\ Len(host) \in Nat /\ From(host, 1) = host
  BY <1>1, FromLabel
<1>3. Len(host) - Len(matched) = k - 1
  BY <1>2
<1>4. ASSUME ~verify(list, host).preloaded PROVE matched = host /\ Head(host) = "www"
  <2>1. is_preloaded(list, Stripped(host)) = None
    BY <1>4 DEF verify, check
  <2>2. Len(host) > 1 /\ Head(host) = "www" /\ Stripped(host) = Tail(host)
    BY <2>1 DEF Stripped
  <2>3. CASE k = 1
    BY <1>1, <1>2, <2>2, <2>3
  <2>4. CASE k # 1
    <3>1. k \in 2..Len(host)
      BY <1>2, <2>4
    <3>2. /\ Tail(host) \in Name /\ Len(Tail(host)) = Len(host) - 1
          /\ From(Tail(host), k - 1) = From(host, k)
      BY <2>2, <3>1, FromTail
    <3>3. k - 1 \in 1..Len(Tail(host))
      BY <1>2, <3>1, <3>2
    <3>4. From(host, k) # host
      <4>1. Len(matched) # Len(host)
        BY <1>2, <3>1
      <4> QED BY <1>1, <4>1
    <3>5. Covers(list, Tail(host), From(Tail(host), k - 1))
      BY <1>1, <3>2, <3>4 DEF Covers
    <3>6. is_preloaded(list, Tail(host)) # None
      BY <3>2, <3>3, <3>5, Lookup
    <3> QED BY <2>1, <2>2, <3>6
  <2> QED BY <2>3, <2>4
<1> QED BY <1>1, <1>3, <1>4

-----------------------------------------------------------------------------
(* What a table of findings holds.                                         *)
LEMMA TableIds ==
  ASSUME NEW sent
  PROVE  /\ Found(Disclosures, sent) \subseteq
              {"HTTP-SERVER-VERSION-LEAK", "HTTP-X-POWERED-BY-PRESENT"}
         /\ Found(ProxyDisclosures, sent) \subseteq
              {"HTTP-SERVER-TIMING-PRESENT", "HTTP-VIA-PRESENT"}
         /\ Found(Outdated, sent) \subseteq
              {"HTTP-DEPRECATED-REPORT-TO", "HTTP-CONTENT-TYPE-NO-CHARSET"}
         /\ Found(LateDisclosures, sent) \subseteq {"TLS-HPKP-PRESENT", "TLS-BREACH-ELIGIBLE"}
<1>1. Found(Disclosures, sent) \subseteq {"HTTP-SERVER-VERSION-LEAK", "HTTP-X-POWERED-BY-PRESENT"}
  BY DEF Found, Disclosures
<1>2. Found(ProxyDisclosures, sent) \subseteq {"HTTP-SERVER-TIMING-PRESENT", "HTTP-VIA-PRESENT"}
  BY DEF Found, ProxyDisclosures
<1>3. Found(Outdated, sent) \subseteq {"HTTP-DEPRECATED-REPORT-TO", "HTTP-CONTENT-TYPE-NO-CHARSET"}
  BY DEF Found, Outdated
<1>4. Found(LateDisclosures, sent) \subseteq {"TLS-HPKP-PRESENT", "TLS-BREACH-ELIGIBLE"}
  BY DEF Found, LateDisclosures
<1> QED BY <1>1, <1>2, <1>3, <1>4

CookieIds == {"HTTP-COOKIE-NO-SECURE", "HTTP-COOKIE-NO-HTTPONLY", "HTTP-COOKIE-NO-SAMESITE",
              "HTTP-CACHE-CONTROL-MISSING"}
PolicyIds == {"HTTP-CSP-MISSING", "HTTP-CSP-UNSAFE-INLINE", "HTTP-CSP-UNSAFE-EVAL",
              "HTTP-CSP-DATA-IN-SCRIPT-SRC", "HTTP-CSP-WILDCARD-SCRIPT-SRC",
              "HTTP-X-FRAME-OPTIONS-MISSING", "HTTP-NOSNIFF-MISSING"}
HstsIds == {"HSTS-MISSING", "HSTS-SHORT-MAX-AGE", "HSTS-NO-SUBDOMAINS", "HSTS-NOT-PRELOADED",
            "HSTS-PRELOAD-ELIGIBLE-BUT-UNREGISTERED"}

LEMMA GroupIds ==
  ASSUME NEW info
  PROVE  /\ CookieFindings(info) \subseteq CookieIds
         /\ PolicyFindings(info) \subseteq PolicyIds
         /\ HstsFindings(info) \subseteq HstsIds
<1>1. CookieFindings(info) \subseteq CookieIds
  BY DEF CookieFindings, CookieLacks, CookieIds, If
<1>2. PolicyFindings(info) \subseteq PolicyIds
  BY DEF PolicyFindings, CspFindings, PolicyIds, If
<1>3. HstsFindings(info) \subseteq HstsIds
  BY DEF HstsFindings, HstsIds, If
<1> QED BY <1>1, <1>2, <1>3

(* TRACE is found exactly where it is listed, and what is found of HSTS    *)
(* comes from the HSTS header alone.                                       *)
LEMMA WhatIsFound ==
  ASSUME NEW info
  PROVE  /\ "HTTP-TRACE-ENABLED" \in contribute_findings(info) <=> "TRACE" \in info.allow
         /\ \A id \in HstsIds :
              id \in contribute_findings(info) <=>
                IF info.hsts = Absent THEN id = "HSTS-MISSING" ELSE id \in HstsFindings(info)
<1> DEFINE Rest1 == Found(Disclosures, info.sent) \union CookieFindings(info)
                      \union Found(ProxyDisclosures, info.sent)
                      \union PolicyFindings(info) \union Found(Outdated, info.sent)
           Trace == If("TRACE" \in info.allow, "HTTP-TRACE-ENABLED")
           Late == Found(LateDisclosures, info.sent)
<1>1. contribute_findings(info) =
        Rest1 \union Trace
          \union (IF info.hsts = Absent THEN {"HSTS-MISSING"} ELSE HstsFindings(info) \union Late)
  BY DEF contribute_findings
<1>2. \A id \in HstsIds \union {"HTTP-TRACE-ENABLED"} : id \notin Rest1
  <2>1. \A id \in HstsIds \union {"HTTP-TRACE-ENABLED"} :
          /\ id \notin CookieIds /\ id \notin PolicyIds
          /\ id \notin {"HTTP-SERVER-VERSION-LEAK", "HTTP-X-POWERED-BY-PRESENT"}
          /\ id \notin {"HTTP-SERVER-TIMING-PRESENT", "HTTP-VIA-PRESENT"}
          /\ id \notin {"HTTP-DEPRECATED-REPORT-TO", "HTTP-CONTENT-TYPE-NO-CHARSET"}
    BY DEF HstsIds, CookieIds, PolicyIds
  <2> QED BY <2>1, TableIds, GroupIds
<1>3. \A id \in HstsIds \union {"HTTP-TRACE-ENABLED"} : id \notin Late
  <2>1. \A id \in HstsIds \union {"HTTP-TRACE-ENABLED"} :
          id \notin {"TLS-HPKP-PRESENT", "TLS-BREACH-ELIGIBLE"}
    BY DEF HstsIds
  <2> QED BY <2>1, TableIds
<1>4. /\ "HTTP-TRACE-ENABLED" \notin HstsFindings(info) /\ "HTTP-TRACE-ENABLED" \notin {"HSTS-MISSING"}
      /\ "HTTP-TRACE-ENABLED" \notin HstsIds
  BY GroupIds DEF HstsIds
<1>5. Trace = IF "TRACE" \in info.allow THEN {"HTTP-TRACE-ENABLED"} ELSE {}
  BY DEF If
<1> HIDE DEF Rest1, Trace, Late
<1> QED BY <1>1, <1>2, <1>3, <1>4, <1>5

(* What is found of one site, of TRACE and of the preload list, is true.   *)
LEMMA FindingsTrue ==
  ASSUME NEW w \in WebPeer
  PROVE  LET F == WebAudit(w)
         IN  /\ "HTTP-TRACE-ENABLED" \in F => "TRACE" \in w.site.allow
             /\ ("TRACE" \in w.site.allow /\ w.site.ok /\ w.fate.get /\ w.fate.options /\ w.fate.retry)
                  => "HTTP-TRACE-ENABLED" \in F
             /\ "HSTS-PRELOAD-ELIGIBLE-BUT-UNREGISTERED" \in F =>
                  /\ F \intersect {"HSTS-MISSING", "HSTS-SHORT-MAX-AGE", "HSTS-NO-SUBDOMAINS"} = {}
                  /\ "HSTS-NOT-PRELOADED" \in F
                  /\ \A i \in 1..Len(w.host) :
                       From(w.host, i) \in DOMAIN w.list => i > 1 /\ ~w.list[From(w.host, i)]
<1> DEFINE info == fetch(w.site, w.fate, w.list, w.host)
           F == WebAudit(w)
<1>1. F = contribute_findings(info)
  BY DEF WebAudit
<1>2. /\ w.host \in Name /\ w.list \in List
      /\ w.site.hsts \in {Absent} \union Hsts /\ w.site.allows \in BOOLEAN /\ w.site.ok \in BOOLEAN
      /\ w.fate.get \in BOOLEAN /\ w.fate.options \in BOOLEAN /\ w.fate.retry \in BOOLEAN
  BY DEF WebPeer, Site, Name, List
<1>3. CASE ~w.fate.get \/ ~w.site.ok
  <2>1. info = Default
    BY <1>3 DEF fetch
  <2>2. info.allow = {} /\ info.hsts = Absent
    BY <2>1 DEF Default
  <2>3. "HSTS-PRELOAD-ELIGIBLE-BUT-UNREGISTERED" \in HstsIds
        /\ "HSTS-PRELOAD-ELIGIBLE-BUT-UNREGISTERED" # "HSTS-MISSING"
    BY DEF HstsIds
  <2> HIDE DEF info, F
  <2>4. /\ "HTTP-TRACE-ENABLED" \in F <=> "TRACE" \in info.allow
        /\ \A id \in HstsIds : id \in F <=> id = "HSTS-MISSING"
    BY <1>1, <2>2, WhatIsFound
  <2>5. "HTTP-TRACE-ENABLED" \notin F /\ "HSTS-PRELOAD-ELIGIBLE-BUT-UNREGISTERED" \notin F
    BY <2>2, <2>3, <2>4
  <2> QED BY <1>3, <2>5 DEF F
<1>4. CASE w.fate.get /\ w.site.ok
  <2>1. /\ info.allow = Allow(w.site, w.fate) /\ info.hsts = w.site.hsts
        /\ info.in_preload_list = (w.site.hsts # Absent /\ is_preloaded(w.list, w.host) # None)
    BY <1>4 DEF fetch
  <2> HIDE DEF info, F
  <2>2. /\ "TRACE" \in info.allow => "TRACE" \in w.site.allow
        /\ w.fate.options /\ w.fate.retry /\ "TRACE" \in w.site.allow => "TRACE" \in info.allow
    BY <1>2, <2>1 DEF Allow
  <2>3. ASSUME "HSTS-PRELOAD-ELIGIBLE-BUT-UNREGISTERED" \in F
        PROVE  /\ F \intersect {"HSTS-MISSING", "HSTS-SHORT-MAX-AGE", "HSTS-NO-SUBDOMAINS"} = {}
               /\ "HSTS-NOT-PRELOADED" \in F
               /\ \A i \in 1..Len(w.host) :
                    From(w.host, i) \in DOMAIN w.list => i > 1 /\ ~w.list[From(w.host, i)]
    <3>1. /\ \A id \in HstsIds : id \in F <=>
               IF info.hsts = Absent THEN id = "HSTS-MISSING" ELSE id \in HstsFindings(info)
      BY <1>1, WhatIsFound
    <3>2. /\ info.hsts # Absent
          /\ "HSTS-PRELOAD-ELIGIBLE-BUT-UNREGISTERED" \in HstsFindings(info)
      BY <2>3, <3>1 DEF HstsIds
    <3>3. Eligible(info)
      BY <3>2 DEF HstsFindings, If
    <3>4. info.hsts.maxAge \in Nat /\ ~(info.hsts.maxAge < ShortAge)
      BY <1>2, <2>1, <3>2, <3>3 DEF Eligible, Hsts, YearAge, ShortAge
    <3>5. /\ "HSTS-NOT-PRELOADED" \in HstsFindings(info)
          /\ "HSTS-MISSING" \notin HstsFindings(info)
          /\ "HSTS-SHORT-MAX-AGE" \notin HstsFindings(info)
          /\ "HSTS-NO-SUBDOMAINS" \notin HstsFindings(info)
      BY <3>3, <3>4 DEF HstsFindings, Eligible, If
    <3>6. /\ F \intersect {"HSTS-MISSING", "HSTS-SHORT-MAX-AGE", "HSTS-NO-SUBDOMAINS"} = {}
          /\ "HSTS-NOT-PRELOADED" \in F
      BY <3>1, <3>2, <3>5 DEF HstsIds
    <3>7. is_preloaded(w.list, w.host) = None
      BY <2>1, <3>2, <3>3 DEF Eligible
    <3>8. ASSUME NEW i \in 1..Len(w.host), From(w.host, i) \in DOMAIN w.list
          PROVE  i > 1 /\ ~w.list[From(w.host, i)]
      <4>1. ~Covers(w.list, w.host, From(w.host, i))
        BY <1>2, <3>7, Lookup
      <4>2. From(w.host, 1) = w.host /\ Len(w.host) \in Nat
        BY <1>2, FromLabel
      <4>3. i # 1
        BY <3>8, <4>1, <4>2 DEF Covers
      <4> QED BY <3>8, <4>1, <4>2, <4>3 DEF Covers
    <3> QED BY <3>6, <3>8
  <2>4. "HTTP-TRACE-ENABLED" \in F <=> "TRACE" \in info.allow
    BY <1>1, WhatIsFound
  <2> QED BY <2>2, <2>3, <2>4 DEF F
<1> QED BY <1>2, <1>3, <1>4

(* A policy that allows one more source.                                   *)
LEMMA AllowStep ==
  ASSUME web \in WebPeer, web.site.csp # Absent,
         NEW d \in DOMAIN web.site.csp, NEW token \in Tokens, AllowSource(d, token)
  PROVE  /\ web' \in WebPeer
         /\ web' = [web EXCEPT !.site = [web.site EXCEPT !.csp = web'.site.csp]]
         /\ web'.site.csp # Absent /\ DOMAIN web'.site.csp = DOMAIN web.site.csp
         /\ \A e \in DOMAIN web.site.csp : web.site.csp[e] \subseteq web'.site.csp[e]
<1> DEFINE old == web.site.csp
           new == [old EXCEPT ![d] = @ \union {token}]
<1>1. web.site \in Site /\ old \in Policy
  BY DEF WebPeer, Site
<1>2. PICK S \in SUBSET Directives : old \in [S -> SUBSET Tokens]
  BY <1>1 DEF Policy
<1>3. new \in [S -> SUBSET Tokens]
  BY <1>2
<1>4. new \in Policy
  BY <1>3 DEF Policy
<1>5. DOMAIN new = DOMAIN old /\ \A e \in DOMAIN old : old[e] \subseteq new[e]
  BY <1>2
<1>6. new # Absent
  <2>1. "absent" \notin DOMAIN new /\ "absent" \in DOMAIN Absent
    BY <1>3, PostureAssumption DEF Absent
  <2> QED BY <2>1
<1> HIDE DEF new
<1>7. web' = [web EXCEPT !.site = [web.site EXCEPT !.csp = new]]
  BY DEF new, AllowSource
<1>8. [web.site EXCEPT !.csp = new] \in Site
  BY <1>1, <1>4 DEF Site
<1>9. web' \in WebPeer /\ web'.site = [web.site EXCEPT !.csp = new]
  BY <1>7, <1>8 DEF WebPeer
<1>10. web'.site.csp = new
  BY <1>1, <1>9 DEF Site
<1> QED BY <1>5, <1>6, <1>7, <1>9, <1>10

(* A policy that allows more.                                              *)
Wider(csp, more) ==
  DOMAIN more = DOMAIN csp /\ \A e \in DOMAIN csp : csp[e] \subseteq more[e]

LEMMA Classified ==
  ASSUME NEW p
  PROVE  /\ classify_csp_unsafe_inline(p) # "none" <=> Mentions(p, INLINE)
         /\ Mentions(p, INLINE) /\ INLINE \in ScriptTokens(p) =>
              classify_csp_unsafe_inline(p) = "Medium"
  BY DEF classify_csp_unsafe_inline

LEMMA WiderPolicy ==
  ASSUME NEW csp, NEW more, Wider(csp, more)
  PROVE  /\ \A t : Mentions(csp, t) => Mentions(more, t)
         /\ ScriptTokens(csp) \subseteq ScriptTokens(more)
         /\ CspFindings(csp) \subseteq CspFindings(more)
         /\ classify_csp_unsafe_inline(csp) = "Medium" =>
              classify_csp_unsafe_inline(more) = "Medium" \/ Guessed(csp)
<1>1. \A t : Mentions(csp, t) => Mentions(more, t)
  BY DEF Mentions, Wider
<1>2. ScriptTokens(csp) \subseteq ScriptTokens(more)
  BY DEF ScriptTokens, csp_directive_value, Wider
<1>3. \A p : /\ classify_csp_unsafe_inline(p) # "none" <=> Mentions(p, INLINE)
             /\ Mentions(p, INLINE) /\ INLINE \in ScriptTokens(p) =>
                  classify_csp_unsafe_inline(p) = "Medium"
  BY Classified
<1>4. CspFindings(csp) \subseteq CspFindings(more)
  BY <1>1, <1>2, <1>3 DEF CspFindings, If
<1>5. ASSUME classify_csp_unsafe_inline(csp) = "Medium", ~Guessed(csp)
      PROVE  classify_csp_unsafe_inline(more) = "Medium"
  <2>1. INLINE \in ScriptTokens(csp) /\ Mentions(csp, INLINE)
    BY <1>3, <1>5 DEF Guessed
  <2>2. INLINE \in ScriptTokens(more) /\ Mentions(more, INLINE)
    BY <1>1, <1>2, <2>1
  <2> QED BY <1>3, <2>2
<1> QED BY <1>1, <1>2, <1>4, <1>5

(* What is found grows with the policy.                                    *)
LEMMA FindingsGrow ==
  ASSUME NEW w \in WebPeer, NEW v \in WebPeer,
         v = [w EXCEPT !.site = [w.site EXCEPT !.csp = v.site.csp]],
         w.site.csp # Absent, v.site.csp # Absent, Wider(w.site.csp, v.site.csp)
  PROVE  WebAudit(w) \subseteq WebAudit(v)
<1> DEFINE a == fetch(w.site, w.fate, w.list, w.host)
           b == fetch(v.site, v.fate, v.list, v.host)
<1>1. /\ v.fate = w.fate /\ v.host = w.host /\ v.list = w.list
      /\ v.site = [w.site EXCEPT !.csp = v.site.csp] /\ w.site \in Site
  BY DEF WebPeer
<1>2. /\ v.site.ok = w.site.ok /\ v.site.hsts = w.site.hsts /\ v.site.sent = w.site.sent
      /\ v.site.cookies = w.site.cookies /\ v.site.allow = w.site.allow
      /\ v.site.allows = w.site.allows
  BY <1>1 DEF Site
<1>3. CASE ~w.fate.get \/ ~w.site.ok
  <2>1. a = Default /\ b = Default
    BY <1>1, <1>2, <1>3 DEF fetch
  <2> QED BY <2>1 DEF WebAudit
<1>4. CASE w.fate.get /\ w.site.ok
  <2>1. /\ a.hsts = b.hsts /\ a.sent = b.sent /\ a.cookies = b.cookies /\ a.allow = b.allow
        /\ a.in_preload_list = b.in_preload_list
        /\ a.csp = w.site.csp /\ b.csp = v.site.csp
    BY <1>1, <1>2, <1>4 DEF fetch, Allow
  <2> HIDE DEF a, b
  <2>2. CookieFindings(a) = CookieFindings(b)
    BY <2>1 DEF CookieFindings
  <2>3. HstsFindings(a) = HstsFindings(b)
    BY <2>1 DEF HstsFindings, Eligible
  <2>4. CspFindings(a.csp) \subseteq CspFindings(b.csp)
    BY <2>1, WiderPolicy
  <2>5. Framable(a) <=> Framable(b)
    BY <2>1 DEF Framable, Wider
  <2>6. PolicyFindings(a) \subseteq PolicyFindings(b)
    BY <2>1, <2>4, <2>5 DEF PolicyFindings, If
  <2>7. contribute_findings(a) \subseteq contribute_findings(b)
    BY <2>1, <2>2, <2>3, <2>6 DEF contribute_findings
  <2> QED BY <2>7 DEF WebAudit, a, b
<1> QED BY <1>1, <1>3, <1>4

-----------------------------------------------------------------------------
(* The inductive invariant: peers stay peers, and the audits are of now.   *)
PInv == ssh \in SshPeer /\ web \in WebPeer /\ Audited

LEMMA OfferStep ==
  ASSUME ssh \in SshPeer, NEW i \in DOMAIN Algorithms, NEW name \in Algorithms[i], Offer(i, name)
  PROVE  /\ ssh' \in SshPeer /\ ssh'.fate = ssh.fate /\ ssh'.server.banner = ssh.server.banner
         /\ ssh'.server.lists[i] = Append(ssh.server.lists[i], name)
         /\ \A j \in 1..7 : j # i => ssh'.server.lists[j] = ssh.server.lists[j]
<1> DEFINE new == Append(ssh.server.lists[i], name)
           lists == [ssh.server.lists EXCEPT ![i] = new]
<1>1. i \in 1..7 /\ name \in STRING
  BY PostureAssumption
<1>2. ssh.server \in [banner : STRING, lists : [1..7 -> Seq(STRING)]]
  BY DEF SshPeer
<1>3. ssh.server.lists \in [1..7 -> Seq(STRING)]
  BY <1>2
<1>4. new \in Seq(STRING)
  BY <1>1, <1>3, AppendProperties
<1> HIDE DEF new
<1>5. /\ lists \in [1..7 -> Seq(STRING)] /\ lists[i] = new
      /\ \A j \in 1..7 : j # i => lists[j] = ssh.server.lists[j]
  BY <1>1, <1>3, <1>4
<1>6. ssh' = [ssh EXCEPT !.server = [ssh.server EXCEPT !.lists = lists]]
  BY DEF Offer, new
<1> HIDE DEF lists
<1>7. [ssh.server EXCEPT !.lists = lists] \in [banner : STRING, lists : [1..7 -> Seq(STRING)]]
      /\ [ssh.server EXCEPT !.lists = lists].lists = lists
      /\ [ssh.server EXCEPT !.lists = lists].banner = ssh.server.banner
  BY <1>2, <1>5
<1>8. ssh' \in SshPeer /\ ssh'.server = [ssh.server EXCEPT !.lists = lists] /\ ssh'.fate = ssh.fate
  BY <1>6, <1>7 DEF SshPeer
<1> QED BY <1>5, <1>7, <1>8 DEF new

(* A header that says more, and an entry of the list that covers more,     *)
(* leave the policy alone.                                                 *)
LEMMA StrengthenStep ==
  web \in WebPeer /\ Strengthen => web' \in WebPeer /\ web'.site.csp = web.site.csp
<1> SUFFICES ASSUME web \in WebPeer, Strengthen
             PROVE  web' \in WebPeer /\ web'.site.csp = web.site.csp
  OBVIOUS
<1>1. web.site \in Site /\ web.site.hsts \in Hsts
  BY DEF WebPeer, Site, Strengthen
<1>2. \E h \in Hsts : web' = [web EXCEPT !.site = [web.site EXCEPT !.hsts = h]]
  <2>1. CASE \E limit \in {ShortAge, YearAge} : web' = [web EXCEPT !.site.hsts.maxAge = limit]
    <3>1. PICK limit \in {ShortAge, YearAge} : web' = [web EXCEPT !.site.hsts.maxAge = limit]
      BY <2>1
    <3>2. [web.site.hsts EXCEPT !.maxAge = limit] \in Hsts
      BY <1>1 DEF Hsts, ShortAge, YearAge
    <3> QED BY <3>1, <3>2
  <2>2. CASE web' = [web EXCEPT !.site.hsts.sub = TRUE]
    <3>1. [web.site.hsts EXCEPT !.sub = TRUE] \in Hsts
      BY <1>1 DEF Hsts
    <3> QED BY <2>2, <3>1
  <2>3. CASE web' = [web EXCEPT !.site.hsts.preload = TRUE]
    <3>1. [web.site.hsts EXCEPT !.preload = TRUE] \in Hsts
      BY <1>1 DEF Hsts
    <3> QED BY <2>3, <3>1
  <2> QED BY <2>1, <2>2, <2>3 DEF Strengthen
<1>3. PICK h \in Hsts : web' = [web EXCEPT !.site = [web.site EXCEPT !.hsts = h]]
  BY <1>2
<1>4. [web.site EXCEPT !.hsts = h] \in Site /\ [web.site EXCEPT !.hsts = h].csp = web.site.csp
  BY <1>1 DEF Site
<1>5. web' \in WebPeer /\ web'.site = [web.site EXCEPT !.hsts = h]
  BY <1>3, <1>4 DEF WebPeer
<1> QED BY <1>4, <1>5

LEMMA IncludeStep ==
  ASSUME web \in WebPeer, NEW name \in DOMAIN web.list, IncludeSubdomains(name)
  PROVE  web' \in WebPeer /\ web'.site.csp = web.site.csp
<1>1. PICK S \in SUBSET Entries : web.list \in [S -> BOOLEAN]
  BY DEF WebPeer
<1>2. [web.list EXCEPT ![name] = TRUE] \in [S -> BOOLEAN]
  BY <1>1
<1>3. web' = [web EXCEPT !.list = [web.list EXCEPT ![name] = TRUE]]
  BY DEF IncludeSubdomains
<1> QED BY <1>2, <1>3 DEF WebPeer

LEMMA InitPInv == PostureInit => PInv
  BY PostureAssumption DEF PostureInit, PInv

LEMMA NextPInv == PInv /\ [PostureNext]_posture => PInv'
<1> SUFFICES ASSUME PInv, [PostureNext]_posture PROVE PInv'
  OBVIOUS
<1> USE DEF PInv, Audited
<1>1. ASSUME NEW i \in DOMAIN Algorithms, NEW name \in Algorithms[i], Offer(i, name) PROVE PInv'
  BY <1>1, OfferStep DEF Offer
<1>2. ASSUME web.site.csp # Absent, NEW d \in DOMAIN web.site.csp, NEW token \in Tokens,
             AllowSource(d, token)
      PROVE  PInv'
  <2>1. web' \in WebPeer
    BY <1>2, AllowStep
  <2> QED BY <1>2, <2>1 DEF AllowSource
<1>3. CASE Strengthen
  BY <1>3, StrengthenStep DEF Strengthen
<1>4. ASSUME NEW name \in DOMAIN web.list, IncludeSubdomains(name) PROVE PInv'
  BY <1>4, IncludeStep DEF IncludeSubdomains
<1>5. CASE UNCHANGED posture
  BY <1>5 DEF posture
<1> QED BY <1>1, <1>2, <1>3, <1>4, <1>5 DEF PostureNext

THEOREM PostureInvariance == PostureSpec => []PInv
<1> QED BY InitPInv, NextPInv, PTL DEF PostureSpec

(* For every list without top-level domains and every host, the lookup     *)
(* finds the closest entry that covers it, and `verify-preload` misses a   *)
(* host only for its leading www.                                          *)
THEOREM PreloadAlwaysAnswers == PostureSpec => []PreloadAnswers
<1>1. PInv => PreloadAnswers
  <2> SUFFICES ASSUME PInv PROVE PreloadAnswers
    OBVIOUS
  <2>1. web.host \in Name /\ web.list \in List
    BY DEF PInv, WebPeer, Name, List
  <2> QED BY <2>1, PreloadIsRight DEF PreloadAnswers, Covers
<1> QED BY <1>1, PostureInvariance, PTL

(* What is found of TRACE and of the preload list is true of every site,   *)
(* whichever of the requests is lost.                                      *)
THEOREM FindingsAreTrue == PostureSpec => []FoundIsTrue
<1>1. PInv => FoundIsTrue
  BY FindingsTrue DEF PInv, Audited, FoundIsTrue, TraceIsSeen, EligibleIsReady
<1> QED BY <1>1, PostureInvariance, PTL

(* And no policy is judged milder for allowing one source more.            *)
THEOREM PolicyMonotonic == PostureSpec => AllowingMoreNeverHelps
<1> DEFINE A == web'.site.csp # web.site.csp =>
                  /\ found \subseteq found'
                  /\ classify_csp_unsafe_inline(web.site.csp) = "Medium" =>
                       classify_csp_unsafe_inline(web'.site.csp) = "Medium" \/ Guessed(web.site.csp)
<1>1. PInv /\ PInv' /\ [PostureNext]_posture => [A]_posture
  <2> SUFFICES ASSUME PInv, PInv', PostureNext, web'.site.csp # web.site.csp
               PROVE  /\ found \subseteq found'
                      /\ classify_csp_unsafe_inline(web.site.csp) = "Medium" =>
                           classify_csp_unsafe_inline(web'.site.csp) = "Medium" \/ Guessed(web.site.csp)
    OBVIOUS
  <2>1. web \in WebPeer /\ found = WebAudit(web) /\ web' \in WebPeer /\ found' = WebAudit(web')
    BY DEF PInv, Audited
  <2>2. PICK d \in DOMAIN web.site.csp, token \in Tokens : AllowSource(d, token)
    BY <2>1, StrengthenStep, IncludeStep DEF PostureNext, Offer
  <2>3. web.site.csp # Absent
    BY <2>1, StrengthenStep, IncludeStep DEF PostureNext, Offer
  <2>4. /\ web' = [web EXCEPT !.site = [web.site EXCEPT !.csp = web'.site.csp]]
        /\ web'.site.csp # Absent /\ Wider(web.site.csp, web'.site.csp)
    <3>1. /\ web' = [web EXCEPT !.site = [web.site EXCEPT !.csp = web'.site.csp]]
          /\ web'.site.csp # Absent /\ DOMAIN web'.site.csp = DOMAIN web.site.csp
          /\ \A e \in DOMAIN web.site.csp : web.site.csp[e] \subseteq web'.site.csp[e]
      BY <2>1, <2>2, <2>3, AllowStep
    <3> QED BY <3>1 DEF Wider
  <2>5. WebAudit(web) \subseteq WebAudit(web')
    BY <2>1, <2>3, <2>4, FindingsGrow
  <2> QED BY <2>1, <2>4, <2>5, WiderPolicy
<1>2. PostureSpec => [][A]_posture
  BY <1>1, PostureInvariance, PTL DEF PostureSpec
<1> QED BY <1>2 DEF AllowingMoreNeverHelps

-----------------------------------------------------------------------------
(* The tables of weak algorithms, and what the rules make of a list.       *)
Tables == {WEAK_KEX, WEAK_HOSTKEY, WEAK_CIPHER, WEAK_MAC}
Severities == {"Critical", "High", "Medium", "Low", "Info"}

LEMMA TableRules ==
  ASSUME NEW T \in Tables
  PROVE  DOMAIN T \subseteq Nat /\ \A i \in DOMAIN T : T[i][3] \in Severities
<1>1. CASE T = WEAK_KEX
  BY <1>1 DEF WEAK_KEX, Severities
<1>2. CASE T = WEAK_HOSTKEY
  BY <1>2 DEF WEAK_HOSTKEY, Severities
<1>3. CASE T = WEAK_CIPHER
  BY <1>3 DEF WEAK_CIPHER, Severities
<1>4. CASE T = WEAK_MAC
  BY <1>4 DEF WEAK_MAC, Severities
<1> QED BY <1>1, <1>2, <1>3, <1>4 DEF Tables

LEMMA ScanList ==
  ASSUME NEW T \in Tables, NEW list
  PROVE  /\ scan_list(list, T) \subseteq Severities
         /\ scan_list(list, T) = {} => \A name \in ToSet(list) : ~Suspect(name, T)
         /\ \A more : ToSet(list) \subseteq ToSet(more) => scan_list(list, T) \subseteq scan_list(more, T)
<1>1. ASSUME NEW name, Hits(name, T) # {} PROVE First(name, T) \in DOMAIN T
  <2>1. Hits(name, T) \subseteq DOMAIN T /\ DOMAIN T \subseteq Nat
    BY TableRules DEF Hits
  <2>2. \E i \in Hits(name, T) : \A j \in Hits(name, T) : i <= j
    BY <1>1, <2>1, Least
  <2>3. First(name, T) \in Hits(name, T)
    BY <2>2 DEF First
  <2> QED BY <2>1, <2>3
<1>2. scan_list(list, T) \subseteq Severities
  BY <1>1, TableRules DEF scan_list
<1>3. scan_list(list, T) = {} => \A name \in ToSet(list) : Hits(name, T) = {}
  BY DEF scan_list
<1>4. \A name : Hits(name, T) = {} => ~Suspect(name, T)
  BY DEF Hits, Suspect
<1>5. \A more : ToSet(list) \subseteq ToSet(more) => scan_list(list, T) \subseteq scan_list(more, T)
  BY DEF scan_list
<1> QED BY <1>2, <1>3, <1>4, <1>5

LEMMA RankNat == \A s \in Severities : rank[s] \in Nat
  BY DEF rank, Severities

LEMMA WorstOf ==
  ASSUME NEW hits, hits \subseteq Severities
  PROVE  /\ worst(hits) \in Severities
         /\ worst(hits) \in hits \union {"Info"}
         /\ \A t \in hits \union {"Info"} : rank[t] <= rank[worst(hits)]
<1> DEFINE all == hits \union {"Info"}
<1>1. /\ rank["Critical"] = 4 /\ rank["High"] = 3 /\ rank["Medium"] = 2 /\ rank["Low"] = 1
      /\ rank["Info"] = 0
  BY DEF rank
<1>2. \E s \in all : \A t \in all : rank[t] <= rank[s]
  <2>1. \A t \in all : t \in Severities
    BY DEF Severities
  <2>2. CASE "Critical" \in all
    BY <1>1, <2>1, <2>2 DEF Severities
  <2>3. CASE "Critical" \notin all /\ "High" \in all
    BY <1>1, <2>1, <2>3 DEF Severities
  <2>4. CASE "Critical" \notin all /\ "High" \notin all /\ "Medium" \in all
    BY <1>1, <2>1, <2>4 DEF Severities
  <2>5. CASE "Critical" \notin all /\ "High" \notin all /\ "Medium" \notin all /\ "Low" \in all
    BY <1>1, <2>1, <2>5 DEF Severities
  <2>6. CASE "Critical" \notin all /\ "High" \notin all /\ "Medium" \notin all /\ "Low" \notin all
    BY <1>1, <2>1, <2>6 DEF Severities
  <2> QED BY <2>2, <2>3, <2>4, <2>5, <2>6
<1>3. worst(hits) \in all /\ \A t \in all : rank[t] <= rank[worst(hits)]
  BY <1>2 DEF worst
<1> QED BY <1>3 DEF Severities

(* A longer list is found no less weak.                                    *)
LEMMA WeakListGrows ==
  ASSUME NEW T \in Tables, NEW list, NEW more, ToSet(list) \subseteq ToSet(more), NEW id,
         NEW f \in WeakList(id, list, T)
  PROVE  /\ f.id = id /\ f.severity \in Severities
         /\ \E g \in WeakList(id, more, T) : g.id = f.id /\ rank[g.severity] >= rank[f.severity]
<1> DEFINE h == scan_list(list, T)
           m == scan_list(more, T)
<1>1. h \subseteq Severities /\ m \subseteq Severities /\ h \subseteq m
  BY ScanList
<1>2. h # {} /\ f = flag(id, worst(h))
  BY DEF WeakList
<1>3. m # {} /\ flag(id, worst(m)) \in WeakList(id, more, T)
  <2>1. m # {}
    BY <1>1, <1>2
  <2> QED BY <2>1 DEF WeakList
<1> HIDE DEF h, m
<1>4. /\ worst(h) \in Severities /\ worst(m) \in Severities
      /\ \A t \in m \union {"Info"} : rank[t] <= rank[worst(m)]
  BY <1>1, WorstOf
<1>5. worst(h) \in h \union {"Info"}
  BY <1>1, WorstOf
<1>6. rank[worst(h)] <= rank[worst(m)]
  BY <1>1, <1>4, <1>5
<1>7. rank[worst(h)] \in Nat /\ rank[worst(m)] \in Nat
  BY <1>4, RankNat
<1>8. f.id = id /\ f.severity = worst(h)
      /\ flag(id, worst(m)).id = id /\ flag(id, worst(m)).severity = worst(m)
  BY <1>2 DEF flag
<1> QED BY <1>3, <1>4, <1>6, <1>7, <1>8

-----------------------------------------------------------------------------
(* The handshake with a peer: the lists that were read of it.              *)
Read(s, i) == IF s.fate.packet = "kexinit" THEN name_list(s.server, s.fate.whole, i) ELSE <<>>
Heard(s) ==
  [banner |-> s.server.banner, kex |-> Read(s, KEX), host_keys |-> Read(s, HOST_KEY),
   ciphers |-> Read(s, CIPHER), macs |-> Read(s, MAC)]

LEMMA HandshakeIs ==
  ASSUME NEW s \in SshPeer
  PROVE  IF s.fate.packet = "failed" THEN SshAudit(s) = [exit |-> 2, findings |-> {}]
         ELSE SshAudit(s) = [exit |-> 0, findings |-> audit(Heard(s))]
<1>1. s.fate.packet \in {"kexinit", "other", "failed"}
  BY DEF SshPeer
<1>2. CASE s.fate.packet = "failed"
  BY <1>2 DEF SshAudit, run_ssh_audit, handshake
<1>3. CASE s.fate.packet # "failed"
  <2>1. handshake(s.server, s.fate) = Heard(s)
    BY <1>1, <1>3 DEF handshake, Heard, Read
  <2>2. Heard(s) # Failed
    <3>1. "banner" \in DOMAIN Heard(s) /\ "banner" \notin DOMAIN Failed
      BY DEF Heard, Failed
    <3> QED BY <3>1
  <2> QED BY <1>3, <2>1, <2>2 DEF SshAudit, run_ssh_audit
<1> QED BY <1>2, <1>3

LEMMA ReadIs ==
  ASSUME NEW s \in SshPeer, NEW i \in 1..7
  PROVE  /\ Read(s, i) \in Seq(STRING)
         /\ s.fate.packet = "kexinit" /\ i <= s.fate.whole => Read(s, i) = s.server.lists[i]
         /\ ~(s.fate.packet = "kexinit" /\ i <= s.fate.whole) => Read(s, i) = <<>>
<1>1. s.server.lists[i] \in Seq(STRING) /\ s.fate.whole \in Nat
  BY DEF SshPeer
<1>2. <<>> \in Seq(STRING)
  OBVIOUS
<1>3. CASE s.fate.packet = "kexinit" /\ i <= s.fate.whole
  BY <1>1, <1>3 DEF Read, name_list
<1>4. CASE ~(s.fate.packet = "kexinit" /\ i <= s.fate.whole)
  <2>1. Read(s, i) = <<>>
    BY <1>4 DEF Read, name_list
  <2> QED BY <1>2, <1>4, <2>1
<1> QED BY <1>3, <1>4

LEMMA Members ==
  ASSUME NEW s \in Seq(STRING)
  PROVE  /\ \A e : Contains(s, e) <=> e \in ToSet(s)
         /\ \A e \in STRING : ToSet(s) \subseteq ToSet(Append(s, e))
<1>1. DOMAIN s = 1..Len(s) /\ Len(s) \in Nat
  OBVIOUS
<1>2. \A e : Contains(s, e) <=> e \in ToSet(s)
  BY <1>1 DEF Contains, ToSet
<1>3. ASSUME NEW e \in STRING PROVE ToSet(s) \subseteq ToSet(Append(s, e))
  <2>1. /\ DOMAIN Append(s, e) = 1..(Len(s) + 1)
        /\ \A j \in 1..Len(s) : Append(s, e)[j] = s[j]
    BY <1>1, AppendProperties
  <2>2. \A j \in 1..Len(s) : j \in 1..(Len(s) + 1)
    BY <1>1
  <2>3. \A j \in DOMAIN s : j \in DOMAIN Append(s, e) /\ Append(s, e)[j] = s[j]
    BY <1>1, <2>1, <2>2
  <2> QED BY ONLY <2>3 DEF ToSet
<1> QED BY <1>2, <1>3

(* The weaknesses, one by one.                                             *)
WeakIds == {"SSH-PROTO-V1", "SSH-KEX-WEAK", "SSH-HOSTKEY-WEAK", "SSH-CIPHER-WEAK", "SSH-MAC-WEAK",
            "SSH-CIPHER-CBC", "SSH-TERRAPIN"}

LEMMA WeakIs ==
  ASSUME NEW T \in Tables, NEW list, NEW id, NEW f \in WeakList(id, list, T)
  PROVE  f.id = id /\ f.severity \in Severities
<1>1. scan_list(list, T) \subseteq Severities
  BY ScanList
<1>2. f = flag(id, worst(scan_list(list, T)))
  BY DEF WeakList
<1>3. worst(scan_list(list, T)) \in Severities
  BY <1>1, WorstOf
<1> QED BY <1>2, <1>3 DEF flag

LEMMA WeaknessIs ==
  ASSUME NEW k, NEW f \in Weaknesses(k)
  PROVE  f.id \in WeakIds /\ f.severity \in Severities
<1>1. CASE f \in WeakList("SSH-KEX-WEAK", k.kex, WEAK_KEX)
  BY <1>1, WeakIs DEF Tables, WeakIds
<1>2. CASE f \in WeakList("SSH-HOSTKEY-WEAK", k.host_keys, WEAK_HOSTKEY)
  BY <1>2, WeakIs DEF Tables, WeakIds
<1>3. CASE f \in WeakList("SSH-CIPHER-WEAK", k.ciphers, WEAK_CIPHER)
  BY <1>3, WeakIs DEF Tables, WeakIds
<1>4. CASE f \in WeakList("SSH-MAC-WEAK", k.macs, WEAK_MAC)
  BY <1>4, WeakIs DEF Tables, WeakIds
<1>5. CASE f \in {flag("SSH-PROTO-V1", "Critical"), flag("SSH-CIPHER-CBC", "Medium"),
                  flag("SSH-TERRAPIN", "Medium")}
  BY <1>5 DEF flag, WeakIds, Severities
<1> QED BY <1>1, <1>2, <1>3, <1>4, <1>5 DEF Weaknesses

LEMMA AuditIs ==
  ASSUME NEW k
  PROVE  /\ \A f \in audit(k) : f \in Weaknesses(k) \/ f.severity = "Info"
         /\ \A f \in audit(k) : f.severity \in Severities
         /\ Weaknesses(k) \subseteq audit(k)
         /\ flag("SSH-ALGOS-OK", "Info") \in audit(k) => Clean(Weaknesses(k), k)
<1>1. \A f \in audit(k) : f \in Weaknesses(k) \/ f.severity = "Info"
  <2>1. \A f \in audit(k) : f \in Weaknesses(k) \/ \E id : f = flag(id, "Info")
    BY DEF audit
  <2>2. \A id : flag(id, "Info").severity = "Info"
    BY DEF flag
  <2> QED BY <2>1, <2>2
<1>2. Weaknesses(k) \subseteq audit(k)
  BY DEF audit
<1>3. flag("SSH-ALGOS-OK", "Info") \notin Weaknesses(k)
  BY WeaknessIs DEF flag, WeakIds
<1>4. flag("SSH-ALGOS-OK", "Info") # flag("SSH-BANNER", "Info")
  BY DEF flag
<1> QED BY <1>1, <1>2, <1>3, <1>4, WeaknessIs DEF audit, Severities

(* A clean handshake has nothing that a rule is against.                   *)
LEMMA CleanHas ==
  ASSUME NEW k, Clean(Weaknesses(k), k)
  PROVE  /\ k.kex # <<>> /\ ~VersionOne(k.banner)
         /\ \A name \in ToSet(k.kex) : ~Suspect(name, WEAK_KEX)
         /\ \A name \in ToSet(k.host_keys) : ~Suspect(name, WEAK_HOSTKEY)
         /\ \A name \in ToSet(k.ciphers) : ~Suspect(name, WEAK_CIPHER)
         /\ \A name \in ToSet(k.macs) : ~Suspect(name, WEAK_MAC)
         /\ \A c \in ToSet(k.ciphers) : ~Cbc(c) /\ (ChaCha(c) => strict_kex(k))
         /\ \A m \in ToSet(k.macs) : Etm(m) => strict_kex(k)
<1>1. Weaknesses(k) = {} /\ k.kex # <<>>
  BY DEF Clean
<1>2. /\ WeakList("SSH-KEX-WEAK", k.kex, WEAK_KEX) = {}
      /\ WeakList("SSH-HOSTKEY-WEAK", k.host_keys, WEAK_HOSTKEY) = {}
      /\ WeakList("SSH-CIPHER-WEAK", k.ciphers, WEAK_CIPHER) = {}
      /\ WeakList("SSH-MAC-WEAK", k.macs, WEAK_MAC) = {}
      /\ ~VersionOne(k.banner)
      /\ ~Terrapin(k) /\ \A c \in ToSet(k.ciphers) : ~Cbc(c)
  BY <1>1 DEF Weaknesses
<1>3. \A T \in Tables : \A list, id :
       WeakList(id, list, T) = {} => \A name \in ToSet(list) : ~Suspect(name, T)
  <2>1. \A T \in Tables : \A list, id : WeakList(id, list, T) = {} => scan_list(list, T) = {}
    BY DEF WeakList
  <2> QED BY <2>1, ScanList
<1>4. WEAK_KEX \in Tables /\ WEAK_HOSTKEY \in Tables /\ WEAK_CIPHER \in Tables /\ WEAK_MAC \in Tables
  BY DEF Tables
<1> QED BY <1>1, <1>2, <1>3, <1>4 DEF Terrapin

(* Whatever a server advertises, and wherever its packet is cut, a clean   *)
(* result is said only of lists that were read and hold nothing weak.      *)
THEOREM CleanIsEarned == PostureSpec => []CleanIsReviewed
<1>1. PInv => CleanIsReviewed
  <2> SUFFICES ASSUME PInv, flag("SSH-ALGOS-OK", "Info") \in report.findings
               PROVE  /\ ssh.fate.packet = "kexinit" /\ ssh.fate.whole >= KEX
                      /\ ~VersionOne(ssh.server.banner)
                      /\ \A table \in {<<KEX, WEAK_KEX>>, <<HOST_KEY, WEAK_HOSTKEY>>,
                                       <<CIPHER, WEAK_CIPHER>>, <<MAC, WEAK_MAC>>} :
                           table[1] <= ssh.fate.whole =>
                             \A name \in ToSet(ssh.server.lists[table[1]]) : ~Suspect(name, table[2])
                      /\ CIPHER <= ssh.fate.whole =>
                           \A c \in ToSet(ssh.server.lists[CIPHER]) :
                             ~Cbc(c) /\ (ChaCha(c) => MarksStrict)
                      /\ MAC <= ssh.fate.whole =>
                           \A m \in ToSet(ssh.server.lists[MAC]) : Etm(m) => MarksStrict
    BY DEF CleanIsReviewed
  <2> DEFINE k == Heard(ssh)
  <2>1. ssh \in SshPeer /\ report = SshAudit(ssh)
    BY DEF PInv, Audited
  <2>2. report.findings = audit(k)
    BY <2>1, HandshakeIs
  <2>3. Clean(Weaknesses(k), k)
    BY <2>2, AuditIs
  <2> HIDE DEF k
  <2>4. /\ k.kex # <<>> /\ ~VersionOne(k.banner)
        /\ \A name \in ToSet(k.kex) : ~Suspect(name, WEAK_KEX)
        /\ \A name \in ToSet(k.host_keys) : ~Suspect(name, WEAK_HOSTKEY)
        /\ \A name \in ToSet(k.ciphers) : ~Suspect(name, WEAK_CIPHER)
        /\ \A name \in ToSet(k.macs) : ~Suspect(name, WEAK_MAC)
        /\ \A c \in ToSet(k.ciphers) : ~Cbc(c) /\ (ChaCha(c) => strict_kex(k))
        /\ \A m \in ToSet(k.macs) : Etm(m) => strict_kex(k)
    BY <2>3, CleanHas
  <2>5. /\ k.kex = Read(ssh, KEX) /\ k.host_keys = Read(ssh, HOST_KEY)
        /\ k.ciphers = Read(ssh, CIPHER) /\ k.macs = Read(ssh, MAC)
        /\ k.banner = ssh.server.banner
    BY DEF k, Heard
  <2>6. KEX \in 1..7 /\ HOST_KEY \in 1..7 /\ CIPHER \in 1..7 /\ MAC \in 1..7
    BY DEF KEX, HOST_KEY, CIPHER, MAC
  <2>7. ssh.fate.packet = "kexinit" /\ KEX <= ssh.fate.whole
    BY <2>1, <2>4, <2>5, <2>6, ReadIs
  <2>8. \A i \in 1..7 : i <= ssh.fate.whole => Read(ssh, i) = ssh.server.lists[i]
    BY <2>1, <2>7, ReadIs
  <2>9. ssh.fate.whole \in Nat /\ KEX \in Nat
    BY <2>1, <2>6 DEF SshPeer
  <2>10. ASSUME NEW table \in {<<KEX, WEAK_KEX>>, <<HOST_KEY, WEAK_HOSTKEY>>,
                               <<CIPHER, WEAK_CIPHER>>, <<MAC, WEAK_MAC>>}
         PROVE  table[1] \in 1..7 /\ \A name \in ToSet(Read(ssh, table[1])) : ~Suspect(name, table[2])
    <3>1. CASE table = <<KEX, WEAK_KEX>>
      BY <2>4, <2>5, <2>6, <3>1
    <3>2. CASE table = <<HOST_KEY, WEAK_HOSTKEY>>
      BY <2>4, <2>5, <2>6, <3>2
    <3>3. CASE table = <<CIPHER, WEAK_CIPHER>>
      BY <2>4, <2>5, <2>6, <3>3
    <3>4. CASE table = <<MAC, WEAK_MAC>>
      BY <2>4, <2>5, <2>6, <3>4
    <3> QED BY <2>10, <3>1, <3>2, <3>3, <3>4
  <2>11. ASSUME NEW table \in {<<KEX, WEAK_KEX>>, <<HOST_KEY, WEAK_HOSTKEY>>,
                               <<CIPHER, WEAK_CIPHER>>, <<MAC, WEAK_MAC>>},
                table[1] <= ssh.fate.whole, NEW name \in ToSet(ssh.server.lists[table[1]])
         PROVE  ~Suspect(name, table[2])
    BY <2>8, <2>10, <2>11
  <2>12. ssh.fate.whole >= KEX
    BY <2>7, <2>9
  <2>13. strict_kex(k) = MarksStrict
    BY <2>5, <2>6, <2>7, <2>8 DEF strict_kex, MarksStrict
  <2>14. /\ CIPHER <= ssh.fate.whole => k.ciphers = ssh.server.lists[CIPHER]
         /\ MAC <= ssh.fate.whole => k.macs = ssh.server.lists[MAC]
    BY <2>5, <2>6, <2>8
  <2> QED BY <2>4, <2>5, <2>7, <2>11, <2>12, <2>13, <2>14
<1> QED BY <1>1, PostureInvariance, PTL

(* A server that is heard to offer more is found no less weak.             *)
LEMMA AuditGrows ==
  ASSUME NEW k, NEW m, m.banner = k.banner,
         ToSet(k.kex) \subseteq ToSet(m.kex), ToSet(k.host_keys) \subseteq ToSet(m.host_keys),
         ToSet(k.ciphers) \subseteq ToSet(m.ciphers), ToSet(k.macs) \subseteq ToSet(m.macs),
         NEW f \in audit(k)
  PROVE  \/ f.severity = "Info"
         \/ \E g \in audit(m) : g.id = f.id /\ rank[g.severity] >= rank[f.severity]
         \/ f.id = "SSH-TERRAPIN" /\ ~strict_kex(k) /\ strict_kex(m)
<1> DEFINE Grows(id, list, more, T) ==
             \E g \in WeakList(id, more, T) : g.id = f.id /\ rank[g.severity] >= rank[f.severity]
           Stays == \E g \in Weaknesses(m) : g.id = f.id /\ rank[g.severity] >= rank[f.severity]
<1>1. Weaknesses(m) \subseteq audit(m)
  BY AuditIs
<1>2. WEAK_KEX \in Tables /\ WEAK_HOSTKEY \in Tables /\ WEAK_CIPHER \in Tables /\ WEAK_MAC \in Tables
  BY DEF Tables
<1>3. ASSUME NEW T \in Tables, NEW id, NEW list, NEW more, ToSet(list) \subseteq ToSet(more),
              f \in WeakList(id, list, T)
       PROVE  Grows(id, list, more, T)
  BY <1>3, WeakListGrows
<1>4. ASSUME f \in Weaknesses(m) PROVE Stays
  <2>1. rank[f.severity] \in Nat
    BY <1>4, WeaknessIs, RankNat
  <2> QED BY <1>4, <2>1
<1>5. CASE f \in WeakList("SSH-KEX-WEAK", k.kex, WEAK_KEX)
  <2>1. Grows("SSH-KEX-WEAK", k.kex, m.kex, WEAK_KEX)
    BY <1>2, <1>5, <1>3
  <2> QED BY <1>1, <2>1 DEF Weaknesses
<1>6. CASE f \in WeakList("SSH-HOSTKEY-WEAK", k.host_keys, WEAK_HOSTKEY)
  <2>1. Grows("SSH-HOSTKEY-WEAK", k.host_keys, m.host_keys, WEAK_HOSTKEY)
    BY <1>2, <1>6, <1>3
  <2> QED BY <1>1, <2>1 DEF Weaknesses
<1>7. CASE f \in WeakList("SSH-CIPHER-WEAK", k.ciphers, WEAK_CIPHER)
  <2>1. Grows("SSH-CIPHER-WEAK", k.ciphers, m.ciphers, WEAK_CIPHER)
    BY <1>2, <1>7, <1>3
  <2> QED BY <1>1, <2>1 DEF Weaknesses
<1>8. CASE f \in WeakList("SSH-MAC-WEAK", k.macs, WEAK_MAC)
  <2>1. Grows("SSH-MAC-WEAK", k.macs, m.macs, WEAK_MAC)
    BY <1>2, <1>8, <1>3
  <2> QED BY <1>1, <2>1 DEF Weaknesses
<1>9. CASE VersionOne(k.banner) /\ f = flag("SSH-PROTO-V1", "Critical")
  <2>1. f \in Weaknesses(m)
    BY <1>9 DEF Weaknesses
  <2> QED BY <1>1, <1>4, <2>1
<1>10. CASE (\E c \in ToSet(k.ciphers) : Cbc(c)) /\ f = flag("SSH-CIPHER-CBC", "Medium")
  <2>1. \E c \in ToSet(m.ciphers) : Cbc(c)
    BY <1>10
  <2>2. f \in Weaknesses(m)
    BY <1>10, <2>1 DEF Weaknesses
  <2> QED BY <1>1, <1>4, <2>2
<1>11. CASE Terrapin(k) /\ f = flag("SSH-TERRAPIN", "Medium")
  <2>1. CASE strict_kex(m)
    BY <1>11, <2>1 DEF Terrapin, flag
  <2>2. CASE ~strict_kex(m)
    <3>1. Terrapin(m)
      BY <1>11, <2>2 DEF Terrapin
    <3>2. f \in Weaknesses(m)
      BY <1>11, <3>1 DEF Weaknesses
    <3> QED BY <1>1, <1>4, <3>2
  <2> QED BY <2>1, <2>2
<1>12. CASE f \in Weaknesses(k)
  BY <1>5, <1>6, <1>7, <1>8, <1>9, <1>10, <1>11, <1>12 DEF Weaknesses
<1> QED BY <1>12, AuditIs

(* No server is reported better for offering one algorithm more, but for   *)
(* the marker that remedies Terrapin.                                      *)
THEOREM OfferMonotonic == PostureSpec => OfferingMoreNeverHelps
<1> DEFINE A == /\ report'.exit = report.exit
                /\ \A f \in report.findings :
                     \/ f.severity = "Info"
                     \/ \E g \in report'.findings : g.id = f.id /\ rank[g.severity] >= rank[f.severity]
                     \/ f.id = "SSH-TERRAPIN" /\ ~MarksStrict /\ MarksStrict'
<1>1. ASSUME PInv, NEW i \in DOMAIN Algorithms, NEW name \in Algorithms[i], Offer(i, name) PROVE A
  <2>1. ssh \in SshPeer /\ report = SshAudit(ssh) /\ report' = SshAudit(ssh')
    BY <1>1 DEF PInv, Audited, Offer
  <2>2. /\ ssh' \in SshPeer /\ ssh'.fate = ssh.fate /\ ssh'.server.banner = ssh.server.banner
        /\ ssh'.server.lists[i] = Append(ssh.server.lists[i], name)
        /\ \A j \in 1..7 : j # i => ssh'.server.lists[j] = ssh.server.lists[j]
    BY <1>1, <2>1, OfferStep
  <2>3. CASE ssh.fate.packet = "failed"
    <3>1. report = [exit |-> 2, findings |-> {}] /\ report' = [exit |-> 2, findings |-> {}]
      BY <2>1, <2>2, <2>3, HandshakeIs
    <3> QED BY <3>1
  <2>4. CASE ssh.fate.packet # "failed"
    <3> DEFINE k == Heard(ssh)
               m == Heard(ssh')
    <3>1. report = [exit |-> 0, findings |-> audit(k)] /\ report' = [exit |-> 0, findings |-> audit(m)]
      BY <2>1, <2>2, <2>4, HandshakeIs
    <3>2. KEX \in 1..7 /\ HOST_KEY \in 1..7 /\ CIPHER \in 1..7 /\ MAC \in 1..7
      BY DEF KEX, HOST_KEY, CIPHER, MAC
    <3>3. ASSUME NEW j \in 1..7
          PROVE  /\ ToSet(Read(ssh, j)) \subseteq ToSet(Read(ssh', j))
                 /\ \A e : Contains(Read(ssh, j), e) <=> e \in ToSet(Read(ssh, j))
                 /\ \A e : Contains(Read(ssh', j), e) <=> e \in ToSet(Read(ssh', j))
      <4>1. Read(ssh, j) \in Seq(STRING) /\ Read(ssh', j) \in Seq(STRING)
        BY <2>1, <2>2, ReadIs
      <4>2. Read(ssh', j) = Read(ssh, j) \/ Read(ssh', j) = Append(Read(ssh, j), name)
        BY <2>1, <2>2, ReadIs
      <4>3. name \in STRING
        BY PostureAssumption
      <4> QED BY <4>1, <4>2, <4>3, Members
    <3>4. /\ k.kex = Read(ssh, KEX) /\ k.host_keys = Read(ssh, HOST_KEY)
          /\ k.ciphers = Read(ssh, CIPHER) /\ k.macs = Read(ssh, MAC)
          /\ m.kex = Read(ssh', KEX) /\ m.host_keys = Read(ssh', HOST_KEY)
          /\ m.ciphers = Read(ssh', CIPHER) /\ m.macs = Read(ssh', MAC)
          /\ m.banner = k.banner
      BY <2>2 DEF Heard
    <3> HIDE DEF k, m
    <3>5. ASSUME NEW f \in audit(k)
          PROVE  \/ f.severity = "Info"
                 \/ \E g \in audit(m) : g.id = f.id /\ rank[g.severity] >= rank[f.severity]
                 \/ f.id = "SSH-TERRAPIN" /\ ~strict_kex(k) /\ strict_kex(m)
      BY <3>2, <3>3, <3>4, AuditGrows
    <3>6. ~strict_kex(k) /\ strict_kex(m) => ~MarksStrict /\ MarksStrict'
      <4> SUFFICES ASSUME ~strict_kex(k), strict_kex(m) PROVE ~MarksStrict /\ MarksStrict'
        OBVIOUS
      <4>1. ~Contains(Read(ssh, KEX), StrictKex) /\ Contains(Read(ssh', KEX), StrictKex)
        BY <3>4 DEF strict_kex
      <4>2. ~Contains(<<>>, StrictKex)
        BY DEF Contains
      <4>3. Read(ssh, KEX) = ssh.server.lists[KEX] /\ Read(ssh', KEX) = ssh'.server.lists[KEX]
        BY <2>1, <2>2, <3>2, <4>1, <4>2, ReadIs
      <4> QED BY <4>1, <4>3 DEF MarksStrict
    <3> QED BY <3>1, <3>5, <3>6
  <2> QED BY <2>3, <2>4
<1>2. ASSUME PInv, UNCHANGED report PROVE A
  <2>1. \A f \in report.findings : f.severity \in Severities
    <3>1. ssh \in SshPeer /\ report = SshAudit(ssh)
      BY <1>2 DEF PInv, Audited
    <3>2. report.findings = {} \/ report.findings = audit(Heard(ssh))
      BY <3>1, HandshakeIs
    <3> QED BY <3>2, AuditIs
  <2>2. \A f \in report.findings : rank[f.severity] >= rank[f.severity]
    BY <2>1, RankNat
  <2> QED BY <1>2, <2>2
<1>3. PInv /\ [PostureNext]_posture => [A]_posture
  BY <1>1, <1>2 DEF PostureNext, AllowSource, Strengthen, IncludeSubdomains
<1>4. PostureSpec => [][A]_posture
  BY <1>3, PostureInvariance, PTL DEF PostureSpec
<1> QED BY <1>4 DEF OfferingMoreNeverHelps
=============================================================================
