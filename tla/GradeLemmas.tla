---------------------------- MODULE GradeLemmas ----------------------------
(***************************************************************************)
(* Facts about grade::compute and summary::compute that hold for every     *)
(* protocol record, certificate and set of findings.                       *)
(***************************************************************************)
EXTENDS Grade, TLAPS

(* The values the scores of single suites take.                            *)
Points == {0, 40, 60, 80, 95, 100}

(* Each suite scores one of these values.                                  *)
LEMMA SuitePoints ==
  ASSUME NEW s \in TLS12_SUITES \union TLS13_SUITES
  PROVE  SuiteScore(s) \in Points
  BY DEF SuiteScore, Points

(* A non-empty set of them has a greatest and a least element.             *)
LEMMA Extremes ==
  ASSUME NEW S, S \subseteq Points, S # {}
  PROVE  /\ \E m \in S : \A n \in S : n <= m
         /\ \E m \in S : \A n \in S : m <= n
<1>1. \E m \in S : \A n \in S : n <= m
  <2>1. CASE 100 \in S
    BY <2>1 DEF Points
  <2>2. CASE 100 \notin S /\ 95 \in S
    BY <2>2 DEF Points
  <2>3. CASE 100 \notin S /\ 95 \notin S /\ 80 \in S
    BY <2>3 DEF Points
  <2>4. CASE 100 \notin S /\ 95 \notin S /\ 80 \notin S /\ 60 \in S
    BY <2>4 DEF Points
  <2>5. CASE 100 \notin S /\ 95 \notin S /\ 80 \notin S /\ 60 \notin S /\ 40 \in S
    BY <2>5 DEF Points
  <2>6. CASE \A n \in S : n = 0
    BY <2>6
  <2> QED BY <2>1, <2>2, <2>3, <2>4, <2>5, <2>6 DEF Points
<1>2. \E m \in S : \A n \in S : m <= n
  <2>1. CASE 0 \in S
    BY <2>1 DEF Points
  <2>2. CASE 0 \notin S /\ 40 \in S
    BY <2>2 DEF Points
  <2>3. CASE 0 \notin S /\ 40 \notin S /\ 60 \in S
    BY <2>3 DEF Points
  <2>4. CASE 0 \notin S /\ 40 \notin S /\ 60 \notin S /\ 80 \in S
    BY <2>4 DEF Points
  <2>5. CASE 0 \notin S /\ 40 \notin S /\ 60 \notin S /\ 80 \notin S /\ 95 \in S
    BY <2>5 DEF Points
  <2>6. CASE \A n \in S : n = 100
    BY <2>6
  <2> QED BY <2>1, <2>2, <2>3, <2>4, <2>5, <2>6 DEF Points
<1> QED BY <1>1, <1>2

(* The score of a set of suites is a percentage.                           *)
LEMMA SuitesPercentage ==
  ASSUME NEW suites, suites \subseteq TLS12_SUITES \union TLS13_SUITES
  PROVE  SuitesScore(suites) \in 0..100
<1> DEFINE scores    == {SuiteScore(s) : s \in suites}
           strongest == CHOOSE m \in scores : \A n \in scores : n <= m
           weakest   == CHOOSE m \in scores : \A n \in scores : m <= n
<1>1. CASE suites = {}
  BY <1>1 DEF SuitesScore
<1>2. CASE suites # {}
  <2>1. scores \subseteq Points /\ scores # {}
    BY <1>2, SuitePoints
  <2>2. strongest \in scores /\ weakest \in scores
    <3> HIDE DEF scores
    <3> QED BY <2>1, Extremes
  <2>3. strongest \in 0..100 /\ weakest \in 0..100
    <3> HIDE DEF strongest, weakest, scores
    <3> QED BY <2>1, <2>2 DEF Points
  <2>4. (strongest + weakest) \div 2 \in 0..100
    <3> HIDE DEF strongest, weakest
    <3> QED BY <2>3
  <2> QED BY <1>2, <2>4 DEF SuitesScore
<1> QED BY <1>1, <1>2

(* So is the cipher score, ceilings included.                              *)
LEMMA CipherPercentage ==
  ASSUME NEW suites, suites \subseteq TLS12_SUITES \union TLS13_SUITES, NEW F
  PROVE  CipherScore(suites, F) \in 0..100
<1> DEFINE c == SuitesScore(suites)
<1>1. c \in 0..100
  BY SuitesPercentage
<1> HIDE DEF c
<1> QED BY <1>1 DEF CipherScore, lesser, c

(* The values of the other two scores.                                     *)
LEMMA ProtocolPoints ==
  ASSUME NEW p, IsProto(p)
  PROVE  ProtocolScore(p) \in {0, 50, 70, 80, 95, 100}
  BY DEF ProtocolScore, IsProto, lesser

(* The key exchange score takes one of nine values.                        *)
LEMMA KeyPoints ==
  ASSUME NEW c, IsCert(c), NEW F
  PROVE  /\ KeyExchangeScore(c, F) \in {0, 20, 40, 50, 60, 80, 90, 95, 100}
         /\ c.keyAlg = "none" => KeyExchangeScore(c, F) = 0
<1>1. KeyScore(c) \in {0, 20, 50, 60, 80, 90, 95, 100}
  BY DEF KeyScore, IsCert
<1>2. c.keyAlg = "none" => KeyScore(c) = 0
  BY DEF KeyScore
<1> QED BY <1>1, <1>2 DEF KeyExchangeScore, lesser

(* What a composite of 90 asks of each score: with the weights 30, 30, 40  *)
(* the other two cannot make up for less.                                  *)
LEMMA CompositeOf90 ==
  ASSUME NEW p \in {0, 50, 70, 80, 95, 100},
         NEW k \in {0, 20, 40, 50, 60, 80, 90, 95, 100},
         NEW c \in 0..100,
         Composite(p, k, c) >= 90
  PROVE  p >= 70 /\ k >= 80 /\ c >= 74
<1>1. 3 * p + 3 * k + 4 * c + 5 >= 900
  BY DEF Composite
<1> QED BY <1>1

(* Every finding that explains a rejected chain is a hard fail.            *)
LEMMA ExplainedIsHardFail == TrustExplained \subseteq HardFails
  BY DEF TrustExplained, HardFails

(* What a passing letter says of the inputs, whoever computes it.          *)
LEMMA PassingLetter ==
  ASSUME NEW p, IsProto(p), NEW c, IsCert(c), NEW h, NEW F, NEW fsb,
         Passed(Letter(p, c, h, F, fsb), F)
  PROVE  /\ c.mozillaTrusted
         /\ ProtocolScore(p) >= 70
         /\ KeyExchangeScore(c, F) >= 80
         /\ CipherScore(p.suites, F) >= 74
<1> DEFINE ps == ProtocolScore(p)
           ks == KeyExchangeScore(c, F)
           cs == CipherScore(p.suites, F)
           sc == Score(p, c, F)
<1>1. ps \in {0, 50, 70, 80, 95, 100} /\ cs \in 0..100
      /\ ks \in {0, 20, 40, 50, 60, 80, 90, 95, 100}
  BY ProtocolPoints, KeyPoints, CipherPercentage DEF IsProto
<1>2. Composite(ps, ks, cs) \in Nat
  <2> HIDE DEF ps, ks, cs
  <2> QED BY <1>1 DEF Composite
<1>3. Letter(p, c, h, F, fsb) \in {"A+", "A"}
  <2>1. Letter(p, c, h, F, fsb) \in {"A+", "A", "B", "C", "D", "E", "F", "T"}
    <3> HIDE DEF sc
    <3> QED BY DEF Letter, Lifted, letter_for_score, sc
  <2> QED BY <2>1 DEF Passed
<1>4. sc >= 90 /\ ~Distrusted(c, F)
  <2> HIDE DEF sc
  <2>1. letter_for_score(sc) = "A"
    BY <1>3 DEF Letter, Lifted, letter_for_score, sc
  <2>2. sc >= 90
    BY <2>1 DEF letter_for_score
  <2>3. ~Distrusted(c, F)
    BY <1>3, <2>1 DEF Letter, Lifted, sc
  <2> QED BY <2>2, <2>3
<1>5. ~HardFail(F) /\ Composite(ps, ks, cs) >= 90
  <2> HIDE DEF ps, ks, cs
  <2>1. ~HardFail(F)
    BY <1>4 DEF Score
  <2> QED BY <1>2, <1>4, <2>1 DEF Score, lesser, ps, ks, cs
<1>6. ps >= 70 /\ ks >= 80 /\ cs >= 74
  <2> HIDE DEF ps, ks, cs
  <2> QED BY <1>1, <1>5, CompositeOf90
<1>7. c.keyAlg # "none"
  BY <1>6, KeyPoints
<1>8. F \intersect TrustExplained = {}
  BY <1>5, ExplainedIsHardFail DEF HardFail
<1>9. c.mozillaTrusted
  BY <1>4, <1>5, <1>7, <1>8 DEF Distrusted, IsCert
<1> QED BY <1>6, <1>9

(* Letter and score are what the report says they are.                     *)
LEMMA LetterRange ==
  ASSUME NEW p, NEW c, NEW h, NEW F, NEW fsb
  PROVE  Letter(p, c, h, F, fsb) \in {"A+", "A", "B", "C", "D", "E", "F", "T"}
<1> DEFINE sc == Score(p, c, F)
<1> HIDE DEF sc
<1> QED BY DEF Letter, Lifted, letter_for_score, sc

(* The composite score of a report is a percentage.                        *)
LEMMA ScorePercentage ==
  ASSUME NEW p, IsProto(p), NEW c, IsCert(c), NEW F
  PROVE  Score(p, c, F) \in 0..100
<1> DEFINE ps == ProtocolScore(p)
           ks == KeyExchangeScore(c, F)
           cs == CipherScore(p.suites, F)
<1>1. ps \in 0..100 /\ ks \in 0..100 /\ cs \in 0..100
  BY ProtocolPoints, KeyPoints, CipherPercentage DEF IsProto
<1>2. Composite(ps, ks, cs) \in 0..100
  <2> HIDE DEF ps, ks, cs
  <2> QED BY <1>1 DEF Composite
<1> HIDE DEF ps, ks, cs
<1> QED BY <1>2 DEF Score, lesser, ps, ks, cs
=============================================================================
