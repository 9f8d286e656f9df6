----------------------------- MODULE GradeAudit -----------------------------
(***************************************************************************)
(* grade::compute and summary::compute on inputs of every kind: the same   *)
(* target graded again and again while findings are added, one at a time,  *)
(* to an otherwise unchanged report.                                       *)
(***************************************************************************)
EXTENDS Grade

CONSTANTS
  Protos,                \* protocols and suites of the targets considered
  GradedCerts,           \* their certificates, NoCert among them
  Buckets,               \* forward secrecy buckets, or "uncomputed"
  Ids,                   \* finding IDs that are added
  MaxFindings            \* findings on a report, at most

ASSUME AuditAssumption ==
  /\ MaxFindings \in Nat
  /\ \A p \in Protos : IsProto(p)
  /\ \A c \in GradedCerts : IsCert(c)

VARIABLES
  proto, cert, hsts, fs, \* what grade::compute is given, with
  findings               \* the findings

inputs == <<proto, cert, hsts, fs>>
vars == <<inputs, findings>>

Init ==
  /\ proto \in Protos
  /\ cert \in GradedCerts
  /\ hsts \in BOOLEAN
  /\ fs \in Buckets
  /\ findings = {}

Add(id) ==
  /\ Cardinality(findings) < MaxFindings
  /\ findings' = findings \union {id}
  /\ UNCHANGED inputs

Next == \E id \in Ids : Add(id)

Spec == Init /\ [][Next]_vars

-----------------------------------------------------------------------------
LetterNow == Letter(proto, cert, hsts, findings, fs)
ScoreNow  == Score(proto, cert, findings)
PassedNow == Passed(LetterNow, findings)

(* From worst to best; T stands above F because a named breach, which makes*)
(* F of T, is the worse news.                                              *)
Rank(letter) ==
  CASE letter = "F" -> 0
    [] letter = "T" -> 1
    [] letter = "E" -> 2
    [] letter = "D" -> 3
    [] letter = "C" -> 4
    [] letter = "B" -> 5
    [] letter = "A" -> 6
    [] letter = "A+" -> 7

(* One more finding never helps: not the score, not the letter, and a      *)
(* target that fails does not pass because more is wrong with it.          *)
MoreFindingsNeverHelp ==
  [][/\ ScoreNow' <= ScoreNow
     /\ Rank(LetterNow') <= Rank(LetterNow)
     /\ PassedNow' => PassedNow]_vars

(* The composite is a weighted mean, but what passes is sound in each of   *)
(* its three dimensions, and its chain is trusted: a perfect score in two  *)
(* of them does not carry a broken third one over the line.                *)
PassIsSoundThroughout ==
  PassedNow =>
    /\ cert.mozillaTrusted
    /\ ProtocolScore(proto) >= 70
    /\ KeyExchangeScore(cert, findings) >= 80
    /\ CipherScore(proto.suites, findings) >= 74
=============================================================================
