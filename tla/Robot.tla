------------------------------- MODULE Robot -------------------------------
(***************************************************************************)
(* vuln_robot::probe: five ClientKeyExchanges with differently padded      *)
(* premasters, each on a connection of its own, and a verdict from whether *)
(* the server reacts to all of them alike.  What goes wrong on a connection*)
(* is a response class like any other; the whole is under one timer.       *)
(***************************************************************************)
EXTENDS Naturals, Sequences, FiniteSets

CONSTANTS
  Servers,               \* the servers a probe may meet
  Deadlines,             \* --timeout-seconds
  MaxFaults              \* connections the network disturbs, at most

(* What is wrong with a padded premaster, as a server sees it: it looks at *)
(* the first two bytes, then for the zero byte that ends the padding.      *)
Malformations == {"none", "first_byte", "second_byte", "short_padding",
                  "premaster_length", "no_separator"}

(* External: how a server reacts to a bogus Finished after one of them.    *)
(* "slow": with an alert, about when the probe stops waiting.              *)
Reactions == {"bad_record_mac", "decrypt_error", "other_alert", "closed", "silent", "slow"}

ServerRecord == [rsa: BOOLEAN,                      \* RSA key exchange, RSA key
                 modulus: {n \in Nat : n >= 59},    \* bytes of the RSA modulus
                 reacts: [Malformations -> Reactions]]

ASSUME RobotAssumption ==
  /\ Servers \subseteq ServerRecord
  /\ Deadlines \subseteq Nat \ {0}
  /\ MaxFaults \in Nat

VARIABLES
  server, deadline,      \* the target and --timeout-seconds
  pc,                    \* "key", "observe" or "done"
  classes,               \* the response classes so far, by vector
  clock,                 \* seconds spent waiting, at least
  lost,                  \* connections disturbed: 0 for the key, or a vector
  verdict

vars == <<server, deadline, pc, classes, clock, lost, verdict>>

Vectors == 1..5

-----------------------------------------------------------------------------
(* build_malformed_cke_ciphertext, for a modulus of n bytes.  Byte i of the*)
(* padding is 0x42 xor 3i (mod 256): zero where the two are equal.  The    *)
(* separator is byte n - 49; vector 4 adds one at 8, vector 5 has none.    *)
PaddingByteIsZero(i) == (3 * i) % 256 = \h42

ZeroBytes(vector, n) ==
  {i \in 2..(n - 50) : PaddingByteIsZero(i)}
    \union (IF vector = 4 THEN {8} ELSE {})
    \union (IF vector = 5 THEN {} ELSE {n - 49})

Malformation(vector, n) ==
  LET zeros == ZeroBytes(vector, n)
      firstZero == CHOOSE i \in zeros : \A j \in zeros : i <= j IN
  IF vector = 2 THEN "first_byte"
  ELSE IF vector = 3 THEN "second_byte"
  ELSE IF zeros = {} THEN "no_separator"
  ELSE IF firstZero < 10 THEN "short_padding"
  ELSE IF firstZero < n - 49 THEN "premaster_length"
  ELSE "none"

(* The class of a reaction, and those a disturbed connection can yield.    *)
ClassesOf(reaction) ==
  CASE reaction = "closed" -> {"connection_closed"}
    [] reaction = "silent" -> {"timeout"}
    [] reaction = "slow"   -> {"timeout", "bad_record_mac"}
    [] OTHER               -> {reaction}
DisturbedClasses == {"timeout", "connection_closed", "alert_0"}
Classes == DisturbedClasses \union {"bad_record_mac", "decrypt_error", "other_alert"}

(* The malformation each vector has, by the size of the key.               *)
Sent == [n \in {s.modulus : s \in Servers} |-> [v \in Vectors |-> Malformation(v, n)]]

ReactionTo(vector) == server.reacts[Sent[server.modulus][vector]]

-----------------------------------------------------------------------------
Init ==
  /\ server \in Servers
  /\ deadline \in Deadlines
  /\ pc = "key"
  /\ classes = <<>>
  /\ clock = 0
  /\ lost = {}
  /\ verdict = "none"

(* Seconds after which the probe stops waiting for a reaction, and the     *)
(* timer of the whole probe.  A mutated form that waits longer.            *)
PatienceLong == 3
Patience == 2
Limit == IF deadline < 30 THEN deadline ELSE 30

Conclude(v) == verdict' = v /\ pc' = "done"

(* Connection c is used, the network disturbing it or not.                 *)
Connection(c, disturbed) ==
  /\ lost' = IF disturbed THEN lost \union {c} ELSE lost
  /\ Cardinality(lost') <= MaxFaults
  /\ UNCHANGED <<server, deadline>>

(* obtain_rsa_pubkey: no key, for whatever reason, and RSA key exchange is *)
(* taken to be absent.                                                     *)
ObtainKey(disturbed) ==
  /\ pc = "key"
  /\ Connection(0, disturbed)
  /\ IF server.rsa /\ ~disturbed
       THEN pc' = "observe" /\ UNCHANGED verdict
       ELSE Conclude("not_applicable")
  /\ UNCHANGED <<classes, clock>>

(* A wait that is not cut off, a mutated form.                             *)
ObserveUntimed(c, seconds) ==
  IF seconds > 0 /\ clock + seconds >= Limit
    THEN UNCHANGED <<classes, clock, pc, verdict>>
    ELSE /\ classes' = Append(classes, c)
         /\ clock' = clock + seconds
         /\ UNCHANGED <<pc, verdict>>

(* send_malformed_cke_and_observe: class c after `seconds` of waiting, if  *)
(* the timer of the whole probe leaves that much.                          *)
Observe(c, seconds) ==
  IF seconds > 0 /\ clock + seconds >= Limit
    THEN Conclude("indeterminate") /\ UNCHANGED <<classes, clock>>
    ELSE /\ classes' = Append(classes, c)
         /\ clock' = clock + seconds
         /\ UNCHANGED <<pc, verdict>>

Vector == Len(classes) + 1

ObserveServer ==
  /\ pc = "observe" /\ Vector \in Vectors
  /\ Connection(Vector, FALSE)
  /\ \E c \in ClassesOf(ReactionTo(Vector)) :
       Observe(c, IF ReactionTo(Vector) \in {"silent", "slow"} THEN Patience ELSE 0)

ObserveDisturbed ==
  /\ pc = "observe" /\ Vector \in Vectors
  /\ Connection(Vector, TRUE)
  /\ \E c \in DisturbedClasses, seconds \in {0, Patience} : Observe(c, seconds)

(* A connection hangs until the timer of the whole probe fires.            *)
Hang ==
  /\ \/ pc = "key" /\ Connection(0, TRUE)
     \/ pc = "observe" /\ Vector \in Vectors /\ Connection(Vector, TRUE)
  /\ Conclude("indeterminate")
  /\ UNCHANGED <<classes, clock>>

(* Verdicts from the last vector only, or from whether every class is the  *)
(* expected one: mutated forms.                                            *)
CompareLast(seen) ==
  IF seen[Len(seen)] = seen[1] THEN "not_vulnerable" ELSE "vulnerable"

CompareExpected(seen) ==
  IF \A v \in 1..Len(seen) : seen[v] = "bad_record_mac" THEN "not_vulnerable" ELSE "vulnerable"

(* More than one class, the control's differing from some other.           *)
Compare(seen) ==
  IF \E v \in 2..Len(seen) : seen[v] # seen[1] THEN "vulnerable" ELSE "not_vulnerable"

Judge ==
  /\ pc = "observe" /\ Len(classes) = 5
  /\ Conclude(Compare(classes))
  /\ UNCHANGED <<server, deadline, classes, clock, lost>>

Step ==
  \/ \E disturbed \in BOOLEAN : ObtainKey(disturbed)
  \/ ObserveServer
  \/ ObserveDisturbed
  \/ Hang
  \/ Judge

Terminated == pc = "done" /\ UNCHANGED vars

Next == Step \/ Terminated

(* Every await is under the timer of the whole probe.                      *)
Spec == Init /\ [][Next]_vars /\ WF_vars(Step)

-----------------------------------------------------------------------------
TypeOK ==
  /\ server \in Servers
  /\ deadline \in Deadlines
  /\ pc \in {"key", "observe", "done"}
  /\ classes \in Seq(Classes)
  /\ Len(classes) <= 5
  /\ clock \in Nat
  /\ lost \in SUBSET (0..5)
  /\ verdict \in {"none", "not_applicable", "indeterminate", "vulnerable", "not_vulnerable"}

(* What can be observed of the server on an undisturbed connection.        *)
Shown(vector) == ClassesOf(ReactionTo(vector))

(* The server reacts differently to two of the five vectors.               *)
Leaks == \E v, w \in Vectors : Shown(v) # Shown(w)

(* A server is only called vulnerable if it is, or a connection was        *)
(* disturbed, or its reaction and the end of the wait raced each other.    *)
Raced == \E v \in Vectors : ReactionTo(v) = "slow"
VulnerableHasCause ==
  verdict = "vulnerable" => Leaks \/ Raced \/ lost \intersect Vectors # {}

(* A server is only cleared if it can have shown one class on every        *)
(* connection that was not disturbed: whatever the losses look like, they  *)
(* hide a leak only by falling on every vector that shows it.              *)
ClearedHasCause ==
  verdict = "not_vulnerable" =>
    \E c \in Classes : \A v \in Vectors : c \in Shown(v) \/ v \in lost

(* No server makes the probe run out of time by its own doing, unless the  *)
(* timeout is 10 seconds or less: indeterminate is reported as vulnerable, *)
(* and 15 (bulk) and 30 are the defaults.                                  *)
TimersFit ==
  verdict = "indeterminate" => lost # {} \/ deadline <= 10

(* The probe, whole, is what Scan takes it to be in one step.              *)
P == INSTANCE Probes
AsServer ==
  [suites |-> IF server.rsa THEN P!RobotOffer ELSE {},
   cert |-> [keyAlg |-> "rsaEncryption"],
   flaws |-> IF Leaks THEN {"robot"} ELSE {}]
AsScanAssumes ==
  pc = "done" =>
    verdict \in P!RobotVerdicts(AsServer, lost # {} \/ Raced \/ deadline <= 10)

(* Every probe ends.                                                       *)
ProbeEnds == <>(pc = "done")

(* "V1 (control): 0x00 0x02 [PS] 0x00 [TLS-version] [random 46]", with PS  *)
(* filled "with non-zero": a server that reacts in one way to a correct    *)
(* premaster and in another to everything else is found out.  Broken: byte *)
(* 22 of the padding is zero, and no vector carries a correct premaster.   *)
ClassicOracle ==
  /\ server.rsa
  /\ \A m \in Malformations \ {"none"} : server.reacts[m] = "bad_record_mac"
  /\ server.reacts["none"] = "other_alert"
ClassicOracleFound ==
  pc = "done" /\ ClassicOracle /\ lost = {} => verdict = "vulnerable"
=============================================================================
