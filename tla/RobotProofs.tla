----------------------------- MODULE RobotProofs -----------------------------
(***************************************************************************)
(* What the verdicts of Robot.tla can be relied on for, for every server,  *)
(* every timeout and every number of disturbed connections.                *)
(***************************************************************************)
EXTENDS Robot, TLAPS

(* Each class so far is one the server shows, or its connection was lost.  *)
Observed ==
  \A v \in 1..Len(classes) : classes[v] \in Shown(v) \/ v \in lost

(* Undisturbed, the probe waits at most two seconds a vector.              *)
Waited == lost = {} => clock <= 2 * Len(classes)

(* Verdicts come with what they were drawn from.                           *)
Grounds ==
  /\ pc = "done" <=> verdict # "none"
  /\ pc = "key" => Len(classes) = 0
  /\ verdict = "not_applicable" => ~server.rsa \/ lost # {}
  /\ verdict \in {"vulnerable", "not_vulnerable"} =>
       Len(classes) = 5 /\ verdict = Compare(classes)
  /\ pc = "observe" \/ verdict \in {"vulnerable", "not_vulnerable"} => server.rsa

(* The inductive invariant.                                                *)
IInv ==
  /\ TypeOK
  /\ Observed
  /\ Waited
  /\ Grounds
  /\ TimersFit

(* Every reaction is one of the classified ones.                           *)
LEMMA ReactionType ==
  TypeOK => \A v \in Vectors : ReactionTo(v) \in Reactions
<1> SUFFICES ASSUME TypeOK, NEW v \in Vectors PROVE ReactionTo(v) \in Reactions
  OBVIOUS
<1>1. server \in ServerRecord /\ server.modulus \in {s.modulus : s \in Servers}
  BY RobotAssumption DEF TypeOK
<1>2. Sent[server.modulus][v] = Malformation(v, server.modulus)
  BY <1>1 DEF Sent
<1>3. Malformation(v, server.modulus) \in Malformations
  BY DEF Malformation, Malformations
<1> QED BY <1>1, <1>2, <1>3 DEF ReactionTo, ServerRecord

(* Each reaction has a class, and all of them are known.                   *)
LEMMA ShownType ==
  TypeOK => \A v \in Vectors : Shown(v) \subseteq Classes /\ Shown(v) # {}
<1> SUFFICES ASSUME TypeOK, NEW v \in Vectors PROVE Shown(v) \subseteq Classes /\ Shown(v) # {}
  OBVIOUS
<1>1. ReactionTo(v) \in Reactions
  BY ReactionType
<1> QED BY <1>1 DEF Shown, ClassesOf, Reactions, Classes, DisturbedClasses

(* The timer of the whole probe.                                           *)
LEMMA LimitType == TypeOK => Limit \in Nat /\ (deadline > 10 => Limit > 10)
  BY RobotAssumption DEF TypeOK, Limit

(* The first states satisfy the invariant.                                 *)
LEMMA InitIInv == Init => IInv
<1> SUFFICES ASSUME Init PROVE IInv
  OBVIOUS
<1>1. TypeOK
  BY DEF Init, TypeOK, Classes
<1> QED BY <1>1 DEF Init, IInv, Observed, Waited, Grounds, TimersFit

(* What Observe does with a class.                                         *)
LEMMA ObserveKeeps ==
  ASSUME IInv, pc = "observe", Vector \in Vectors, server' = server, deadline' = deadline,
         NEW c \in Classes, NEW seconds \in {0, 2}, Observe(c, seconds),
         lost' \in SUBSET (0..5), lost \subseteq lost',
         c \in Shown(Vector) \/ Vector \in lost'
  PROVE  IInv'
<1> USE DEF IInv
<1>0. classes \in Seq(Classes) /\ Len(classes) \in Nat /\ clock \in Nat
  BY DEF TypeOK
<1>1. Len(classes) <= 4 /\ Vector = Len(classes) + 1
  <2>1. PICK k \in Nat : k = Len(classes)
    BY <1>0
  <2>2. k + 1 \in 1..5 /\ Vector = k + 1
    BY <2>1 DEF Vector, Vectors
  <2> QED BY <2>1, <2>2
<1>2. \A v \in Vectors : Shown(v)' = Shown(v)
  BY DEF Shown, ClassesOf, ReactionTo
<1>3. CASE seconds > 0 /\ clock + seconds >= Limit
  <2>1. verdict' = "indeterminate" /\ pc' = "done" /\ UNCHANGED <<classes, clock>>
    BY <1>3 DEF Observe, Conclude
  <2>2. TypeOK'
    BY <2>1 DEF TypeOK
  <2>3. Observed'
    BY <2>1, <1>2, <1>1 DEF Observed, Vectors
  <2>4. Waited'
    BY <2>1 DEF Waited
  <2>5. Grounds'
    BY <2>1 DEF Grounds
  <2>6. TimersFit'
    <3> SUFFICES ASSUME lost' = {} PROVE deadline' <= 10
      BY <2>1 DEF TimersFit
    <3>1. clock <= 2 * Len(classes)
      BY DEF Waited
    <3>2. Limit \in Nat /\ deadline \in Nat /\ (deadline > 10 => Limit > 10)
      BY LimitType, RobotAssumption DEF TypeOK
    <3>3. Limit <= 10
      BY <1>0, <1>1, <1>3, <3>1, <3>2
    <3> QED BY <2>1, <3>2, <3>3
  <2> QED BY <2>2, <2>3, <2>4, <2>5, <2>6
<1>4. CASE ~(seconds > 0 /\ clock + seconds >= Limit)
  <2>1. classes' = Append(classes, c) /\ clock' = clock + seconds /\ UNCHANGED <<pc, verdict>>
    BY <1>4 DEF Observe
  <2>2. classes' \in Seq(Classes) /\ Len(classes') = Len(classes) + 1 /\ Len(classes') <= 5
    BY <2>1, <1>1 DEF TypeOK
  <2>3. TypeOK'
    BY <2>1, <2>2 DEF TypeOK
  <2>4. Observed'
    <3> SUFFICES ASSUME NEW v \in 1..Len(classes')
                 PROVE  classes'[v] \in Shown(v)' \/ v \in lost'
      BY DEF Observed
    <3>1. v \in Vectors
      BY <1>1, <2>2 DEF Vectors
    <3>2. CASE v = Len(classes) + 1
      <4>1. classes'[v] = c
        BY <2>1, <3>2 DEF TypeOK
      <4> QED BY <4>1, <3>1, <3>2, <1>1, <1>2
    <3>3. CASE v # Len(classes) + 1
      <4>1. v \in 1..Len(classes)
        BY <3>3, <2>2, <1>1
      <4>2. classes'[v] = classes[v]
        BY <2>1, <4>1 DEF TypeOK
      <4> QED BY <4>1, <4>2, <3>1, <1>2 DEF Observed
    <3> QED BY <3>2, <3>3
  <2>5. Waited'
    BY <2>1, <2>2, <1>1 DEF Waited, TypeOK
  <2>6. Grounds'
    BY <2>1, <2>2 DEF Grounds
  <2>7. TimersFit'
    BY <2>1 DEF TimersFit, Grounds
  <2> QED BY <2>3, <2>4, <2>5, <2>6, <2>7
<1> QED BY <1>3, <1>4

(* Every step preserves the invariant.                                     *)
LEMMA NextIInv == IInv /\ [Next]_vars => IInv'
<1> SUFFICES ASSUME IInv, [Next]_vars PROVE IInv'
  OBVIOUS
<1> USE DEF IInv
<1>1. ASSUME NEW disturbed \in BOOLEAN, ObtainKey(disturbed) PROVE IInv'
  <2>1. /\ pc = "key" /\ UNCHANGED <<server, deadline, classes, clock>>
        /\ lost' = IF disturbed THEN lost \union {0} ELSE lost
    BY <1>1 DEF ObtainKey, Connection
  <2>2. \A v \in Vectors : Shown(v)' = Shown(v)
    BY <2>1 DEF Shown, ClassesOf, ReactionTo
  <2>3. CASE server.rsa /\ ~disturbed
    <3>1. pc' = "observe" /\ verdict' = verdict
      BY <1>1, <2>3 DEF ObtainKey
    <3>2. TypeOK'
      BY <2>1, <3>1 DEF TypeOK
    <3> QED BY <2>1, <2>2, <2>3, <3>1, <3>2 DEF Observed, Waited, Grounds, TimersFit, Vectors, TypeOK
  <2>4. CASE ~(server.rsa /\ ~disturbed)
    <3>1. pc' = "done" /\ verdict' = "not_applicable"
      BY <1>1, <2>4 DEF ObtainKey, Conclude
    <3>2. TypeOK'
      BY <2>1, <3>1 DEF TypeOK
    <3>3. Observed' /\ Waited'
      BY <2>1, <2>2 DEF Observed, Waited, Grounds, TypeOK
    <3>4. Grounds' /\ TimersFit'
      BY <2>1, <2>4, <3>1 DEF Grounds, TimersFit
    <3> QED BY <3>2, <3>3, <3>4
  <2> QED BY <2>3, <2>4
<1>2. CASE ObserveServer
  <2>1. /\ pc = "observe" /\ Vector \in Vectors
        /\ server' = server /\ deadline' = deadline /\ lost' = lost
    BY <1>2 DEF ObserveServer, Connection
  <2>2. PICK c \in ClassesOf(ReactionTo(Vector)) :
          Observe(c, IF ReactionTo(Vector) \in {"silent", "slow"} THEN Patience ELSE 0)
    BY <1>2 DEF ObserveServer
  <2>3. c \in Shown(Vector) /\ c \in Classes
    BY <2>1, <2>2, ShownType DEF Shown
  <2>4. (IF ReactionTo(Vector) \in {"silent", "slow"} THEN Patience ELSE 0) \in {0, 2}
    BY DEF Patience
  <2> HIDE DEF IInv
  <2> QED BY <2>1, <2>2, <2>3, <2>4, ObserveKeeps DEF IInv, TypeOK
<1>3. CASE ObserveDisturbed
  <2>1. /\ pc = "observe" /\ Vector \in Vectors
        /\ server' = server /\ deadline' = deadline /\ lost' = lost \union {Vector}
    BY <1>3 DEF ObserveDisturbed, Connection
  <2>2. PICK c \in DisturbedClasses, seconds \in {0, Patience} : Observe(c, seconds)
    BY <1>3 DEF ObserveDisturbed
  <2>3. c \in Classes /\ seconds \in {0, 2}
    BY <2>2 DEF Classes, Patience
  <2>4. lost' \in SUBSET (0..5)
    BY <2>1 DEF TypeOK, Vectors
  <2> QED BY <2>1, <2>2, <2>3, <2>4, ObserveKeeps
<1>4. CASE Hang
  <2>1. /\ UNCHANGED <<server, deadline, classes, clock>>
        /\ pc' = "done" /\ verdict' = "indeterminate"
        /\ lost' = lost \union {0} \/ (lost' = lost \union {Vector} /\ Vector \in Vectors)
    BY <1>4 DEF Hang, Connection, Conclude
  <2>2. \A v \in Vectors : Shown(v)' = Shown(v)
    BY <2>1 DEF Shown, ClassesOf, ReactionTo
  <2>3. TypeOK'
    <3>1. 0 \in 0..5 /\ Vectors \subseteq 0..5 /\ lost \subseteq 0..5
      BY DEF TypeOK, Vectors
    <3>2. lost' \in SUBSET (0..5)
      BY <2>1, <3>1
    <3> QED BY <2>1, <3>2 DEF TypeOK
  <2>4. Observed'
    BY <2>1, <2>2 DEF Observed, TypeOK, Vectors
  <2> QED BY <2>1, <2>3, <2>4 DEF Waited, Grounds, TimersFit
<1>5. CASE Judge
  <2>1. /\ pc = "observe" /\ Len(classes) = 5
        /\ UNCHANGED <<server, deadline, classes, clock, lost>>
        /\ pc' = "done" /\ verdict' = Compare(classes)
    BY <1>5 DEF Judge, Conclude
  <2>2. \A v \in Vectors : Shown(v)' = Shown(v)
    BY <2>1 DEF Shown, ClassesOf, ReactionTo
  <2>3. Compare(classes) \in {"vulnerable", "not_vulnerable"}
    BY DEF Compare
  <2>4. Compare(classes)' = Compare(classes)
    BY <2>1
  <2>5. TypeOK'
    BY <2>1, <2>3 DEF TypeOK
  <2>6. Observed'
    BY <2>1, <2>2 DEF Observed, Vectors
  <2>7. Grounds'
    BY <2>1, <2>3, <2>4 DEF Grounds
  <2> QED BY <2>1, <2>3, <2>5, <2>6, <2>7 DEF Waited, TimersFit
<1>6. CASE UNCHANGED vars
  <2>1. \A v \in Vectors : Shown(v)' = Shown(v)
    BY <1>6 DEF vars, Shown, ClassesOf, ReactionTo
  <2>2. Compare(classes)' = Compare(classes)
    BY <1>6 DEF vars
  <2> QED BY <1>6, <2>1, <2>2 DEF vars, TypeOK, Observed, Waited, Grounds, TimersFit, Vectors
<1> QED BY <1>1, <1>2, <1>3, <1>4, <1>5, <1>6 DEF Next, Step, Terminated

(* The invariant holds throughout every probe.                             *)
LEMMA Invariance == Spec => []IInv
  BY InitIInv, NextIInv, PTL DEF Spec

-----------------------------------------------------------------------------
(* The state of a probe keeps its type.                                    *)
THEOREM TypeCorrect == Spec => []TypeOK
<1>1. IInv => TypeOK
  BY DEF IInv
<1> QED BY <1>1, Invariance, PTL

(* If no two of five classes differ, the verdict clears; else it does not. *)
LEMMA CompareFacts ==
  /\ Compare(classes) = "not_vulnerable" =>
       \A v \in 2..Len(classes) : classes[v] = classes[1]
  /\ Compare(classes) = "vulnerable" =>
       \E v \in 2..Len(classes) : classes[v] # classes[1]
  BY DEF Compare

(* Without a race each vector shows one class.                             *)
LEMMA OneClass ==
  ASSUME TypeOK, ~Raced, NEW v \in Vectors
  PROVE  \A a, b \in Shown(v) : a = b
<1>1. ReactionTo(v) \in Reactions \ {"slow"}
  BY ReactionType DEF Raced
<1> QED BY <1>1 DEF Shown, ClassesOf, Reactions

(* The invariant explains every verdict of vulnerability.                  *)
LEMMA Convicts == IInv => VulnerableHasCause
<1> SUFFICES ASSUME IInv, verdict = "vulnerable", ~Leaks, ~Raced,
                    lost \intersect Vectors = {}
             PROVE  FALSE
  BY DEF VulnerableHasCause
<1>1. TypeOK /\ Observed /\ Len(classes) = 5 /\ Compare(classes) = "vulnerable"
  BY DEF IInv, Grounds
<1>2. PICK v \in 2..5 : classes[v] # classes[1]
  BY <1>1, CompareFacts
<1>3. v \in Vectors /\ 1 \in Vectors
  BY DEF Vectors
<1>4. classes[v] \in Shown(v) /\ classes[1] \in Shown(1)
  BY <1>1, <1>3 DEF Observed, Vectors
<1>5. Shown(v) = Shown(1)
  BY <1>3 DEF Leaks
<1> QED BY <1>1, <1>2, <1>3, <1>4, <1>5, OneClass

(* The invariant explains every acquittal.                                 *)
LEMMA Acquits == IInv => ClearedHasCause
<1> SUFFICES ASSUME IInv, verdict = "not_vulnerable"
             PROVE  \E c \in Classes : \A v \in Vectors : c \in Shown(v) \/ v \in lost
  BY DEF ClearedHasCause
<1>1. TypeOK /\ Observed /\ Len(classes) = 5 /\ Compare(classes) = "not_vulnerable"
  BY DEF IInv, Grounds
<1>2. classes[1] \in Classes
  BY <1>1 DEF TypeOK
<1>3. ASSUME NEW v \in Vectors PROVE classes[1] \in Shown(v) \/ v \in lost
  <2>1. classes[v] = classes[1]
    BY <1>1, CompareFacts DEF Vectors
  <2> QED BY <1>1, <2>1 DEF Observed, Vectors
<1> QED BY <1>2, <1>3

(* A server called vulnerable is, or the network or a race interfered.     *)
THEOREM VulnerableSound == Spec => []VulnerableHasCause
  BY Convicts, Invariance, PTL

(* A server is cleared only if what was not lost looks the same throughout.*)
THEOREM ClearedSound == Spec => []ClearedHasCause
  BY Acquits, Invariance, PTL

(* An undisturbed probe with more than ten seconds never runs out of time. *)
THEOREM TimeSuffices == Spec => []TimersFit
<1>1. IInv => TimersFit
  BY DEF IInv
<1> QED BY <1>1, Invariance, PTL

(* The atomic ROBOT step of Scan covers every probe of this module.        *)
THEOREM ScanStepCovers == Spec => []AsScanAssumes
<1>1. IInv => AsScanAssumes
  <2> DEFINE disturbed == lost # {} \/ Raced \/ deadline <= 10
  <2> SUFFICES ASSUME IInv, pc = "done"
               PROVE  verdict \in P!RobotVerdicts(AsServer, disturbed)
    BY DEF AsScanAssumes
  <2>1. TypeOK /\ Grounds /\ TimersFit
    BY DEF IInv
  <2>2. verdict \in {"not_applicable", "indeterminate", "vulnerable", "not_vulnerable"}
    BY <2>1 DEF TypeOK, Grounds
  <2>3. server.rsa <=> P!Answers(AsServer, P!RobotOffer)
    BY <2>1, RobotAssumption DEF AsServer, P!Answers, P!RobotOffer, TypeOK, ServerRecord
  <2>4. AsServer.cert.keyAlg = "rsaEncryption" /\ ("robot" \in AsServer.flaws <=> Leaks)
    BY DEF AsServer
  <2>5. verdict = "vulnerable" => Leaks \/ disturbed
    BY Convicts DEF VulnerableHasCause
  <2>6. verdict = "not_vulnerable" => ~Leaks \/ disturbed
    <3> SUFFICES ASSUME verdict = "not_vulnerable", lost = {}, ~Raced PROVE ~Leaks
      OBVIOUS
    <3>1. PICK c \in Classes : \A v \in Vectors : c \in Shown(v)
      BY Acquits DEF ClearedHasCause
    <3>2. ASSUME NEW v \in Vectors PROVE Shown(v) = {c}
      BY <2>1, <3>1, OneClass
    <3> QED BY <3>2 DEF Leaks
  <2>7. verdict = "indeterminate" => disturbed
    BY <2>1 DEF TimersFit
  <2>8. verdict = "not_applicable" => ~server.rsa \/ disturbed
    BY <2>1 DEF Grounds
  <2>9. verdict \in {"vulnerable", "not_vulnerable"} => server.rsa
    BY <2>1 DEF Grounds
  <2> HIDE DEF disturbed
  <2>10. CASE server.rsa /\ disturbed
    BY <2>2, <2>3, <2>4, <2>10 DEF P!RobotVerdicts
  <2>11. CASE server.rsa /\ ~disturbed
    BY <2>2, <2>3, <2>4, <2>5, <2>6, <2>7, <2>8, <2>11 DEF P!RobotVerdicts
  <2>12. CASE ~server.rsa
    BY <2>2, <2>3, <2>7, <2>9, <2>12 DEF P!RobotVerdicts
  <2> QED BY <2>10, <2>11, <2>12
<1> QED BY <1>1, Invariance, PTL
=============================================================================
