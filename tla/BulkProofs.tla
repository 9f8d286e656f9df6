----------------------------- MODULE BulkProofs -----------------------------
(***************************************************************************)
(* What Bulk.tla promises for files of every length and every              *)
(* --concurrency, and that it implements Batch.tla; and what Executor.tla  *)
(* promises, for every number of targets, program of a scan and limit.     *)
(***************************************************************************)
EXTENDS Bulk, Executor, FiniteSetTheorems, SequenceTheorems, WellFoundedInduction, TLAPS

(* A record is being written: its slot is empty until the refill.          *)
Writing == phase \in {"write", "newline", "flush"}

(* The slots in detail: one is missing exactly while a record is written,  *)
(* unless the iterator is at the end of the file.                          *)
Slots ==
  /\ Cardinality(inFlight) <= cap
  /\ phase = "polling" => Cardinality(inFlight) = cap \/ next = total + 1
  /\ Writing => Cardinality(inFlight) = cap - 1 \/ next = total + 1
  /\ Writing => Cardinality(inFlight) < cap

Fresh == phase = "start" => next = 1 /\ inFlight = {} /\ emitted = {}

Dropped == phase = "failed" => inFlight = {}

Underway == phase \in {"write", "newline"} => current \in Target

(* The inductive invariant.                                                *)
IInv ==
  /\ TypeOK
  /\ Fresh
  /\ Underway
  /\ Dropped
  /\ Conservation
  /\ phase # "failed" => Slots

(* cap is at least one.                                                    *)
LEMMA CapPositive == TypeOK => cap \in Nat /\ cap > 0
  BY BulkAssumption DEF TypeOK, cap

(* Scans in flight are finitely many.                                      *)
LEMMA InFlightFinite ==
  TypeOK => /\ IsFiniteSet(inFlight)
            /\ Cardinality(inFlight) \in Nat
<1> SUFFICES ASSUME TypeOK PROVE IsFiniteSet(inFlight)
  BY FS_CardinalityType
<1>1. IsFiniteSet(Target)
  BY FS_Interval, BulkAssumption DEF TypeOK, Target
<1> QED BY <1>1, FS_Subset DEF TypeOK

(* The first states satisfy the invariant.                                 *)
LEMMA InitIInv == Init => IInv
<1> SUFFICES ASSUME Init PROVE IInv
  OBVIOUS
<1>1. TypeOK /\ Fresh /\ Underway /\ Dropped
  BY BulkAssumption DEF Init, TypeOK, Fresh, Underway, Dropped, Phase, None, Target
<1>2. Cardinality(inFlight) = 0
  BY FS_EmptySet DEF Init
<1>3. Slots
  BY <1>1, <1>2, CapPositive DEF Init, Slots, Writing
<1>4. Conservation
  BY DEF Init, Conservation
<1> QED BY <1>1, <1>3, <1>4 DEF IInv

(* Every step preserves it.                                                *)
LEMMA NextIInv == IInv /\ [Next]_vars => IInv'
<1> SUFFICES ASSUME IInv, [Next]_vars PROVE IInv'
  OBVIOUS
<1> USE BulkAssumption
<1>0. /\ TypeOK /\ cap \in Nat /\ cap > 0
      /\ IsFiniteSet(inFlight) /\ Cardinality(inFlight) \in Nat
  BY CapPositive, InFlightFinite DEF IInv
<1>1. ASSUME RejectEmpty PROVE IInv'
  BY <1>1 DEF IInv, RejectEmpty, TypeOK, Fresh, Underway, Dropped, Conservation, args, Target, Phase
<1>2. ASSUME Prime PROVE IInv'
  <2>1. total \in Nat /\ total > 0 /\ cap' = cap /\ Target' = Target
    BY <1>2 DEF Prime, IInv, TypeOK, args, cap, Target
  <2>2. inFlight' = 1..(next' - 1) /\ next' \in 1..(total + 1)
    BY <1>0, <1>2, <2>1 DEF Prime, Target
  <2>3. Cardinality(inFlight') = next' - 1
    BY <2>1, <2>2, FS_Interval
  <2>4. TypeOK' /\ Fresh' /\ Underway' /\ Dropped' /\ Conservation'
    BY <1>2, <2>1, <2>2
    DEF Prime, IInv, TypeOK, Fresh, Underway, Dropped, Conservation, args, Target, Phase
  <2>5. Slots'
    BY <1>0, <1>2, <2>1, <2>3 DEF Prime, Slots, Writing, args
  <2> QED BY <2>4, <2>5 DEF IInv
<1>3. ASSUME NEW t \in Target, Yield(t) PROVE IInv'
  <2>1. cap' = cap /\ Target' = Target
    BY <1>3 DEF Yield, args, cap, Target
  <2>2. Cardinality(inFlight') = Cardinality(inFlight) - 1
    BY <1>0, <1>3, FS_RemoveElement DEF Yield
  <2>3. TypeOK' /\ Fresh' /\ Underway' /\ Dropped'
    BY <1>3, <2>1 DEF Yield, IInv, TypeOK, Fresh, Underway, Dropped, args, Phase
  <2>4. Conservation'
    BY <1>3 DEF Yield, IInv, Conservation
  <2>5. Slots'
    BY <1>0, <1>3, <2>1, <2>2 DEF Yield, IInv, Slots, Writing, args
  <2> QED BY <2>3, <2>4, <2>5 DEF IInv
<1>4. ASSUME WriteLine PROVE IInv'
  BY <1>4 DEF WriteLine, IInv, TypeOK, Fresh, Underway, Dropped, Conservation, Slots,
              Writing, args, cap, Target, Phase
<1>5. ASSUME WriteNewline PROVE IInv'
  BY <1>5 DEF WriteNewline, IInv, TypeOK, Fresh, Underway, Dropped, Conservation, Slots,
              Writing, args, cap, Target, Phase
<1>6. ASSUME FlushAndRefill PROVE IInv'
  <2>1. cap' = cap /\ Target' = Target /\ phase = "flush" /\ phase' = "polling"
    BY <1>6 DEF FlushAndRefill, args, cap, Target
  <2>2. CASE next <= total
    <3>1. inFlight' = inFlight \union {next} /\ next' = next + 1
      BY <1>6, <2>2 DEF FlushAndRefill, Refill
    <3>2. next \notin inFlight /\ next \in Target
      BY <1>0, <2>1, <2>2 DEF IInv, Conservation, TypeOK, Target
    <3>3. Cardinality(inFlight') = Cardinality(inFlight) + 1
      BY <1>0, <3>1, <3>2, FS_AddElement
    <3>4. TypeOK' /\ Fresh' /\ Underway' /\ Dropped'
      BY <1>6, <2>1, <3>1, <3>2
      DEF FlushAndRefill, IInv, TypeOK, Fresh, Underway, Dropped, args, Phase, Target
    <3>5. Conservation'
      BY <1>6, <2>1, <3>1, <3>2, <1>0
      DEF FlushAndRefill, IInv, Conservation, TypeOK, args
    <3>6. Slots'
      BY <1>0, <1>6, <2>1, <2>2, <3>1, <3>3
      DEF FlushAndRefill, IInv, Slots, Writing, TypeOK, args
    <3> QED BY <3>4, <3>5, <3>6 DEF IInv
  <2>3. CASE ~(next <= total)
    <3>1. UNCHANGED <<inFlight, next>>
      BY <1>6, <2>3 DEF FlushAndRefill, Refill
    <3> QED BY <1>0, <1>6, <2>1, <2>3, <3>1
            DEF FlushAndRefill, IInv, TypeOK, Fresh, Underway, Dropped, Conservation,
                Slots, Writing, args, Phase
  <2> QED BY <2>2, <2>3
<1>7. ASSUME WriteFails PROVE IInv'
  BY <1>7 DEF WriteFails, IInv, TypeOK, Fresh, Underway, Dropped, Conservation, args, Target, Phase
<1>8. ASSUME Finish PROVE IInv'
  BY <1>8 DEF Finish, IInv, TypeOK, Fresh, Underway, Dropped, Conservation, Slots,
              Writing, args, cap, Target, Phase
<1>9. ASSUME UNCHANGED vars PROVE IInv'
  BY <1>9 DEF vars, IInv, TypeOK, Fresh, Underway, Dropped, Conservation, Slots,
              Writing, args, cap, Target
<1> QED
  BY <1>1, <1>2, <1>3, <1>4, <1>5, <1>6, <1>7, <1>8, <1>9
  DEF Next, Step, Terminated

(* The invariant holds in every reachable state.                           *)
THEOREM Invariance == Spec => []IInv
<1>1. Init => IInv
  BY InitIInv
<1>2. IInv /\ [Next]_vars => IInv'
  BY NextIInv
<1> QED BY <1>1, <1>2, PTL DEF Spec

(* Bulk's state stays well-typed, whatever the file and --concurrency.     *)
THEOREM TypeCorrect == Spec => []TypeOK
<1>1. IInv => TypeOK
  BY DEF IInv
<1> QED BY <1>1, Invariance, PTL

(* No entry of the targets file is lost or scanned twice by run().         *)
THEOREM NothingLost == Spec => []Conservation
<1>1. IInv => Conservation
  BY DEF IInv
<1> QED BY <1>1, Invariance, PTL

(* --concurrency bounds the scans in flight.                               *)
THEOREM Bounded == Spec => []InFlightBound
<1>1. IInv => InFlightBound
  <2> SUFFICES ASSUME IInv PROVE InFlightBound
    OBVIOUS
  <2>1. CASE phase = "failed"
    <3>1. Cardinality(inFlight) = 0
      BY <2>1, FS_EmptySet DEF IInv, Dropped
    <3> QED BY <2>1, <3>1, CapPositive DEF InFlightBound, IInv
  <2>2. CASE phase # "failed"
    BY <2>2 DEF InFlightBound, IInv, Slots, Writing
  <2> QED BY <2>1, <2>2
<1> QED BY <1>1, Invariance, PTL

(* No slot stays empty while an entry of the file waits.                   *)
THEOREM NoIdleSlot == Spec => []SlotsUsed
<1>1. IInv => SlotsUsed
  BY DEF IInv, Slots, SlotsUsed
<1> QED BY <1>1, Invariance, PTL

(* The batch ends complete only with every entry written: a finished batch *)
(* has no entry waiting, because an idle task with a free slot has reached *)
(* the end of the file.                                                    *)
LEMMA FinishComplete == IInv /\ Finish => emitted = Target
<1> SUFFICES ASSUME IInv, Finish PROVE emitted = Target
  OBVIOUS
<1>1. Cardinality(inFlight) = 0
  BY FS_EmptySet DEF Finish
<1>2. next = total + 1
  BY <1>1, CapPositive DEF IInv, Slots, Finish
<1>3. emitted = 1..(next - 1)
  BY DEF IInv, Conservation, Finish
<1>4. next - 1 = total
  BY <1>2, BulkAssumption DEF IInv, TypeOK
<1> QED BY <1>3, <1>4 DEF Target

(* bulk implements Batch: its first states and each of its steps map to    *)
(* those of the abstract batch, or to a stutter.                           *)
THEOREM Implementation ==
  Spec => AbstractBatch!Init /\ [][AbstractBatch!Next]_AbstractBatch!vars
<1> USE DEF status
<1>1. Init => AbstractBatch!Init
  BY DEF Init, AbstractBatch!Init
<1>2. ASSUME IInv, [Next]_vars
      PROVE [AbstractBatch!Next]_AbstractBatch!vars
  <2> USE DEF AbstractBatch!vars
  <2>1. CASE RejectEmpty
    BY <2>1 DEF RejectEmpty, args, AbstractBatch!Next, AbstractBatch!Abort
  <2>2. CASE WriteNewline
    <3>1. current \in Target /\ current \notin emitted
      BY <1>2, <2>2 DEF WriteNewline, IInv, Underway, Conservation
    <3>2. AbstractBatch!Report(current)
      BY <2>2, <3>1 DEF WriteNewline, args, AbstractBatch!Report
    <3> QED BY <3>1, <3>2 DEF AbstractBatch!Next, AbstractBatch!Target, Target
  <2>3. CASE Finish
    <3>1. AbstractBatch!Complete
      BY <1>2, <2>3, FinishComplete
      DEF Finish, args, AbstractBatch!Complete, AbstractBatch!Target, Target
    <3> QED BY <3>1 DEF AbstractBatch!Next
  <2>4. CASE WriteFails
    BY <2>4 DEF WriteFails, args, AbstractBatch!Next, AbstractBatch!Abort
  <2>5. CASE Prime \/ (\E t \in Target : Yield(t)) \/ WriteLine \/ FlushAndRefill
    BY <2>5 DEF Prime, Yield, WriteLine, FlushAndRefill, args
  <2>6. CASE UNCHANGED vars
    BY <2>6 DEF vars, args
  <2> QED BY <1>2, <2>1, <2>2, <2>3, <2>4, <2>5, <2>6 DEF Next, Step, Terminated
<1> QED BY <1>1, <1>2, Invariance, PTL DEF Spec

-----------------------------------------------------------------------------
(* A set of natural numbers has a least element, and a set that holds 0 and*)
(* with each number the next holds them all.                               *)
LEMMA Smallest ==
  ASSUME NEW T, T \subseteq Nat, T # {}
  PROVE  \E x \in T : \A y \in T : x <= y
<1> DEFINE R == OpToRel(<, Nat)
<1>1. \A x, y \in Nat : <<y, x>> \in R <=> y < x
  BY DEF OpToRel
<1>2. IsWellFoundedOn(R, Nat)
  BY NatLessThanWellFounded
<1> HIDE DEF R
<1>3. PICK x \in T : \A y \in T : ~(<<y, x>> \in R)
  BY <1>2, WFMin
<1>4. ASSUME NEW y \in T PROVE x <= y
  <2>1. x \in Nat /\ y \in Nat /\ ~(y < x)
    BY <1>1, <1>3
  <2> QED BY <2>1
<1> QED BY <1>4

LEMMA Induction ==
  ASSUME NEW S, 0 \in S, \A n \in Nat : n \in S => n + 1 \in S
  PROVE  Nat \subseteq S
<1> SUFFICES ASSUME Nat \ S # {} PROVE FALSE
  OBVIOUS
<1>1. PICK x \in Nat \ S : \A y \in Nat \ S : x <= y
  BY Smallest
<1>2. x # 0 /\ x - 1 \in Nat
  BY <1>1
<1>3. x - 1 \in S
  BY <1>1, <1>2
<1> QED BY <1>1, <1>2, <1>3

(* The constants, as the proofs use them.                                  *)
LEMMA Sizes ==
  /\ Len(Program) \in Nat /\ Recording \in Nat /\ Finished \in Nat
  /\ Recording = Len(Program) + 1 /\ Finished = Len(Program) + 2
  /\ Cap \in Nat /\ Cap > 0 /\ Limit \in Nat /\ Limit > 0 /\ Never \in Int /\ Never < 0
  /\ \A n \in 1..Len(Program) : /\ Program[n].trips \in Nat /\ Program[n].trips > 0
                                /\ Program[n].kind \in {"probe", "fetch"}
<1>1. Program \in Seq(Operations) /\ Len(Program) \in Nat
  BY ExecutorAssumption, LenProperties
<1>2. \A n \in 1..Len(Program) : Program[n] \in Operations
  BY <1>1, ElementOfSeq
<1> QED BY <1>1, <1>2, ExecutorAssumption DEF Recording, Finished, Operations

(* A scan keeps the thread for no longer than it may.                      *)
LEMMA KeepsAllowed == \A n \in 1..Recording : Allowed(n) \in Nat /\ Keeps(n) = Allowed(n)
<1> SUFFICES ASSUME NEW n \in 1..Recording PROVE Allowed(n) \in Nat /\ Keeps(n) = Allowed(n)
  OBVIOUS
<1>1. CASE n = Recording
  BY <1>1, ExecutorAssumption DEF Keeps, Allowed
<1>2. CASE n # Recording
  <2>1. n \in 1..Len(Program)
    BY <1>2, Sizes
  <2>2. Program[n].trips \in Nat /\ Limit \in Nat
    BY <2>1, Sizes
  <2>3. \A a, b \in Nat : a * b \in Nat
    OBVIOUS
  <2> QED BY <1>2, <2>2, <2>3 DEF Keeps, Allowed
<1> QED BY <1>1, <1>2

(* The recursion of Turn is well-founded: Turn is what it says.            *)
LEMMA TurnDef ==
  /\ Turn \in [0..Recording -> Nat]
  /\ \A n \in 0..Recording :
       Turn[n] = IF n = Recording \/ (n < Len(Program) /\ Program[n + 1].kind = "probe")
                   THEN 0 ELSE Allowed(n + 1) + Turn[n + 1]
<1> DEFINE Stop(n) == n = Recording \/ (n < Len(Program) /\ Program[n + 1].kind = "probe")
           Body(f, n) == IF Stop(n) THEN 0 ELSE Allowed(n + 1) + f[n + 1]
           Good(k) == \E f \in [0..Recording -> Nat] :
                        \A n \in 0..Recording : Recording - k <= n => f[n] = Body(f, n)
           K == {k \in Nat : k <= Recording => Good(k)}
<1>0. Recording \in Nat
  BY Sizes
<1>1. 0 \in K
  <2>1. [n \in 0..Recording |-> 0] \in [0..Recording -> Nat]
    OBVIOUS
  <2>2. \A n \in 0..Recording : Recording - 0 <= n => Stop(n)
    BY <1>0
  <2>3. Good(0)
    BY <2>1, <2>2
  <2> QED BY <2>3
<1>2. ASSUME NEW k \in Nat, k \in K PROVE k + 1 \in K
  <2> SUFFICES ASSUME k + 1 <= Recording PROVE Good(k + 1)
    OBVIOUS
  <2> DEFINE r == Recording - (k + 1)
  <2>0. Good(k)
    <3>1. k <= Recording
      BY <1>0
    <3> HIDE DEF Good
    <3> QED BY <1>2, <3>1
  <2>1. PICK f \in [0..Recording -> Nat] :
          \A n \in 0..Recording : Recording - k <= n => f[n] = Body(f, n)
    BY <2>0
  <2>2. r \in 0..Recording /\ r + 1 \in 1..Recording /\ r + 1 \in 0..Recording
    BY <1>0, <1>2
  <2>3. f[r + 1] \in Nat /\ Allowed(r + 1) \in Nat
    BY <2>1, <2>2, KeepsAllowed
  <2> HIDE DEF Stop
  <2>4. Body(f, r) \in Nat
    BY <2>3
  <2> DEFINE b == Body(f, r)
             g == [f EXCEPT ![r] = b]
  <2>5. g \in [0..Recording -> Nat] /\ g[r] = b
        /\ \A n \in 0..Recording : n # r => g[n] = f[n]
    <3> HIDE DEF b
    <3> QED BY <2>1, <2>2, <2>4 DEF b
  <2> HIDE DEF g
  <2>6. ASSUME NEW n \in 0..Recording, Recording - (k + 1) <= n PROVE g[n] = Body(g, n)
    <3>1. Stop(n) \/ (n + 1 \in 0..Recording /\ n + 1 # r)
      BY <1>0, <2>2, <2>6 DEF Stop
    <3>2. Body(g, n) = Body(f, n)
      BY <2>5, <3>1
    <3>3. CASE n = r
      BY <2>5, <3>2, <3>3
    <3>4. CASE n # r
      <4>1. Recording - k <= n
        BY <1>0, <1>2, <2>6, <3>4
      <4> QED BY <2>1, <2>5, <3>2, <3>4, <4>1
    <3> QED BY <3>3, <3>4
  <2> QED BY <2>5, <2>6
<1>3. Recording \in K
  <2> HIDE DEF K
  <2> QED BY <1>0, <1>1, <1>2, Induction
<1>4. PICK f \in [0..Recording -> Nat] : \A n \in 0..Recording : f[n] = Body(f, n)
  BY <1>0, <1>3
<1>5. f = [n \in 0..Recording |-> Body(f, n)]
  BY <1>4
<1>6. Turn = [n \in 0..Recording |-> Body(Turn, n)]
  BY <1>5 DEF Turn
<1> HIDE DEF Stop
<1>7. \A n \in 0..Recording : Turn[n] = Body(Turn, n)
  BY <1>6
<1> DEFINE Z == {k \in Nat : k <= Recording => Turn[Recording - k] \in Nat}
<1>8. 0 \in Z
  BY <1>0, <1>7 DEF Stop
<1>9. ASSUME NEW k \in Nat, k \in Z PROVE k + 1 \in Z
  <2> SUFFICES ASSUME k + 1 <= Recording PROVE Turn[Recording - (k + 1)] \in Nat
    OBVIOUS
  <2> DEFINE r == Recording - (k + 1)
  <2>1. r \in 0..Recording /\ r + 1 \in 1..Recording /\ r + 1 = Recording - k
    BY <1>0, <1>9
  <2>2. Turn[r + 1] \in Nat /\ Allowed(r + 1) \in Nat
    BY <1>0, <1>9, <2>1, KeepsAllowed
  <2> QED BY <1>7, <2>1, <2>2
<1>10. Nat \subseteq Z
  <2> HIDE DEF Z
  <2> QED BY <1>8, <1>9, Induction
<1>11. ASSUME NEW n \in 0..Recording PROVE Turn[n] \in Nat
  <2>1. Recording - n \in Nat /\ Recording - (Recording - n) = n /\ Recording - n <= Recording
    BY <1>0
  <2> QED BY <1>10, <2>1
<1> QED BY <1>6, <1>7, <1>11 DEF Stop

(* The longest turn is one, and no turn is longer.                         *)
LEMMA Longest ==
  LongestTurn \in Nat /\ \A n \in 0..Recording : Turn[n] <= LongestTurn
<1> DEFINE turns == {Turn[n] : n \in 0..Recording}
           M(k) == \E m \in turns : \A n \in 0..k : Turn[n] <= m
           K == {k \in Nat : k <= Recording => M(k)}
<1>0. Recording \in Nat /\ \A n \in 0..Recording : Turn[n] \in Nat
  BY Sizes, TurnDef
<1>1. 0 \in K
  BY <1>0
<1>2. ASSUME NEW k \in Nat, k \in K PROVE k + 1 \in K
  <2> SUFFICES ASSUME k + 1 <= Recording PROVE M(k + 1)
    OBVIOUS
  <2>1. k + 1 \in 0..Recording /\ Turn[k + 1] \in turns /\ Turn[k + 1] \in Nat
    BY <1>0
  <2>2. PICK m \in turns : \A n \in 0..k : Turn[n] <= m
    BY <1>0, <1>2
  <2>3. m \in Nat /\ \A n \in 0..k : Turn[n] \in Nat
    BY <1>0, <2>1
  <2>4. \A n \in 0..(k + 1) : n \in 0..k \/ n = k + 1
    OBVIOUS
  <2>5. CASE Turn[k + 1] <= m
    BY <2>2, <2>4, <2>5
  <2>6. CASE m < Turn[k + 1]
    <3>1. \A n \in 0..k : Turn[n] <= Turn[k + 1]
      BY <2>1, <2>2, <2>3, <2>6
    <3> QED BY <2>1, <2>4, <3>1
  <2> QED BY <2>1, <2>3, <2>5, <2>6
<1>3. Recording \in K
  <2> HIDE DEF K
  <2> QED BY <1>0, <1>1, <1>2, Induction
<1>4. \E m \in turns : \A r \in turns : r <= m
  BY <1>0, <1>3
<1>5. LongestTurn \in turns /\ \A r \in turns : r <= LongestTurn
  BY <1>4 DEF LongestTurn
<1> QED BY <1>0, <1>5

(* The turns before a place in the queue, in time.                         *)
Ahead(i) == (i - 1) * LongestTurn

LEMMA AheadOf ==
  /\ \A i \in Int : Ahead(i) \in Int
  /\ Ahead(1) = 0
  /\ \A i \in Int : Ahead(i + 1) = Ahead(i) + LongestTurn
  /\ \A i, j \in Nat : i <= j => Ahead(i) <= Ahead(j)
<1> DEFINE L == LongestTurn
<1>0. L \in Nat
  BY Longest
<1> HIDE DEF L
<1>1. \A i \in Int : (i - 1) * L \in Int /\ (i + 1 - 1) * L = (i - 1) * L + L
  BY <1>0
<1>2. \A d \in Nat : d * L >= 0
  BY <1>0
<1>3. ASSUME NEW i \in Nat, NEW j \in Nat, i <= j PROVE (i - 1) * L <= (j - 1) * L
  <2>1. j - i \in Nat /\ (j - i) * L = (j - 1) * L - (i - 1) * L
    BY <1>0, <1>3
  <2>2. (j - i) * L >= 0
    BY <1>2, <2>1
  <2>3. (i - 1) * L \in Int /\ (j - 1) * L \in Int
    BY <1>0
  <2> QED BY <2>1, <2>2, <2>3
<1>4. (1 - 1) * L = 0
  BY <1>0
<1> QED BY <1>0, <1>1, <1>3, <1>4 DEF Ahead, L

(* Where each scan is: not started, queued to be polled, waiting in a      *)
(* probe, or keeping the thread; and no more are going than --concurrency. *)
Places ==
  /\ \A s \in backlog : op[s] = 0
  /\ \A s \in Queued : s \notin backlog /\ (op[s] = 0 \/ InProbe(s))
  /\ runner # "none" => op[runner] \in 1..Recording /\ ~InProbe(runner) /\ runner \notin backlog
  /\ busy > 0 => runner # "none"
  /\ Cardinality(Going) <= Cap

(* A scan that can go on is queued.                                        *)
Alert == \A s \in Scans : Due(s) => s \in Queued

(* The time a probe has taken is its server's, or the thread was taken.    *)
Explained(s) ==
  IF ready[s] = Never THEN own[s] >= Limit
  ELSE /\ ready[s] - began[s] <= own[s] + held[s]
       /\ ready[s] <= now => now - began[s] <= own[s] + held[s]
Accounted == \A s \in Scans : InProbe(s) => Explained(s)

(* What is left of the turn of the scan that keeps the thread, if any.     *)
Rest == IF runner = "none" THEN 0 ELSE busy + Turn[op[runner]]

(* A scan whose timer has gone off is late by at most the time until its   *)
(* turn comes: the rest of this turn, and a turn of each that is before it.*)
Punctual ==
  \A s \in Scans : \A i \in DOMAIN woken :
    InProbe(s) /\ TimerOf(s) <= now /\ woken[i] = s =>
      now + Rest + Ahead(i) <= TimerOf(s) + Ahead(Cap)

(* The executor's inductive invariant.                                     *)
Placed == ExecutorTypeOK /\ Places /\ Alert
EInv == Placed /\ Accounted /\ Rest <= LongestTurn /\ Punctual

(* A queue without repetitions is as long as the set it lists, which is    *)
(* never more than the scans that may wait for the thread.                 *)
LEMMA QueueLength ==
  ASSUME ExecutorTypeOK, Places
  PROVE  /\ Len(woken) \in Nat /\ Len(woken) <= Cap
         /\ runner # "none" => Len(woken) < Cap
<1>1. /\ woken \in Seq(Scans) /\ Len(woken) \in Nat /\ DOMAIN woken = 1..Len(woken)
      /\ \A i \in 1..Len(woken) : woken[i] \in Scans
  BY LenProperties, ElementOfSeq DEF ExecutorTypeOK
<1> DEFINE Ahd == IF runner = "none" THEN Going ELSE Going \ {runner}
<1>2. \A i \in 1..Len(woken) : woken[i] \in Ahd
  <2> SUFFICES ASSUME NEW i \in 1..Len(woken) PROVE woken[i] \in Ahd
    OBVIOUS
  <2> DEFINE s == woken[i]
  <2>1. s \in Queued /\ s \in Scans
    BY <1>1 DEF Queued
  <2> HIDE DEF s
  <2>2. s \notin backlog /\ (op[s] = 0 \/ InProbe(s))
    BY <2>1 DEF Places
  <2>3. op[s] # Finished
    BY <2>2, Sizes DEF InProbe
  <2>4. runner # "none" => s # runner
    <3>1. runner # "none" => op[runner] # 0 /\ ~InProbe(runner)
      BY Sizes DEF Places
    <3> QED BY <2>2, <3>1
  <2> QED BY <2>1, <2>2, <2>3, <2>4 DEF Going, s
<1>3. IsFiniteSet(Going) /\ Cardinality(Going) \in Nat
  BY FS_Subset, FS_CardinalityType, ExecutorAssumption DEF Going
<1>4. IsFiniteSet(Ahd) /\ Cardinality(Ahd) \in Nat /\ Cardinality(Ahd) <= Cap
      /\ (runner # "none" => Cardinality(Ahd) < Cap)
  <2>1. CASE runner = "none"
    BY <1>3, <2>1 DEF Places
  <2>2. CASE runner # "none"
    <3>1. runner \in Going
      BY <2>2, Sizes DEF Places, Going, ExecutorTypeOK
    <3>2. IsFiniteSet(Going \ {runner}) /\ Cardinality(Going \ {runner}) = Cardinality(Going) - 1
      BY <1>3, <3>1, FS_RemoveElement
    <3>3. Cardinality(Going \ {runner}) \in Nat
      BY <3>2, FS_CardinalityType
    <3> QED BY <1>3, <2>2, <3>2, <3>3, Sizes DEF Places
  <2> QED BY <2>1, <2>2
<1>5. [i \in 1..Len(woken) |-> woken[i]] \in Injection(1..Len(woken), Ahd)
  BY <1>1, <1>2 DEF ExecutorTypeOK, Injection, IsInjective
<1>6. Cardinality(1..Len(woken)) <= Cardinality(Ahd)
  BY <1>4, <1>5, FS_Injection
<1>7. Cardinality(1..Len(woken)) = Len(woken)
  <2>1. \A n \in Nat : Cardinality(1..n) = n
    BY FS_Interval
  <2> QED BY <1>1, <2>1
<1> QED BY <1>1, <1>4, <1>6, <1>7, Sizes

(* Orders(S) lists S, each member once.                                    *)
LEMMA OrdersList ==
  ASSUME NEW S \in SUBSET Scans, NEW f \in Orders(S)
  PROVE  /\ f \in Seq(Scans) /\ Len(f) \in Nat /\ DOMAIN f = 1..Len(f)
         /\ \A i, j \in DOMAIN f : f[i] = f[j] => i = j
         /\ {f[i] : i \in DOMAIN f} = S
<1>1. IsFiniteSet(S) /\ Cardinality(S) \in Nat
  BY FS_Subset, FS_CardinalityType, ExecutorAssumption
<1> DEFINE c == Cardinality(S)
<1>2. f \in [1..c -> S] /\ \A i, j \in 1..c : f[i] = f[j] => i = j
  BY DEF Orders
<1>3. f \in Injection(1..c, S)
  BY <1>2 DEF Injection, IsInjective
<1>4. Cardinality(1..c) = c
  BY <1>1, FS_Interval
<1>5. f \in Surjection(1..c, S)
  BY <1>1, <1>3, <1>4, FS_Injection
<1>6. f \in Seq(S)
  BY <1>1, <1>2, SeqDef
<1>7. f \in Seq(Scans)
  BY <1>6, SeqMonotonic
<1>8. Len(f) \in Nat /\ DOMAIN f = 1..Len(f)
  BY <1>7, LenProperties
<1>9. {f[i] : i \in DOMAIN f} = S
  BY <1>2, <1>5 DEF Surjection
<1> QED BY <1>2, <1>7, <1>8, <1>9

(* The first of the queue is polled, and leaves it.                        *)
LEMMA Pop ==
  ASSUME ExecutorTypeOK, woken # <<>>, woken' = Tail(woken)
  PROVE  /\ Head(woken) \in Scans /\ Head(woken) \in Queued
         /\ woken' \in Seq(Scans)
         /\ \A i \in DOMAIN woken' : i \in Nat /\ i + 1 \in DOMAIN woken /\ woken'[i] = woken[i + 1]
         /\ \A i, j \in DOMAIN woken' : woken'[i] = woken'[j] => i = j
         /\ Queued' = Queued \ {Head(woken)}
<1>1. /\ woken \in Seq(Scans) /\ Len(woken) \in Nat /\ DOMAIN woken = 1..Len(woken)
      /\ \A i, j \in DOMAIN woken : woken[i] = woken[j] => i = j
      /\ Len(woken) > 0 /\ Head(woken) = woken[1]
  BY LenProperties, EmptySeq DEF ExecutorTypeOK
<1>2. /\ Head(woken) \in Scans /\ woken' \in Seq(Scans) /\ Len(woken') = Len(woken) - 1
      /\ \A i \in 1..Len(woken') : woken'[i] = woken[i + 1]
  BY <1>1, HeadTailProperties
<1>3. DOMAIN woken' = 1..(Len(woken) - 1)
  BY <1>2, LenProperties
<1>4. \A i \in DOMAIN woken' : i \in Nat /\ i + 1 \in DOMAIN woken /\ woken'[i] = woken[i + 1]
  BY <1>1, <1>2, <1>3
<1>5. ASSUME NEW i \in DOMAIN woken', NEW j \in DOMAIN woken', woken'[i] = woken'[j] PROVE i = j
  <2>1. i + 1 = j + 1
    BY <1>1, <1>4, <1>5
  <2> QED BY <1>4, <2>1
<1>6. Queued' \subseteq Queued \ {Head(woken)}
  <2> SUFFICES ASSUME NEW i \in DOMAIN woken'
               PROVE  woken'[i] \in Queued /\ woken'[i] # Head(woken)
    BY DEF Queued
  <2>1. i + 1 # 1 /\ i + 1 \in DOMAIN woken /\ 1 \in DOMAIN woken
    BY <1>1, <1>4
  <2> QED BY <1>1, <1>4, <2>1 DEF Queued
<1>7. Queued \ {Head(woken)} \subseteq Queued'
  <2> SUFFICES ASSUME NEW i \in DOMAIN woken, woken[i] # Head(woken)
               PROVE  woken[i] \in Queued'
    BY DEF Queued
  <2>1. i - 1 \in DOMAIN woken' /\ (i - 1) + 1 = i
    BY <1>1, <1>3
  <2>2. woken'[i - 1] = woken[i]
    BY <1>4, <2>1
  <2> QED BY <2>1, <2>2 DEF Queued
<1>8. Head(woken) \in Queued
  BY <1>1 DEF Queued
<1> QED BY <1>2, <1>4, <1>5, <1>6, <1>7, <1>8

(* The scans that can go on queue behind those that could already.         *)
LEMMA Push ==
  ASSUME ExecutorTypeOK, NEW S \in SUBSET (Scans \ Queued), NEW f \in Orders(S),
         woken' = woken \o f
  PROVE  /\ woken' \in Seq(Scans)
         /\ \A i, j \in DOMAIN woken' : woken'[i] = woken'[j] => i = j
         /\ Queued' = Queued \union S
         /\ \A i \in DOMAIN woken' :
              i \in Nat /\ (woken'[i] \in S \/ (i \in DOMAIN woken /\ woken'[i] = woken[i]))
<1>1. /\ woken \in Seq(Scans) /\ Len(woken) \in Nat /\ DOMAIN woken = 1..Len(woken)
      /\ \A i, j \in DOMAIN woken : woken[i] = woken[j] => i = j
  BY LenProperties DEF ExecutorTypeOK
<1>2. /\ f \in Seq(Scans) /\ Len(f) \in Nat /\ DOMAIN f = 1..Len(f)
      /\ \A i, j \in DOMAIN f : f[i] = f[j] => i = j
      /\ {f[i] : i \in DOMAIN f} = S
  BY OrdersList
<1> DEFINE n == Len(woken)
           m == Len(f)
<1>3. /\ woken' \in Seq(Scans) /\ Len(woken') = n + m
      /\ \A i \in 1..(n + m) : woken'[i] = IF i <= n THEN woken[i] ELSE f[i - n]
  BY <1>1, <1>2, ConcatProperties
<1>4. DOMAIN woken' = 1..(n + m)
  BY <1>3, LenProperties
<1>5. \A i \in 1..(n + m) :
        \/ i \in 1..n /\ woken'[i] = woken[i] /\ woken'[i] \in Queued /\ woken'[i] \notin S
        \/ i \notin 1..n /\ i - n \in 1..m /\ woken'[i] = f[i - n] /\ woken'[i] \in S
           /\ woken'[i] \notin Queued
  <2> SUFFICES ASSUME NEW i \in 1..(n + m)
               PROVE  \/ i \in 1..n /\ woken'[i] = woken[i] /\ woken'[i] \in Queued /\ woken'[i] \notin S
                      \/ i \notin 1..n /\ i - n \in 1..m /\ woken'[i] = f[i - n] /\ woken'[i] \in S
                         /\ woken'[i] \notin Queued
    OBVIOUS
  <2>1. CASE i <= n
    <3>1. i \in 1..n /\ woken'[i] = woken[i]
      BY <1>1, <1>2, <1>3, <2>1
    <3>2. woken[i] \in Queued
      BY <1>1, <3>1 DEF Queued
    <3> QED BY <3>1, <3>2
  <2>2. CASE ~(i <= n)
    <3>1. i \notin 1..n /\ i - n \in 1..m /\ woken'[i] = f[i - n]
      BY <1>1, <1>2, <1>3, <2>2
    <3>2. f[i - n] \in S
      BY <1>2, <3>1
    <3> QED BY <3>1, <3>2
  <2> QED BY <2>1, <2>2
<1>6. ASSUME NEW i \in DOMAIN woken', NEW j \in DOMAIN woken', woken'[i] = woken'[j] PROVE i = j
  <2>1. CASE i \in 1..n
    <3>1. j \in 1..n /\ woken[i] = woken[j]
      BY <1>4, <1>5, <1>6, <2>1
    <3> QED BY <1>1, <2>1, <3>1
  <2>2. CASE i \notin 1..n
    <3>1. j \notin 1..n /\ i - n \in 1..m /\ j - n \in 1..m /\ f[i - n] = f[j - n]
      BY <1>4, <1>5, <1>6, <2>2
    <3>2. i - n = j - n
      BY <1>2, <3>1
    <3> QED BY <1>1, <1>2, <1>4, <3>2
  <2> QED BY <2>1, <2>2
<1>7. Queued' \subseteq Queued \union S
  BY <1>4, <1>5 DEF Queued
<1>8. Queued \subseteq Queued'
  <2> SUFFICES ASSUME NEW i \in DOMAIN woken PROVE woken[i] \in Queued'
    BY DEF Queued
  <2>1. i \in DOMAIN woken' /\ woken'[i] = woken[i]
    BY <1>1, <1>2, <1>3, <1>4
  <2> QED BY <2>1 DEF Queued
<1>9. S \subseteq Queued'
  <2> SUFFICES ASSUME NEW i \in DOMAIN f PROVE f[i] \in Queued'
    BY <1>2
  <2>1. i + n \in DOMAIN woken' /\ woken'[i + n] = f[i]
    BY <1>1, <1>2, <1>3, <1>4
  <2> QED BY <2>1 DEF Queued
<1> QED BY <1>1, <1>3, <1>4, <1>5, <1>6, <1>7, <1>8, <1>9

(* A target that has not been started is put at the end of the queue.      *)
LEMMA Put ==
  ASSUME ExecutorTypeOK, NEW t \in Scans \ Queued, woken' = Append(woken, t)
  PROVE  /\ woken' \in Seq(Scans)
         /\ \A i, j \in DOMAIN woken' : woken'[i] = woken'[j] => i = j
         /\ \A i \in DOMAIN woken' : (i \in DOMAIN woken /\ woken'[i] = woken[i]) \/ woken'[i] = t
         /\ Queued' = Queued \union {t}
<1>1. woken \in Seq(Scans) /\ Len(woken) \in Nat /\ DOMAIN woken = 1..Len(woken)
      /\ \A i, j \in DOMAIN woken : woken[i] = woken[j] => i = j
  BY LenProperties DEF ExecutorTypeOK
<1>2. /\ woken' \in Seq(Scans) /\ Len(woken') = Len(woken) + 1
      /\ \A i \in 1..Len(woken) : woken'[i] = woken[i]
      /\ woken'[Len(woken) + 1] = t
  BY <1>1, AppendProperties
<1>3. DOMAIN woken' = 1..(Len(woken) + 1)
  BY <1>2, LenProperties
<1>4. \A i \in DOMAIN woken' : \/ i \in DOMAIN woken /\ woken'[i] = woken[i] /\ woken'[i] # t
                               \/ i = Len(woken) + 1 /\ woken'[i] = t
  <2>1. \A i \in DOMAIN woken : woken[i] # t
    BY DEF Queued
  <2>2. \A i \in DOMAIN woken' : i \in DOMAIN woken \/ i = Len(woken) + 1
    BY <1>1, <1>3
  <2> QED BY <1>1, <1>2, <2>1, <2>2
<1>5. ASSUME NEW i \in DOMAIN woken', NEW j \in DOMAIN woken', woken'[i] = woken'[j]
      PROVE  i = j
  BY <1>1, <1>4, <1>5
<1>6. Queued' \subseteq Queued \union {t}
  BY <1>4 DEF Queued
<1>7. Queued \subseteq Queued'
  <2> SUFFICES ASSUME NEW i \in DOMAIN woken PROVE woken[i] \in Queued'
    BY DEF Queued
  <2>1. i \in DOMAIN woken' /\ woken'[i] = woken[i]
    BY <1>1, <1>2, <1>3
  <2> QED BY <2>1 DEF Queued
<1>8. t \in Queued'
  <2>1. Len(woken) + 1 \in DOMAIN woken'
    BY <1>1, <1>3
  <2> QED BY <1>2, <2>1 DEF Queued
<1> QED BY <1>2, <1>4, <1>5, <1>6, <1>7, <1>8

(* Timers go off at a time.                                                *)
LEMMA TimerInt == ExecutorTypeOK => \A s \in Scans : TimerOf(s) \in Int
<1> SUFFICES ASSUME ExecutorTypeOK, NEW s \in Scans PROVE TimerOf(s) \in Int
  OBVIOUS
<1>1. began[s] \in Nat
  BY DEF ExecutorTypeOK
<1>2. Limit \in Nat
  BY Sizes
<1> QED BY <1>1, <1>2 DEF TimerOf

(* The turn of the scan that keeps the thread is a number of ticks.        *)
LEMMA RestNat == ExecutorTypeOK /\ Places => Rest \in Nat
<1> SUFFICES ASSUME ExecutorTypeOK, Places PROVE Rest \in Nat
  OBVIOUS
<1>1. busy \in Nat
  BY DEF ExecutorTypeOK
<1>2. runner # "none" => op[runner] \in 0..Recording
  BY Sizes DEF Places
<1>3. runner # "none" => Turn[op[runner]] \in Nat
  BY <1>2, TurnDef
<1> QED BY <1>1, <1>3 DEF Rest

LEMMA InitEInv == ExecutorInit => EInv
<1> SUFFICES ASSUME ExecutorInit PROVE EInv
  OBVIOUS
<1>1. PICK first \in SUBSET Scans :
        /\ Cardinality(first) = IF Cap < Cardinality(Scans) THEN Cap ELSE Cardinality(Scans)
        /\ woken \in Orders(first)
        /\ backlog = Scans \ first
  BY DEF ExecutorInit
<1>2. /\ woken \in Seq(Scans)
      /\ \A i, j \in DOMAIN woken : woken[i] = woken[j] => i = j
      /\ Queued = first
  BY <1>1, OrdersList DEF Queued
<1>3. ExecutorTypeOK
  BY <1>1, <1>2, Sizes DEF ExecutorInit, ExecutorTypeOK
<1>4. \A s \in Scans : op[s] = 0 /\ ~InProbe(s)
  BY Sizes DEF ExecutorInit, InProbe
<1>5. Cardinality(Going) <= Cap
  <2>1. Going = first
    BY <1>1, <1>4, Sizes DEF Going
  <2>2. Cardinality(Scans) \in Nat
    BY FS_CardinalityType, ExecutorAssumption
  <2> QED BY <1>1, <2>1, <2>2, Sizes
<1>6. Places
  BY <1>1, <1>2, <1>4, <1>5 DEF Places, ExecutorInit
<1>7. Alert /\ Accounted /\ Punctual
  BY <1>4 DEF Alert, Accounted, Punctual, Due
<1>8. Rest <= LongestTurn
  BY Longest DEF Rest, ExecutorInit
<1> QED BY <1>3, <1>6, <1>7, <1>8 DEF EInv, Placed

-----------------------------------------------------------------------------
(* Only the scan that runs changes.                                        *)
Alone(s) ==
  \A t \in Scans \ {s} :
    /\ op'[t] = op[t] /\ ready'[t] = ready[t] /\ began'[t] = began[t]
    /\ own'[t] = own[t] /\ held'[t] = held[t]

ScansTypeOK ==
  /\ op \in [Scans -> 0..Finished]
  /\ left \in [Scans -> Nat]
  /\ ready \in [Scans -> Int]
  /\ began \in [Scans -> Nat]
  /\ own \in [Scans -> Nat]
  /\ held \in [Scans -> Nat]
  /\ runner \in Scans \union {"none"}
  /\ busy \in Nat

(* A scan asks: the answer is not there yet, and the server's time counts. *)
Asked(s) ==
  \/ ready'[s] = Never /\ own'[s] = Limit
  \/ /\ ready'[s] # Never /\ ready'[s] > now
     /\ ready'[s] - now = own'[s] - (IF op'[s] = op[s] THEN own[s] ELSE 0)

LEMMA AskStep ==
  ASSUME ExecutorTypeOK, NEW s \in Scans, NEW latency \in Latencies, Ask(s, latency)
  PROVE  /\ ready' \in [Scans -> Int] /\ own' \in [Scans -> Nat]
         /\ \A t \in Scans \ {s} : ready'[t] = ready[t] /\ own'[t] = own[t]
         /\ Asked(s)
<1>1. latency = Never \/ (latency # Never /\ latency \in Nat /\ latency > 0)
  BY ExecutorAssumption
<1>2. now \in Nat /\ ready \in [Scans -> Int] /\ own \in [Scans -> Nat] /\ own[s] \in Nat
  BY DEF ExecutorTypeOK
<1>3. CASE latency = Never
  BY <1>2, <1>3, Sizes DEF Ask, Asked
<1>4. CASE latency # Never /\ latency \in Nat /\ latency > 0
  <2>1. /\ ready' = [ready EXCEPT ![s] = now + latency]
        /\ own' = [own EXCEPT ![s] = (IF op'[s] = op[s] THEN own[s] ELSE 0) + latency]
    BY <1>4 DEF Ask
  <2>2. now + latency > now /\ now + latency \in Int /\ now + latency # Never
    BY <1>2, <1>4, Sizes
  <2> DEFINE before == IF op'[s] = op[s] THEN own[s] ELSE 0
  <2>3. before \in Nat
    BY <1>2
  <2> HIDE DEF before
  <2>4. before + latency \in Nat /\ (before + latency) - before = (now + latency) - now
    BY <1>2, <1>4, <2>3
  <2>5. own' = [own EXCEPT ![s] = before + latency]
    BY <2>1 DEF before
  <2>6. ready'[s] = now + latency /\ own'[s] = before + latency
    BY <1>2, <2>1, <2>5
  <2>7. Asked(s)
    BY <2>2, <2>4, <2>6 DEF Asked, before
  <2> QED BY <1>2, <2>1, <2>2, <2>4, <2>5, <2>7
<1> QED BY <1>1, <1>3, <1>4

(* Going on to the next operation: a probe under a new timer, or a turn    *)
(* with the thread that is part of the turn it had.                        *)
LEMMA ProceedStep ==
  ASSUME ExecutorTypeOK, NEW s \in Scans, op[s] \in 0..Len(Program), Proceed(s), now' = now
  PROVE  /\ ScansTypeOK' /\ Alone(s)
         /\ op'[s] = op[s] + 1 /\ op'[s] \in 1..Recording
         /\ began'[s] = now /\ held'[s] = 0
         /\ \/ InProbe(s)' /\ Asked(s) /\ runner' = "none" /\ busy' = 0
            \/ ~InProbe(s)' /\ runner' = s /\ busy' + Turn[op'[s]] <= Turn[op[s]]
<1> DEFINE n == op[s]
<1>0. /\ n \in Nat /\ n + 1 \in 1..Recording /\ n + 1 \in 0..Finished
      /\ n \in 0..Recording /\ n + 1 \in 0..Recording /\ n # Recording
  BY Sizes
<1>1. now \in Nat /\ op \in [Scans -> 0..Finished] /\ left \in [Scans -> Nat]
      /\ ready \in [Scans -> Int] /\ began \in [Scans -> Nat] /\ own \in [Scans -> Nat]
      /\ held \in [Scans -> Nat]
  BY DEF ExecutorTypeOK
<1>2. /\ op' = [op EXCEPT ![s] = n + 1] /\ began' = [began EXCEPT ![s] = now]
      /\ held' = [held EXCEPT ![s] = 0]
  BY DEF Proceed
<1>3. /\ op' \in [Scans -> 0..Finished] /\ began' \in [Scans -> Nat] /\ held' \in [Scans -> Nat]
      /\ op'[s] = n + 1 /\ began'[s] = now /\ held'[s] = 0
      /\ \A t \in Scans \ {s} : op'[t] = op[t] /\ began'[t] = began[t] /\ held'[t] = held[t]
  BY <1>0, <1>1, <1>2
<1>4. CASE n < Len(Program) /\ Program[n + 1].kind = "probe" /\ runner' = "none"
  <2>1. PICK latency \in Latencies : Ask(s, latency)
    BY <1>4, Sizes DEF Proceed
  <2>2. left' = [left EXCEPT ![s] = Program[n + 1].trips] /\ busy' = 0
    BY <1>4, ExecutorAssumption DEF Proceed
  <2>3. n + 1 \in 1..Len(Program)
    BY <1>0, <1>4, Sizes
  <2>4. left' \in [Scans -> Nat]
    BY <1>1, <2>2, <2>3, Sizes
  <2>5. ready' \in [Scans -> Int] /\ own' \in [Scans -> Nat] /\ Asked(s)
        /\ \A t \in Scans \ {s} : ready'[t] = ready[t] /\ own'[t] = own[t]
    BY <2>1, AskStep
  <2>6. InProbe(s)'
    BY <1>3, <1>4, <2>3 DEF InProbe
  <2> QED BY <1>0, <1>3, <1>4, <2>2, <2>4, <2>5, <2>6 DEF ScansTypeOK, Alone
<1>5. CASE /\ n = Len(Program) \/ (n < Len(Program) /\ Program[n + 1].kind = "fetch")
           /\ runner' = s /\ busy' \in 0..Keeps(n + 1)
           /\ UNCHANGED <<left, ready, own>>
  <2>1. Keeps(n + 1) \in Nat /\ Keeps(n + 1) = Allowed(n + 1) /\ Turn[n + 1] \in Nat /\ Turn[n] \in Nat
    BY <1>0, KeepsAllowed, TurnDef
  <2>2. Turn[n] = Keeps(n + 1) + Turn[n + 1]
    <3>1. ~(n < Len(Program) /\ Program[n + 1].kind = "probe")
      BY <1>5, Sizes
    <3>2. Turn[n] = Allowed(n + 1) + Turn[n + 1]
      BY <1>0, <3>1, TurnDef
    <3> QED BY <2>1, <3>2
  <2>3. busy' \in Nat /\ busy' + Turn[n + 1] <= Turn[n]
    BY <1>5, <2>1, <2>2
  <2>4. ~InProbe(s)'
    BY <1>0, <1>3, <1>5, Sizes DEF InProbe
  <2> QED BY <1>0, <1>1, <1>3, <1>5, <2>3, <2>4 DEF ScansTypeOK, Alone
<1> QED BY <1>4, <1>5 DEF Proceed

(* The next round trip of a probe.                                         *)
LEMMA NextTripStep ==
  ASSUME ExecutorTypeOK, NEW s \in Scans, NextTrip(s), now' = now
  PROVE  ScansTypeOK' /\ Alone(s) /\ Asked(s) /\ op' = op /\ began' = began /\ held' = held
         /\ runner' = runner /\ busy' = busy
<1>1. PICK latency \in Latencies : Ask(s, latency)
  BY DEF NextTrip
<1>2. /\ ready' \in [Scans -> Int] /\ own' \in [Scans -> Nat] /\ Asked(s)
      /\ \A t \in Scans \ {s} : ready'[t] = ready[t] /\ own'[t] = own[t]
  BY <1>1, AskStep
<1>3. left' \in [Scans -> Nat]
  <2>1. left[s] - 1 \in Nat
    BY DEF NextTrip, ExecutorTypeOK
  <2> QED BY <2>1 DEF NextTrip, ExecutorTypeOK
<1> QED BY <1>2, <1>3 DEF NextTrip, ScansTypeOK, ExecutorTypeOK, Alone

(* A scan has run, and its turn is over or goes on: if nothing else changed*)
(* and nobody in the queue has come to wait longer, the invariant holds.   *)
LEMMA Ran ==
  ASSUME EInv, NEW s \in Scans, s \notin backlog, op[s] # Finished,
         now' = now, backlog' = backlog, Alone(s), ScansTypeOK',
         op'[s] \in 1..Recording,
         InProbe(s)' => ~Due(s)' /\ Explained(s)',
         IF InProbe(s)' THEN runner' = "none" /\ busy' = 0 ELSE runner' = s,
         woken' \in Seq(Scans),
         \A i, j \in DOMAIN woken' : woken'[i] = woken'[j] => i = j,
         Queued' = Queued \ {s},
         Rest' <= LongestTurn,
         \A i \in DOMAIN woken' : \E j \in DOMAIN woken :
           woken[j] = woken'[i] /\ Rest' + Ahead(i) <= Rest + Ahead(j)
  PROVE  EInv'
<1>0. now \in Nat /\ ExecutorTypeOK /\ Places /\ Alert /\ Accounted /\ Punctual
  BY DEF EInv, Placed, ExecutorTypeOK
<1>1. ExecutorTypeOK'
  BY <1>0 DEF ExecutorTypeOK, ScansTypeOK
<1>2. \A t \in Scans \ {s} : /\ (InProbe(t)' <=> InProbe(t)) /\ (Due(t)' <=> Due(t))
                            /\ TimerOf(t)' = TimerOf(t)
                            /\ (Explained(t)' <=> Explained(t)) /\ op'[t] = op[t]
  BY DEF Alone, InProbe, Due, TimerOf, Explained
<1>3. Places'
  <2>1. \A t \in backlog' : op'[t] = 0
    BY <1>0, <1>2 DEF Places, ExecutorTypeOK
  <2>2. \A t \in Queued' : t \notin backlog' /\ (op'[t] = 0 \/ InProbe(t)')
    <3> SUFFICES ASSUME NEW t \in Queued' PROVE t \notin backlog' /\ (op'[t] = 0 \/ InProbe(t)')
      OBVIOUS
    <3>1. t \in Queued /\ t # s
      OBVIOUS
    <3>2. t \in Scans
      BY <1>0, <3>1, ElementOfSeq, LenProperties DEF Queued, ExecutorTypeOK
    <3> QED BY <1>0, <1>2, <3>1, <3>2 DEF Places
  <2>3. runner' # "none" => op'[runner'] \in 1..Recording /\ ~InProbe(runner)' /\ runner' \notin backlog'
    <3>1. CASE InProbe(s)'
      BY <3>1
    <3>2. CASE ~InProbe(s)'
      <4>1. runner' = s
        BY <3>2
      <4>2. ~InProbe(runner)'
        BY <3>2, <4>1 DEF InProbe
      <4> QED BY <4>1, <4>2
    <3> QED BY <3>1, <3>2
  <2>4. busy' > 0 => runner' # "none"
    BY ExecutorAssumption DEF ScansTypeOK
  <2>5. Going' = Going
    <3>1. op'[s] # Finished
      BY Sizes
    <3> QED BY <1>2, <3>1 DEF Going
  <2>6. Cardinality(Going)' <= Cap
    BY <1>0, <2>5 DEF Places
  <2> QED BY <2>1, <2>2, <2>3, <2>4, <2>6 DEF Places
<1>4. Alert'
  <2> SUFFICES ASSUME NEW t \in Scans, Due(t)' PROVE t \in Queued'
    BY DEF Alert
  <2>1. t # s
    BY DEF Due
  <2> QED BY <1>0, <1>2, <2>1 DEF Alert
<1>5. Accounted'
  BY <1>0, <1>2 DEF Accounted
<1>6. Punctual'
  <2> SUFFICES ASSUME NEW t \in Scans, NEW i \in DOMAIN woken',
                      InProbe(t)', TimerOf(t)' <= now', woken'[i] = t
               PROVE  now' + Rest' + Ahead(i) <= TimerOf(t)' + Ahead(Cap)
    BY DEF Punctual
  <2>1. t # s
    BY DEF Queued
  <2>2. PICK j \in DOMAIN woken : woken[j] = t /\ Rest' + Ahead(i) <= Rest + Ahead(j)
    OBVIOUS
  <2>3. now + Rest + Ahead(j) <= TimerOf(t) + Ahead(Cap)
    BY <1>0, <1>2, <2>1, <2>2 DEF Punctual
  <2>4. Rest \in Nat
    BY <1>0, RestNat
  <2>5. (Rest \in Nat)'
    BY <1>1, <1>3, RestNat, PTL
  <2>6. i \in Int
    <3>1. DOMAIN woken' = 1..Len(woken') /\ Len(woken') \in Nat
      BY LenProperties
    <3> QED BY <3>1
  <2>7. j \in Int
    <3>1. DOMAIN woken = 1..Len(woken) /\ Len(woken) \in Nat
      BY <1>0, LenProperties DEF ExecutorTypeOK
    <3> QED BY <3>1
  <2>8. Ahead(i) \in Int /\ Ahead(j) \in Int /\ Ahead(Cap) \in Int
    <3>1. Cap \in Int /\ \A k \in Int : Ahead(k) \in Int
      BY AheadOf, Sizes
    <3> QED BY <2>6, <2>7, <3>1
  <2>9. TimerOf(t) \in Int
    BY <1>0, TimerInt
  <2> QED BY <1>0, <1>2, <2>1, <2>2, <2>3, <2>4, <2>5, <2>8, <2>9
<1> QED BY <1>1, <1>3, <1>4, <1>5, <1>6, Longest DEF EInv, Placed

(* One action at a time.                                                   *)
LEMMA TickStep == EInv /\ Tick => EInv'
<1> SUFFICES ASSUME EInv, Tick PROVE EInv'
  OBVIOUS
<1>0. /\ ExecutorTypeOK /\ Places /\ Alert /\ Accounted /\ Punctual /\ Rest <= LongestTurn
      /\ now \in Nat /\ busy \in Nat /\ Rest \in Nat
  BY RestNat DEF EInv, Placed, ExecutorTypeOK
<1> DEFINE S == {s \in Scans \ Queued : Due(s)'}
<1>1. PICK more \in Orders(S) : woken' = woken \o more
  BY DEF Tick, Wake
<1>2. /\ now' = now + 1 /\ busy' = IF busy > 0 THEN busy - 1 ELSE 0
      /\ op' = op /\ left' = left /\ ready' = ready /\ began' = began /\ own' = own
      /\ runner' = runner /\ backlog' = backlog
      /\ held' = [s \in Scans |-> held[s] + IF busy > 0 /\ InProbe(s) THEN 1 ELSE 0]
      /\ busy > 0 \/ (woken = <<>> /\ runner = "none")
  BY DEF Tick
<1>3. S \in SUBSET (Scans \ Queued)
  OBVIOUS
<1> HIDE DEF S
<1>4. /\ woken' \in Seq(Scans)
      /\ \A i, j \in DOMAIN woken' : woken'[i] = woken'[j] => i = j
      /\ Queued' = Queued \union S
      /\ \A i \in DOMAIN woken' :
           i \in Nat /\ (woken'[i] \in S \/ (i \in DOMAIN woken /\ woken'[i] = woken[i]))
  BY <1>0, <1>1, <1>3, Push
<1>5. /\ \A s \in Scans : (InProbe(s)' <=> InProbe(s)) /\ TimerOf(s)' = TimerOf(s)
      /\ Going' = Going
  BY <1>2 DEF InProbe, TimerOf, Going
<1>6. held' \in [Scans -> Nat]
      /\ \A s \in Scans : held'[s] = held[s] + IF busy > 0 /\ InProbe(s) THEN 1 ELSE 0
  <2>1. \A s \in Scans : held[s] \in Nat
    BY <1>0 DEF ExecutorTypeOK
  <2>2. \A s \in Scans : held[s] + (IF busy > 0 /\ InProbe(s) THEN 1 ELSE 0) \in Nat
    BY <2>1
  <2> QED BY <1>2, <2>2
<1>7. ExecutorTypeOK'
  <2>1. now' \in Nat /\ busy' \in Nat
    BY <1>0, <1>2
  <2>2. /\ op' \in [Scans -> 0..Finished] /\ left' \in [Scans -> Nat]
        /\ ready' \in [Scans -> Int] /\ began' \in [Scans -> Nat] /\ own' \in [Scans -> Nat]
        /\ runner' \in Scans \union {"none"} /\ backlog' \in SUBSET Scans
    BY <1>0, <1>2 DEF ExecutorTypeOK
  <2> QED BY <1>4, <1>6, <2>1, <2>2 DEF ExecutorTypeOK
<1>8. \A s \in S : s \in Scans /\ s \notin Queued /\ InProbe(s) /\ Due(s)'
  BY <1>5 DEF S, Due
<1>9. Places'
  <2>1. \A s \in Queued' : s \notin backlog' /\ (op'[s] = 0 \/ InProbe(s)')
    <3> SUFFICES ASSUME NEW s \in Queued' PROVE s \notin backlog' /\ (op'[s] = 0 \/ InProbe(s)')
      OBVIOUS
    <3>1. CASE s \in Queued
      BY <1>0, <1>2, <3>1 DEF Places, InProbe
    <3>2. CASE s \in S
      <4>1. op[s] # 0
        BY <1>8, <3>2, Sizes DEF InProbe
      <4>2. s \notin backlog
        BY <1>0, <4>1 DEF Places
      <4> QED BY <1>2, <1>5, <1>8, <3>2, <4>2
    <3> QED BY <1>4, <3>1, <3>2
  <2>2. busy' > 0 => runner' # "none"
    BY <1>0, <1>2 DEF Places
  <2>3. ~InProbe(runner)' <=> ~InProbe(runner)
    BY <1>2 DEF InProbe
  <2> QED BY <1>0, <1>2, <1>5, <2>1, <2>2, <2>3 DEF Places
<1>10. Alert'
  <2> SUFFICES ASSUME NEW s \in Scans, Due(s)' PROVE s \in Queued'
    BY DEF Alert
  <2> QED BY <1>4 DEF S
<1>11. Accounted'
  <2> SUFFICES ASSUME NEW s \in Scans, InProbe(s)' PROVE Explained(s)'
    BY DEF Accounted
  <2>1. InProbe(s) /\ Explained(s)
    BY <1>0, <1>5 DEF Accounted
  <2>2. /\ ready[s] \in Int /\ began[s] \in Nat /\ own[s] \in Nat /\ held[s] \in Nat
        /\ Never \in Int
    BY <1>0, Sizes DEF ExecutorTypeOK
  <2>3. /\ held'[s] \in Nat /\ held[s] <= held'[s]
        /\ busy > 0 => held'[s] = held[s] + 1
    BY <1>6, <2>1, <2>2
  <2>4. CASE ready[s] = Never
    BY <1>2, <2>1, <2>4 DEF Explained
  <2>5. CASE ready[s] # Never
    <3>1. /\ ready[s] - began[s] <= own[s] + held[s]
          /\ ready[s] <= now => now - began[s] <= own[s] + held[s]
      BY <2>1, <2>5 DEF Explained
    <3>2. ready[s] <= now => busy > 0
      <4>1. ready[s] <= now => woken # <<>>
        <5> SUFFICES ASSUME ready[s] <= now PROVE woken # <<>>
          OBVIOUS
        <5>1. s \in Queued
          BY <1>0, <2>1, <2>5 DEF Alert, Due
        <5> QED BY <5>1, EmptySeq DEF Queued
      <4> QED BY <1>2, <4>1
    <3>3. ready[s] - began[s] <= own[s] + held'[s]
      BY <2>2, <2>3, <3>1
    <3>4. ready[s] <= now + 1 => (now + 1) - began[s] <= own[s] + held'[s]
      <4>1. CASE ready[s] <= now
        BY <1>0, <2>2, <2>3, <3>1, <3>2, <4>1
      <4>2. CASE ~(ready[s] <= now)
        BY <1>0, <2>2, <3>3, <4>2
      <4> QED BY <4>1, <4>2
    <3> QED BY <1>2, <2>5, <3>3, <3>4 DEF Explained
  <2> QED BY <2>4, <2>5
<1>12. (Rest \in Nat)'
  BY <1>7, <1>9, RestNat, PTL
<1>13. /\ busy > 0 => Rest' = Rest - 1
       /\ ~(busy > 0) => Rest' = 0
       /\ Rest' <= LongestTurn
  <2>1. LongestTurn \in Nat
    BY Longest
  <2>2. CASE busy > 0
    <3>1. runner # "none"
      BY <1>0, <2>2 DEF Places
    <3>2. op[runner] \in 0..Recording
      BY <1>0, <3>1, Sizes DEF Places
    <3>3. Turn[op[runner]] \in Nat
      BY <3>2, TurnDef
    <3>4. Rest = busy + Turn[op[runner]] /\ Rest' = (busy - 1) + Turn[op[runner]]
      BY <1>2, <2>2, <3>1 DEF Rest
    <3> QED BY <1>0, <2>1, <2>2, <3>3, <3>4
  <2>3. CASE ~(busy > 0)
    <3>1. Rest' = 0
      BY <1>2, <2>3 DEF Rest
    <3> QED BY <2>1, <2>3, <3>1
  <2> QED BY <2>2, <2>3
<1>14. Punctual'
  <2> SUFFICES ASSUME NEW s \in Scans, NEW i \in DOMAIN woken',
                      InProbe(s)', TimerOf(s)' <= now', woken'[i] = s
               PROVE  now' + Rest' + Ahead(i) <= TimerOf(s)' + Ahead(Cap)
    BY DEF Punctual
  <2>1. InProbe(s) /\ TimerOf(s) <= now + 1 /\ i \in Nat
    BY <1>2, <1>4, <1>5
  <2>2. TimerOf(s) \in Int
    BY <1>0, TimerInt
  <2>3. /\ LongestTurn \in Nat /\ Ahead(i) \in Int /\ Ahead(Cap) \in Int
        /\ Ahead(i + 1) = Ahead(i) + LongestTurn
        /\ \A j, k \in Nat : j <= k => Ahead(j) <= Ahead(k)
    <3>1. i \in Int /\ Cap \in Int
      BY <2>1, Sizes
    <3> QED BY <3>1, Longest, AheadOf
  <2>4. CASE TimerOf(s) <= now
    <3>1. s \in Queued
      BY <1>0, <2>1, <2>4 DEF Alert, Due
    <3>2. s \notin S
      BY <1>8, <3>1
    <3>3. i \in DOMAIN woken /\ woken[i] = s
      BY <1>4, <3>2
    <3>4. busy > 0
      BY <1>2, <3>3, EmptySeq
    <3>5. now + Rest + Ahead(i) <= TimerOf(s) + Ahead(Cap)
      BY <1>0, <2>1, <2>4, <3>3 DEF Punctual
    <3>6. (now + 1) + (Rest - 1) + Ahead(i) <= TimerOf(s) + Ahead(Cap)
      BY <1>0, <2>2, <2>3, <3>5
    <3> QED BY <1>2, <1>5, <1>13, <3>4, <3>6
  <2>5. CASE ~(TimerOf(s) <= now)
    <3>1. TimerOf(s) = now + 1
      BY <1>0, <2>1, <2>2, <2>5
    <3>2. /\ Len(woken') \in Nat /\ Len(woken') <= Cap
          /\ runner' # "none" => Len(woken') < Cap
      <4>1. (/\ Len(woken) \in Nat /\ Len(woken) <= Cap
             /\ runner # "none" => Len(woken) < Cap)'
        BY <1>7, <1>9, QueueLength, PTL
      <4> QED BY <4>1
    <3>3. i <= Len(woken')
      <4>1. DOMAIN woken' = 1..Len(woken')
        BY <1>4, LenProperties
      <4> QED BY <3>2, <4>1
    <3>4. Cap \in Nat
      BY Sizes
    <3>5. Rest' + Ahead(i) <= Ahead(Cap)
      <4>1. CASE busy > 0
        <5>1. i + 1 \in Nat /\ i + 1 <= Cap
          BY <1>0, <1>2, <2>1, <3>2, <3>3, <3>4, <4>1 DEF Places
        <5>2. Ahead(i + 1) <= Ahead(Cap)
          BY <2>3, <3>4, <5>1
        <5> QED BY <1>12, <1>13, <2>3, <5>2
      <4>2. CASE ~(busy > 0)
        <5>1. i <= Cap
          BY <2>1, <3>2, <3>3, <3>4
        <5>2. Ahead(i) <= Ahead(Cap)
          BY <2>1, <2>3, <3>4, <5>1
        <5> QED BY <1>13, <2>3, <4>2, <5>2
      <4> QED BY <4>1, <4>2
    <3> QED BY <1>0, <1>2, <1>5, <1>12, <2>3, <3>1, <3>5
  <2> QED BY <2>4, <2>5
<1> QED BY <1>7, <1>9, <1>10, <1>11, <1>13, <1>14 DEF EInv, Placed

(* A probe that begins is not due, and has taken no time yet.              *)
LEMMA Begun ==
  ASSUME NEW s \in Scans, now \in Nat, now' = now, ScansTypeOK',
         op[s] \in 0..Len(Program), op'[s] = op[s] + 1, began'[s] = now, held'[s] = 0,
         InProbe(s)' => Asked(s)
  PROVE  InProbe(s)' => ~Due(s)' /\ Explained(s)'
<1> SUFFICES ASSUME InProbe(s)' PROVE ~Due(s)' /\ Explained(s)'
  OBVIOUS
<1>1. op'[s] # op[s] /\ Limit \in Nat /\ Limit > 0 /\ ready'[s] \in Int /\ own'[s] \in Nat
  BY Sizes DEF ScansTypeOK
<1>2. \/ ready'[s] = Never /\ own'[s] = Limit
      \/ ready'[s] # Never /\ ready'[s] > now /\ ready'[s] - now = own'[s]
  BY <1>1 DEF Asked
<1>3. ~Due(s)'
  BY <1>1, <1>2 DEF Due, TimerOf
<1>4. Explained(s)'
  BY <1>1, <1>2 DEF Explained
<1> QED BY <1>3, <1>4

(* Who is still in the queue has one turn less before it.                  *)
LEMMA PollAhead ==
  ASSUME ExecutorTypeOK,
         \A i \in DOMAIN woken' : i \in Nat /\ i + 1 \in DOMAIN woken /\ woken'[i] = woken[i + 1],
         Rest = 0, Rest' <= LongestTurn, Rest' \in Nat
  PROVE  \A i \in DOMAIN woken' : \E j \in DOMAIN woken :
           woken[j] = woken'[i] /\ Rest' + Ahead(i) <= Rest + Ahead(j)
<1> SUFFICES ASSUME NEW i \in DOMAIN woken'
             PROVE  Rest' + Ahead(i) <= Rest + Ahead(i + 1)
  OBVIOUS
<1>1. i \in Int
  OBVIOUS
<1>2. Ahead(i) \in Int /\ Ahead(i + 1) = Ahead(i) + LongestTurn /\ LongestTurn \in Nat
  BY <1>1, AheadOf, Longest
<1> QED BY <1>2

LEMMA PollStep ==
  ASSUME EInv, NEW s \in Scans, Poll(s)
  PROVE  EInv'
<1>0. /\ ExecutorTypeOK /\ Places /\ Alert /\ Accounted /\ Punctual /\ Rest <= LongestTurn
      /\ now \in Nat /\ busy \in Nat
  BY DEF EInv, Placed, ExecutorTypeOK
<1>1. /\ runner = "none" /\ woken # <<>> /\ s = Head(woken) /\ woken' = Tail(woken)
      /\ now' = now /\ backlog' = backlog
  BY DEF Poll
<1>2. /\ s \in Queued
      /\ woken' \in Seq(Scans)
      /\ \A i \in DOMAIN woken' : i \in Nat /\ i + 1 \in DOMAIN woken /\ woken'[i] = woken[i + 1]
      /\ \A i, j \in DOMAIN woken' : woken'[i] = woken'[j] => i = j
      /\ Queued' = Queued \ {s}
  BY <1>0, <1>1, Pop
<1>3. s \notin backlog /\ (op[s] = 0 \/ InProbe(s))
  BY <1>0, <1>2 DEF Places
<1>4. op[s] \in 0..Len(Program) /\ op[s] # Finished /\ op[s] \in 0..Recording
  BY <1>3, Sizes DEF InProbe
<1>5. busy = 0 /\ Rest = 0
  BY <1>0, <1>1 DEF Places, Rest
<1>6. LongestTurn \in Nat /\ Turn[op[s]] \in Nat /\ Turn[op[s]] <= LongestTurn
  BY <1>4, Longest, TurnDef
<1>7. CASE Proceed(s)
  <2>1. /\ ScansTypeOK' /\ Alone(s)
        /\ op'[s] = op[s] + 1 /\ op'[s] \in 1..Recording
        /\ began'[s] = now /\ held'[s] = 0
        /\ \/ InProbe(s)' /\ Asked(s) /\ runner' = "none" /\ busy' = 0
           \/ ~InProbe(s)' /\ runner' = s /\ busy' + Turn[op'[s]] <= Turn[op[s]]
    BY <1>0, <1>1, <1>4, <1>7, ProceedStep
  <2>2. Rest' \in Nat /\ Rest' <= LongestTurn
    <3>1. CASE runner' = "none"
      BY <1>6, <3>1 DEF Rest
    <3>2. CASE ~InProbe(s)' /\ runner' = s /\ busy' + Turn[op'[s]] <= Turn[op[s]]
      <4>1. op'[s] \in 0..Recording /\ busy' \in Nat
        BY <2>1, Sizes DEF ScansTypeOK
      <4>2. Turn[op'[s]] \in Nat
        BY <4>1, TurnDef
      <4>3. Rest' = busy' + Turn[op'[s]]
        BY <3>2, ExecutorAssumption DEF Rest
      <4> QED BY <1>6, <3>2, <4>1, <4>2, <4>3
    <3> QED BY <2>1, <3>1, <3>2
  <2>3. InProbe(s)' => ~Due(s)' /\ Explained(s)'
    BY <1>0, <1>1, <1>4, <2>1, Begun
  <2>4. IF InProbe(s)' THEN runner' = "none" /\ busy' = 0 ELSE runner' = s
    BY <2>1
  <2>5. \A i \in DOMAIN woken' : \E j \in DOMAIN woken :
          woken[j] = woken'[i] /\ Rest' + Ahead(i) <= Rest + Ahead(j)
    BY <1>0, <1>2, <1>5, <2>2, PollAhead
  <2> QED BY <1>1, <1>2, <1>3, <1>4, <2>1, <2>2, <2>3, <2>4, <2>5, Ran
<1>8. CASE InProbe(s) /\ NextTrip(s)
  <2>1. /\ ScansTypeOK' /\ Alone(s) /\ Asked(s) /\ op' = op /\ began' = began /\ held' = held
        /\ runner' = "none" /\ busy' = 0
    BY <1>0, <1>1, <1>5, <1>8, NextTripStep
  <2>2. Rest' \in Nat /\ Rest' <= LongestTurn
    BY <1>6, <2>1 DEF Rest
  <2>3. /\ Answered(s) /\ ~TimesOut(s) /\ Explained(s)
    BY <1>0, <1>8 DEF NextTrip, Accounted
  <2>4. /\ ready[s] \in Int /\ began[s] \in Nat /\ own[s] \in Nat /\ held[s] \in Nat
        /\ Never \in Int /\ Limit \in Nat /\ ready'[s] \in Int /\ own'[s] \in Nat
    BY <1>0, <2>1, Sizes DEF ExecutorTypeOK, ScansTypeOK
  <2>5. now - began[s] <= own[s] + held[s]
    BY <2>3 DEF Explained, Answered
  <2>6. ~Due(s)'
    BY <1>0, <1>1, <2>1, <2>3, <2>4 DEF Due, TimesOut, TimerOf, Asked
  <2>7. Explained(s)'
    <3>1. \/ ready'[s] = Never /\ own'[s] = Limit
          \/ ready'[s] # Never /\ ready'[s] > now /\ ready'[s] - now = own'[s] - own[s]
      BY <2>1 DEF Asked
    <3>2. ready'[s] # Never => ready'[s] - began[s] <= own'[s] + held[s]
      BY <1>0, <2>4, <2>5, <3>1
    <3>3. ready'[s] # Never => ~(ready'[s] <= now)
      BY <1>0, <2>4, <3>1
    <3> QED BY <1>1, <2>1, <2>4, <3>1, <3>2, <3>3 DEF Explained
  <2>8. InProbe(s)' /\ op'[s] \in 1..Recording
    BY <1>8, <2>1, Sizes DEF InProbe
  <2>9. \A i \in DOMAIN woken' : \E j \in DOMAIN woken :
          woken[j] = woken'[i] /\ Rest' + Ahead(i) <= Rest + Ahead(j)
    BY <1>0, <1>2, <1>5, <2>2, PollAhead
  <2> QED BY <1>1, <1>2, <1>3, <1>4, <2>1, <2>2, <2>6, <2>7, <2>8, <2>9, Ran
<1> QED BY <1>7, <1>8 DEF Poll, ProbeEnds

LEMMA ReturnStep ==
  ASSUME EInv, NEW s \in Scans, Return(s)
  PROVE  EInv'
<1>0. /\ ExecutorTypeOK /\ Places /\ Alert /\ Accounted /\ Punctual /\ Rest <= LongestTurn
      /\ now \in Nat /\ busy \in Nat
  BY DEF EInv, Placed, ExecutorTypeOK
<1>1. /\ runner = s /\ busy = 0 /\ op[s] <= Len(Program) /\ Proceed(s)
      /\ now' = now /\ woken' = woken /\ backlog' = backlog
  BY DEF Return
<1>2. /\ runner # "none" /\ op[s] \in 1..Recording /\ ~InProbe(s) /\ s \notin backlog
  BY <1>0, <1>1, ExecutorAssumption DEF Places
<1>3. op[s] \in 0..Len(Program) /\ op[s] # Finished /\ op[s] \in 0..Recording /\ op[s] # 0
  BY <1>1, <1>2, Sizes
<1>4. s \notin Queued
  BY <1>0, <1>2, <1>3 DEF Places
<1>5. LongestTurn \in Nat /\ Turn[op[s]] \in Nat
  BY <1>3, Longest, TurnDef
<1>6. Rest = Turn[op[s]]
  BY <1>1, <1>2, <1>5 DEF Rest
<1>7. /\ ScansTypeOK' /\ Alone(s)
      /\ op'[s] = op[s] + 1 /\ op'[s] \in 1..Recording
      /\ began'[s] = now /\ held'[s] = 0
      /\ \/ InProbe(s)' /\ Asked(s) /\ runner' = "none" /\ busy' = 0
         \/ ~InProbe(s)' /\ runner' = s /\ busy' + Turn[op'[s]] <= Turn[op[s]]
  BY <1>0, <1>1, <1>3, ProceedStep
<1>8. Rest' \in Nat /\ Rest' <= Rest
  <2>1. CASE runner' = "none"
    BY <1>5, <1>6, <2>1 DEF Rest
  <2>2. CASE ~InProbe(s)' /\ runner' = s /\ busy' + Turn[op'[s]] <= Turn[op[s]]
    <3>1. op'[s] \in 0..Recording /\ busy' \in Nat
      BY <1>7, Sizes DEF ScansTypeOK
    <3>2. Turn[op'[s]] \in Nat
      BY <3>1, TurnDef
    <3>3. Rest' = busy' + Turn[op'[s]]
      BY <2>2, ExecutorAssumption DEF Rest
    <3> QED BY <1>6, <2>2, <3>1, <3>2, <3>3
  <2> QED BY <1>7, <2>1, <2>2
<1>9. InProbe(s)' => ~Due(s)' /\ Explained(s)'
  BY <1>0, <1>1, <1>3, <1>7, Begun
<1>10. \A i \in DOMAIN woken' : \E j \in DOMAIN woken :
         woken[j] = woken'[i] /\ Rest' + Ahead(i) <= Rest + Ahead(j)
  <2> SUFFICES ASSUME NEW i \in DOMAIN woken PROVE Rest' + Ahead(i) <= Rest + Ahead(i)
    BY <1>1
  <2>1. i \in Int
    <3>1. DOMAIN woken = 1..Len(woken) /\ Len(woken) \in Nat
      BY <1>0, LenProperties DEF ExecutorTypeOK
    <3> QED BY <3>1
  <2>2. Ahead(i) \in Int
    BY <2>1, AheadOf
  <2> QED BY <1>5, <1>6, <1>8, <2>2
<1>11. /\ woken' \in Seq(Scans)
       /\ \A i, j \in DOMAIN woken' : woken'[i] = woken'[j] => i = j
       /\ Queued' = Queued \ {s}
  BY <1>0, <1>1, <1>4 DEF ExecutorTypeOK, Queued
<1>12. IF InProbe(s)' THEN runner' = "none" /\ busy' = 0 ELSE runner' = s
  BY <1>7
<1>13. Rest' <= LongestTurn
  BY <1>0, <1>5, <1>6, <1>8
<1> QED BY <1>1, <1>2, <1>3, <1>7, <1>9, <1>10, <1>11, <1>12, <1>13, Ran

LEMMA WrittenStep ==
  ASSUME EInv, NEW s \in Scans, Written(s)
  PROVE  EInv'
<1>0. /\ ExecutorTypeOK /\ Places /\ Alert /\ Accounted /\ Punctual /\ Rest <= LongestTurn
      /\ now \in Nat /\ busy \in Nat /\ Rest \in Nat
  BY RestNat DEF EInv, Placed, ExecutorTypeOK
<1>1. /\ runner = s /\ busy = 0 /\ op[s] = Recording /\ op' = [op EXCEPT ![s] = Finished]
      /\ runner' = "none" /\ now' = now /\ left' = left /\ ready' = ready /\ began' = began
      /\ own' = own /\ held' = held /\ busy' = busy
  BY DEF Written
<1>2. s \notin backlog /\ s \notin Queued /\ s \in Going
  <2>1. op[s] # 0 /\ op[s] # Finished /\ ~InProbe(s)
    BY <1>1, Sizes DEF InProbe
  <2> QED BY <1>0, <1>1, <2>1 DEF Places, Going
<1>3. op' \in [Scans -> 0..Finished] /\ op'[s] = Finished
      /\ \A t \in Scans \ {s} : op'[t] = op[t]
  BY <1>0, <1>1, Sizes DEF ExecutorTypeOK
<1>4. /\ \A t \in Scans : InProbe(t)' <=> InProbe(t)
      /\ \A t \in Scans : /\ (Due(t)' <=> Due(t)) /\ TimerOf(t)' = TimerOf(t)
                          /\ (Explained(t)' <=> Explained(t))
  <2>1. ~InProbe(s) /\ ~InProbe(s)'
    BY <1>1, <1>3, Sizes DEF InProbe
  <2>2. \A t \in Scans : InProbe(t)' <=> InProbe(t)
    BY <1>3, <2>1 DEF InProbe
  <2> QED BY <1>1, <2>2 DEF Due, TimerOf, Explained
<1>5. IsFiniteSet(Going) /\ Cardinality(Going) \in Nat /\ Cardinality(Going) <= Cap
  BY <1>0, FS_Subset, FS_CardinalityType, ExecutorAssumption DEF Going, Places
<1>6. IsFiniteSet(Going \ {s}) /\ Cardinality(Going \ {s}) = Cardinality(Going) - 1
  BY <1>2, <1>5, FS_RemoveElement
<1>7. /\ backlog' \in SUBSET backlog
      /\ woken' \in Seq(Scans)
      /\ \A i, j \in DOMAIN woken' : woken'[i] = woken'[j] => i = j
      /\ \A i \in DOMAIN woken' : \/ i \in DOMAIN woken /\ woken'[i] = woken[i]
                                  \/ op[woken'[i]] = 0 /\ woken'[i] \in backlog
      /\ Queued' = Queued \union (backlog \ backlog')
      /\ Cardinality(Going') <= Cap
  <2>1. CASE backlog = {}
    <3>1. woken' = woken /\ backlog' = backlog
      BY <2>1 DEF Written, Replace
    <3>2. Going' = Going \ {s}
      BY <1>3, <2>1, <3>1 DEF Going
    <3>3. Queued' = Queued
      BY <3>1 DEF Queued
    <3>4. Cardinality(Going') <= Cap
      BY <1>5, <1>6, <3>2, Sizes
    <3> QED BY <1>0, <3>1, <3>3, <3>4 DEF ExecutorTypeOK
  <2>2. CASE backlog # {}
    <3>1. PICK t \in backlog : woken' = Append(woken, t) /\ backlog' = backlog \ {t}
      BY <2>2 DEF Written, Replace
    <3>2. t \in Scans /\ t \notin Queued /\ op[t] = 0 /\ t # s
      BY <1>0, <1>2, <3>1 DEF ExecutorTypeOK, Places
    <3>3. /\ woken' \in Seq(Scans)
          /\ \A i, j \in DOMAIN woken' : woken'[i] = woken'[j] => i = j
          /\ \A i \in DOMAIN woken' : (i \in DOMAIN woken /\ woken'[i] = woken[i]) \/ woken'[i] = t
          /\ Queued' = Queued \union {t}
      BY <1>0, <3>1, <3>2, Put
    <3>9. Going' \subseteq (Going \ {s}) \union {t}
      BY <1>3, <3>1 DEF Going
    <3>10. /\ IsFiniteSet((Going \ {s}) \union {t})
           /\ Cardinality((Going \ {s}) \union {t}) <= Cardinality(Going)
      <4>1. Cardinality(Going \ {s}) \in Nat
        BY <1>6, FS_CardinalityType
      <4>2. /\ IsFiniteSet((Going \ {s}) \union {t})
            /\ Cardinality((Going \ {s}) \union {t}) =
                 IF t \in Going \ {s} THEN Cardinality(Going \ {s}) ELSE Cardinality(Going \ {s}) + 1
        BY <1>6, FS_AddElement
      <4> QED BY <1>5, <1>6, <4>1, <4>2
    <3>11. Cardinality(Going') <= Cap
      <4> DEFINE G == (Going \ {s}) \union {t}
      <4>1. Cardinality(G) \in Nat
        BY <3>10, FS_CardinalityType
      <4>2. Cardinality(Going') \in Nat /\ Cardinality(Going') <= Cardinality(G)
        BY <3>9, <3>10, FS_Subset, FS_CardinalityType
      <4> HIDE DEF G
      <4>3. Cardinality(G) <= Cardinality(Going)
        BY <3>10 DEF G
      <4> QED BY <1>5, <4>1, <4>2, <4>3, Sizes
    <3> QED BY <3>1, <3>2, <3>3, <3>11
  <2> QED BY <2>1, <2>2
<1>8. ExecutorTypeOK'
  BY <1>0, <1>1, <1>3, <1>7 DEF ExecutorTypeOK
<1>9. Places'
  <2>1. \A t \in backlog' : op'[t] = 0
    BY <1>0, <1>2, <1>3, <1>7 DEF Places, ExecutorTypeOK
  <2>2. \A t \in Queued' : t \notin backlog' /\ (op'[t] = 0 \/ InProbe(t)')
    <3> SUFFICES ASSUME NEW t \in Queued' PROVE t \notin backlog' /\ (op'[t] = 0 \/ InProbe(t)')
      OBVIOUS
    <3>1. CASE t \in Queued
      <4>1. t \in Scans
        BY <1>0, <3>1, ElementOfSeq, LenProperties DEF Queued, ExecutorTypeOK
      <4> QED BY <1>0, <1>2, <1>3, <1>4, <1>7, <3>1, <4>1 DEF Places
    <3>2. CASE t \in backlog \ backlog'
      BY <1>0, <1>2, <1>3, <3>2 DEF Places, ExecutorTypeOK
    <3> QED BY <1>7, <3>1, <3>2
  <2>3. ~(busy' > 0) /\ runner' = "none"
    BY <1>1
  <2> QED BY <1>7, <2>1, <2>2, <2>3 DEF Places
<1>10. Alert'
  BY <1>0, <1>4, <1>7 DEF Alert
<1>11. Accounted'
  BY <1>0, <1>4 DEF Accounted
<1>12. Rest' = 0
  BY <1>1 DEF Rest
<1>13. Punctual'
  <2> SUFFICES ASSUME NEW t \in Scans, NEW i \in DOMAIN woken',
                      InProbe(t)', TimerOf(t)' <= now', woken'[i] = t
               PROVE  now' + Rest' + Ahead(i) <= TimerOf(t)' + Ahead(Cap)
    BY DEF Punctual
  <2>1. InProbe(t) /\ op[t] # 0 /\ TimerOf(t) <= now
    <3>1. InProbe(t)
      BY <1>4
    <3> QED BY <1>1, <1>4, <3>1, Sizes DEF InProbe
  <2>2. i \in DOMAIN woken /\ woken[i] = t
    BY <1>7, <2>1
  <2>3. now + Rest + Ahead(i) <= TimerOf(t) + Ahead(Cap)
    BY <1>0, <2>1, <2>2 DEF Punctual
  <2>4. i \in Int
    <3>1. DOMAIN woken = 1..Len(woken) /\ Len(woken) \in Nat
      BY <1>0, LenProperties DEF ExecutorTypeOK
    <3> QED BY <2>2, <3>1
  <2>5. Ahead(i) \in Int /\ Ahead(Cap) \in Int
    <3>1. Cap \in Int
      BY Sizes
    <3> QED BY <2>4, <3>1, AheadOf
  <2>6. TimerOf(t) \in Int
    BY <1>0, TimerInt
  <2> QED BY <1>0, <1>1, <1>4, <1>12, <2>3, <2>5, <2>6
<1> QED BY <1>8, <1>9, <1>10, <1>11, <1>12, <1>13, Longest DEF EInv, Placed

LEMMA NextEInv == EInv /\ [ExecutorNext]_executor => EInv'
<1> SUFFICES ASSUME EInv, [ExecutorNext]_executor PROVE EInv'
  OBVIOUS
<1>1. CASE Tick
  BY <1>1, TickStep
<1>2. CASE Work
  BY <1>2, PollStep, ReturnStep, WrittenStep DEF Work
<1>3. CASE UNCHANGED executor
  <2>1. /\ now' = now /\ op' = op /\ left' = left /\ ready' = ready /\ began' = began
        /\ own' = own /\ held' = held /\ woken' = woken /\ runner' = runner /\ busy' = busy
        /\ backlog' = backlog
    BY <1>3 DEF executor
  <2>2. ExecutorTypeOK' /\ (Rest <= LongestTurn)'
    BY <2>1 DEF EInv, Placed, ExecutorTypeOK, Rest
  <2>3. Places' /\ Alert'
    BY <2>1 DEF EInv, Placed, Places, Alert, Going, Queued, InProbe, Due, TimerOf
  <2>4. Accounted' /\ Punctual'
    BY <2>1 DEF EInv, Accounted, Punctual, Explained, InProbe, TimerOf, Rest
  <2> QED BY <2>2, <2>3, <2>4 DEF EInv, Placed
<1> QED BY <1>1, <1>2, <1>3 DEF ExecutorNext

THEOREM ExecutorInvariance == ExecutorSpec => []EInv
<1> QED BY InitEInv, NextEInv, PTL DEF ExecutorSpec

(* The executor's state is well-typed, and no scan is queued twice: a scan *)
(* that is woken while it is in FuturesUnordered's ready queue is not put  *)
(* there again.                                                            *)
THEOREM ExecutorTypeCorrect == ExecutorSpec => []ExecutorTypeOK
<1>1. EInv => ExecutorTypeOK
  BY DEF EInv, Placed
<1> QED BY <1>1, ExecutorInvariance, PTL

(* However many targets, whatever the program of a scan, --concurrency and *)
(* the limit, and whenever servers answer: a probe whose timer has gone off*)
(* waits for one turn of each other scan in flight at most.                *)
THEOREM LateAtMostATurnEach == ExecutorSpec => []BoundedLateness
<1>1. EInv => BoundedLateness
  <2> SUFFICES ASSUME EInv, NEW s \in Scans, InProbe(s)
               PROVE  now <= TimerOf(s) + (Cap - 1) * LongestTurn
    BY DEF BoundedLateness
  <2>0. /\ ExecutorTypeOK /\ Places /\ Alert /\ Punctual /\ now \in Nat /\ Rest \in Nat
    BY RestNat DEF EInv, Placed, ExecutorTypeOK
  <2>1. /\ TimerOf(s) \in Int /\ 1 \in Nat /\ Cap \in Nat /\ 1 <= Cap
    <3>1. TimerOf(s) \in Int
      BY <2>0, TimerInt
    <3>2. Cap \in Nat /\ Cap > 0
      BY Sizes
    <3> QED BY <3>1, <3>2
  <2>2. /\ Ahead(1) = 0 /\ Ahead(Cap) \in Int
        /\ \A i, j \in Nat : i <= j => Ahead(i) <= Ahead(j)
    <3>1. Cap \in Int
      BY <2>1
    <3> QED BY <3>1, AheadOf
  <2>3. now <= TimerOf(s) + Ahead(Cap)
    <3>1. CASE TimerOf(s) <= now
      <4>1. s \in Queued
        BY <2>0, <3>1 DEF Alert, Due
      <4>2. PICK i \in DOMAIN woken : woken[i] = s
        BY <4>1 DEF Queued
      <4>3. i \in Nat /\ 1 <= i
        <5>1. DOMAIN woken = 1..Len(woken) /\ Len(woken) \in Nat
          BY <2>0, LenProperties DEF ExecutorTypeOK
        <5> QED BY <5>1
      <4>4. now + Rest + Ahead(i) <= TimerOf(s) + Ahead(Cap)
        BY <2>0, <3>1, <4>2 DEF Punctual
      <4>5. Ahead(i) \in Int /\ 0 <= Ahead(i)
        <5>1. i \in Int
          BY <4>3
        <5>2. Ahead(i) \in Int
          BY <5>1, AheadOf
        <5> QED BY <2>1, <2>2, <4>3, <5>2
      <4> QED BY <2>0, <2>1, <2>2, <4>4, <4>5
    <3>2. CASE ~(TimerOf(s) <= now)
      <4>1. 0 <= Ahead(Cap)
        BY <2>1, <2>2
      <4> QED BY <2>0, <2>1, <2>2, <3>2, <4>1
    <3> QED BY <3>1, <3>2
  <2> QED BY <2>3 DEF Ahead
<1> QED BY <1>1, ExecutorInvariance, PTL

(* And it gives up for no other reason than time: what its server took and *)
(* what other scans took the thread for make up its limit.                 *)
THEOREM TimeoutsAreExplained == ExecutorSpec => TimeoutHasCause
<1> DEFINE A == \A s \in Scans : InProbe(s) /\ op'[s] # op[s] /\ ~(Answered(s) /\ left[s] = 1) =>
                  own[s] + held[s] >= Limit
<1>1. EInv /\ [ExecutorNext]_executor => [A]_executor
  <2> SUFFICES ASSUME EInv, ExecutorNext, NEW s \in Scans,
                      InProbe(s), op'[s] # op[s], ~(Answered(s) /\ left[s] = 1)
               PROVE  own[s] + held[s] >= Limit
    OBVIOUS
  <2>0. /\ ExecutorTypeOK /\ Places /\ Accounted /\ now \in Nat
    BY DEF EInv, Placed, ExecutorTypeOK
  <2>1. PICK t \in Scans : Poll(t) \/ Return(t) \/ Written(t)
    BY DEF ExecutorNext, Tick, Work
  <2>2. \A r \in Scans \ {t} : op'[r] = op[r]
    BY <2>0, <2>1 DEF Poll, Return, Written, Proceed, NextTrip, ProbeEnds, ExecutorTypeOK
  <2>3. t = s
    BY <2>2
  <2>4. Poll(s)
    <3>1. runner # s
      BY <2>0, ExecutorAssumption DEF Places
    <3> QED BY <2>1, <2>3, <3>1 DEF Return, Written
  <2>5. TimesOut(s)
    <3>1. op[s] # 0
      BY Sizes DEF InProbe
    <3>2. ~NextTrip(s)
      BY DEF NextTrip
    <3> QED BY <2>4, <3>1, <3>2 DEF Poll, ProbeEnds
  <2>6. /\ ready[s] \in Int /\ began[s] \in Nat /\ own[s] \in Nat /\ held[s] \in Nat
        /\ Limit \in Nat /\ Explained(s)
    BY <2>0, Sizes DEF ExecutorTypeOK, Accounted
  <2>7. began[s] + Limit <= now
    BY <2>5 DEF TimesOut, TimerOf
  <2>8. CASE ready[s] = Never
    BY <2>6, <2>8 DEF Explained
  <2>9. CASE ready[s] # Never
    BY <2>0, <2>6, <2>7, <2>9 DEF Explained
  <2> QED BY <2>8, <2>9
<1>2. ExecutorSpec => [][A]_executor
  BY <1>1, ExecutorInvariance, PTL DEF ExecutorSpec
<1> QED BY <1>2 DEF TimeoutHasCause

(* Where a scan under way is, timers aside.                                *)
Attended == \A s \in Going : s \in Queued \/ runner = s \/ InProbe(s)
Filled == backlog # {} => Cardinality(Going) = Cap

LEMMA InitFilled == ExecutorInit => Attended /\ Filled
<1> SUFFICES ASSUME ExecutorInit PROVE Attended /\ Filled
  OBVIOUS
<1>1. PICK first \in SUBSET Scans :
        /\ Cardinality(first) = IF Cap < Cardinality(Scans) THEN Cap ELSE Cardinality(Scans)
        /\ woken \in Orders(first)
        /\ backlog = Scans \ first
  BY DEF ExecutorInit
<1>2. Queued = first
  BY <1>1, OrdersList DEF Queued
<1>3. Going = first
  BY <1>1, Sizes DEF Going, ExecutorInit
<1>4. Filled
  <2> SUFFICES ASSUME first # Scans PROVE Cardinality(first) = Cap
    BY <1>1, <1>3 DEF Filled
  <2>1. IsFiniteSet(Scans) /\ Cardinality(Scans) \in Nat
    BY FS_CardinalityType, ExecutorAssumption
  <2>2. Cardinality(first) # Cardinality(Scans)
    BY <2>1, FS_Subset
  <2> QED BY <1>1, <2>2
<1> QED BY <1>2, <1>3, <1>4 DEF Attended

(* The scan that has run is in a probe or goes on running; no other moves. *)
LEMMA AttendedRan ==
  ASSUME EInv, Attended, Filled, NEW s \in Scans, op[s] # Finished, s \notin backlog,
         runner \in {s, "none"}, backlog' = backlog, Queued \ {s} \subseteq Queued',
         op'[s] \in 1..Recording, \A t \in Scans \ {s} : op'[t] = op[t],
         InProbe(s)' \/ runner' = s
  PROVE  Attended' /\ Filled'
<1>1. Going' = Going
  BY Sizes DEF Going
<1>2. ASSUME NEW t \in Going PROVE t \in Queued' \/ runner' = t \/ InProbe(t)'
  <2>1. CASE t = s
    BY <2>1
  <2>2. CASE t # s
    <3>1. t \in Scans /\ t # "none"
      BY ExecutorAssumption DEF Going
    <3>2. t \in Queued \/ InProbe(t)
      BY <2>2, <3>1 DEF Attended
    <3> QED BY <2>2, <3>1, <3>2 DEF InProbe
  <2> QED BY <2>1, <2>2
<1> QED BY <1>1, <1>2 DEF Attended, Filled

LEMMA AttendedPoll ==
  ASSUME EInv, Attended, Filled, NEW s \in Scans, Poll(s)
  PROVE  Attended' /\ Filled'
<1>0. ExecutorTypeOK /\ Places
  BY DEF EInv, Placed
<1>1. /\ runner = "none" /\ woken # <<>> /\ s = Head(woken) /\ woken' = Tail(woken)
      /\ now' = now /\ backlog' = backlog
  BY DEF Poll
<1>2. s \in Queued /\ Queued' = Queued \ {s}
  BY <1>0, <1>1, Pop
<1>3. s \notin backlog /\ (op[s] = 0 \/ InProbe(s))
  BY <1>0, <1>2 DEF Places
<1>4. op[s] \in 0..Len(Program) /\ op[s] # Finished
  BY <1>3, Sizes DEF InProbe
<1>5. CASE Proceed(s)
  <2>1. /\ Alone(s) /\ op'[s] \in 1..Recording
        /\ InProbe(s)' \/ runner' = s
    BY <1>0, <1>1, <1>4, <1>5, ProceedStep
  <2> QED BY <1>1, <1>2, <1>3, <1>4, <2>1, AttendedRan DEF Alone
<1>6. CASE InProbe(s) /\ NextTrip(s)
  <2>1. op' = op /\ InProbe(s)' /\ op'[s] \in 1..Recording
    BY <1>6, Sizes DEF NextTrip, InProbe
  <2> QED BY <1>1, <1>2, <1>3, <1>4, <2>1, AttendedRan
<1> QED BY <1>5, <1>6 DEF Poll, ProbeEnds

LEMMA AttendedReturn ==
  ASSUME EInv, Attended, Filled, NEW s \in Scans, Return(s)
  PROVE  Attended' /\ Filled'
<1>0. ExecutorTypeOK /\ Places
  BY DEF EInv, Placed
<1>1. /\ runner = s /\ op[s] <= Len(Program) /\ Proceed(s)
      /\ now' = now /\ woken' = woken /\ backlog' = backlog
  BY DEF Return
<1>2. op[s] \in 1..Recording /\ s \notin backlog
  BY <1>0, <1>1, ExecutorAssumption DEF Places
<1>3. op[s] \in 0..Len(Program) /\ op[s] # Finished
  BY <1>1, <1>2, Sizes
<1>4. /\ Alone(s) /\ op'[s] \in 1..Recording
      /\ InProbe(s)' \/ runner' = s
  BY <1>0, <1>1, <1>3, ProceedStep
<1>5. Queued' = Queued
  BY <1>1 DEF Queued
<1> QED BY <1>1, <1>2, <1>3, <1>4, <1>5, AttendedRan DEF Alone

LEMMA AttendedWritten ==
  ASSUME EInv, Attended, Filled, NEW s \in Scans, Written(s)
  PROVE  Attended' /\ Filled'
<1>0. ExecutorTypeOK /\ Places
  BY DEF EInv, Placed
<1>1. runner = s /\ op[s] = Recording /\ op' = [op EXCEPT ![s] = Finished]
  BY DEF Written
<1>2. op'[s] = Finished /\ \A t \in Scans \ {s} : op'[t] = op[t]
  BY <1>0, <1>1 DEF ExecutorTypeOK
<1>3. s \in Going /\ \A t \in backlog : t \in Scans /\ t # s /\ t \notin Going /\ op[t] = 0 /\ t \notin Queued
  BY <1>0, <1>1, Sizes DEF Places, Going, ExecutorTypeOK
<1>4. \A t \in Going \ {s} : t \in Queued \/ InProbe(t)'
  <2> SUFFICES ASSUME NEW t \in Going \ {s} PROVE t \in Queued \/ InProbe(t)'
    OBVIOUS
  <2>1. t \in Scans /\ (t \in Queued \/ InProbe(t))
    BY <1>1 DEF Attended, Going
  <2> QED BY <1>2, <2>1 DEF InProbe
<1>5. CASE backlog = {}
  <2>1. woken' = woken /\ backlog' = {}
    BY <1>5 DEF Written, Replace
  <2>2. Going' = Going \ {s} /\ Queued' = Queued
    BY <1>2, <1>5, <2>1 DEF Going, Queued
  <2> QED BY <1>4, <2>1, <2>2 DEF Attended, Filled
<1>6. CASE backlog # {}
  <2>1. PICK t \in backlog : woken' = Append(woken, t) /\ backlog' = backlog \ {t}
    BY <1>6 DEF Written, Replace
  <2>2. Queued' = Queued \union {t}
    BY <1>0, <1>3, <2>1, Put
  <2>3. Going' = (Going \ {s}) \union {t}
    BY <1>2, <1>3, <2>1, Sizes DEF Going
  <2>4. Cardinality(Going') = Cap
    <3>1. IsFiniteSet(Going) /\ Cardinality(Going) = Cap
      BY <1>6, FS_Subset, ExecutorAssumption DEF Going, Filled
    <3>2. IsFiniteSet(Going \ {s}) /\ Cardinality(Going \ {s}) = Cardinality(Going) - 1
      BY <1>3, <3>1, FS_RemoveElement
    <3>3. t \notin Going \ {s}
      BY <1>3
    <3>4. Cardinality((Going \ {s}) \union {t}) = Cardinality(Going \ {s}) + 1
      BY <3>2, <3>3, FS_AddElement
    <3> QED BY <2>3, <3>1, <3>2, <3>4, Sizes
  <2> QED BY <1>4, <2>2, <2>3, <2>4 DEF Attended, Filled
<1> QED BY <1>5, <1>6

LEMMA NextAttended ==
  EInv /\ Attended /\ Filled /\ [ExecutorNext]_executor => Attended' /\ Filled'
<1> SUFFICES ASSUME EInv, Attended, Filled, [ExecutorNext]_executor PROVE Attended' /\ Filled'
  OBVIOUS
<1>1. CASE Tick
  <2>1. op' = op /\ runner' = runner /\ backlog' = backlog
    BY <1>1 DEF Tick
  <2>2. Queued \subseteq Queued'
    <3> DEFINE S == {s \in Scans \ Queued : Due(s)'}
    <3>1. PICK more \in Orders(S) : woken' = woken \o more
      BY <1>1 DEF Tick, Wake
    <3>2. ExecutorTypeOK /\ S \in SUBSET (Scans \ Queued)
      BY DEF EInv, Placed
    <3> HIDE DEF S
    <3> QED BY <3>1, <3>2, Push
  <2> QED BY <2>1, <2>2 DEF Attended, Filled, Going, InProbe
<1>2. CASE Work
  BY <1>2, AttendedPoll, AttendedReturn, AttendedWritten DEF Work
<1>3. CASE UNCHANGED executor
  BY <1>3 DEF executor, Attended, Filled, Going, InProbe, Queued
<1> QED BY <1>1, <1>2, <1>3 DEF ExecutorNext

(* However scans are polled, and however many there are: none that is under*)
(* way is left without a place in the queue, the thread or a timer ahead of*)
(* it, and none waits to be started while fewer are under way than may be. *)
THEOREM NoScanForgotten == ExecutorSpec => []NobodyForgotten
<1>1. ExecutorSpec => [](Attended /\ Filled)
  BY InitFilled, NextAttended, ExecutorInvariance, PTL DEF ExecutorSpec
<1>2. EInv /\ Attended /\ Filled => NobodyForgotten
  <2> SUFFICES ASSUME EInv, Attended, Filled, NEW s \in Going,
                      s \notin Queued, runner # s
               PROVE  InProbe(s) /\ now < TimerOf(s)
    BY DEF NobodyForgotten, Filled
  <2>1. s \in Scans /\ InProbe(s)
    BY DEF Attended, Going
  <2>2. ~(TimerOf(s) <= now)
    BY <2>1 DEF EInv, Placed, Alert, Due
  <2>3. now \in Nat /\ TimerOf(s) \in Int
    <3>1. ExecutorTypeOK
      BY DEF EInv, Placed
    <3> QED BY <2>1, <3>1, TimerInt DEF ExecutorTypeOK
  <2> QED BY <2>1, <2>2, <2>3
<1> QED BY <1>1, <1>2, ExecutorInvariance, PTL

=============================================================================
