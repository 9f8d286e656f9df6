-------------------------- MODULE EnumerationProofs --------------------------
(***************************************************************************)
(* What Enumeration.tla promises for menus of any size, any budget that is *)
(* not below it, any set of backends and any number of lost handshakes.    *)
(***************************************************************************)
EXTENDS Enumeration, FiniteSetTheorems, TLAPS

(* A loop under way: what is not offered any more has been accepted, at one*)
(* handshake each.                                                         *)
LoopInv ==
  pc \in Loops =>
    /\ remaining \subseteq MenuOf(pc)
    /\ accepted \subseteq Anywhere
    /\ budget <= BudgetOf(pc)
    /\ ~Stubborn =>
         /\ remaining \union accepted = MenuOf(pc)
         /\ remaining \intersect accepted = {}
         /\ Cardinality(accepted) = BudgetOf(pc) - budget

(* Between the loops, the second forward loop is already laid out.         *)
LaidOut == pc \in Hellos => remaining = Menu12 /\ accepted = {} /\ budget = Budget12

(* An enumeration lists suites of its own menu.                            *)
OfMenu == ~Stubborn => \A loop \in Loops : result[loop].suites \subseteq MenuOf(loop)

(* An answer to a hello is a backend's pick.                               *)
PicksInv ==
  \A hello \in Hellos :
    picks[hello] # NoSuite =>
      \E b \in pool : picks[hello] \in PicksOf(b, Menu12, PositionIn(hello))

(* The inductive invariant.                                                *)
IInv ==
  /\ TypeOK
  /\ LoopInv
  /\ LaidOut
  /\ OfMenu
  /\ PicksInv
  /\ BetweenSomeAndAll
  /\ FewHandshakes

(* Menus are finite and fit their budgets.                                 *)
LEMMA MenuFacts ==
  \A loop \in Loops :
    /\ IsFiniteSet(MenuOf(loop))
    /\ MenuOf(loop) \subseteq Menu
    /\ BudgetOf(loop) \in Nat
    /\ Cardinality(MenuOf(loop)) \in Nat
    /\ Cardinality(MenuOf(loop)) <= BudgetOf(loop)
  BY EnumerationAssumption, FS_CardinalityType DEF MenuOf, BudgetOf, Menu

(* Backends are what they should be.                                       *)
LEMMA PoolFacts ==
  TypeOK => /\ pool # {}
            /\ \A b \in pool : b \in Backend /\ Injective(b.rank)
  BY EnumerationAssumption DEF TypeOK

(* A pick is one of the backend's suites; offered, unless it is stubborn.  *)
LEMMA PicksFacts ==
  ASSUME NEW b \in Backend, NEW offer, NEW position, NEW s \in PicksOf(b, offer, position)
  PROVE  s \in b.suites /\ (b.order # "stubborn" => s \in offer)
  BY DEF PicksOf, First, Acceptable, Backend

(* An answer is a pick, or no suite, refused by a backend or lost.         *)
LEMMA AnswerFacts ==
  ASSUME NEW offer, NEW position, NEW lost \in BOOLEAN, NEW a \in Answers(offer, position, lost)
  PROVE  \/ ~lost /\ \E b \in pool : a \in PicksOf(b, offer, position)
         \/ ~lost /\ a = NoSuite /\ \E b \in pool : Acceptable(b, offer) = {}
         \/ lost /\ a = NoSuite
  BY DEF Answers

-----------------------------------------------------------------------------
(* The first states satisfy the invariant.                                 *)
LEMMA InitIInv == Init => IInv
<1> SUFFICES ASSUME Init PROVE IInv
  OBVIOUS
<1>1. pc \in Loops
  BY DEF Init, Loops
<1>2. TypeOK
  <2>1. result \in [Loops -> [suites: SUBSET Menu, how: {"pending", "clean", "lost"},
                              handshakes: Nat]]
    BY DEF Init, Pending
  <2> QED BY <1>1, <2>1, MenuFacts, EnumerationAssumption DEF Init, TypeOK
<1>3. LoopInv
  <2>1. Cardinality(accepted) = 0
    BY FS_EmptySet DEF Init
  <2> QED BY <1>1, <2>1, MenuFacts DEF Init, LoopInv
<1>4. OfMenu /\ BetweenSomeAndAll
  BY DEF Init, Pending, OfMenu, BetweenSomeAndAll
<1>5. FewHandshakes
  <2>1. \A loop \in Loops : result[loop].suites = {} /\ result[loop].handshakes = 0
    BY DEF Init, Pending
  <2>2. Cardinality({}) = 0
    BY FS_EmptySet
  <2>3. \A loop \in Loops : result[loop].handshakes <= BudgetOf(loop)
    BY <2>1, MenuFacts
  <2>4. \A loop \in Loops : result[loop].handshakes <= Cardinality(result[loop].suites) + 1
    <3> TAKE loop \in Loops
    <3>1. Cardinality(result[loop].suites) = 0
      BY <2>1, <2>2, Zenon
    <3> QED BY <2>1, <3>1
  <2> QED BY <2>3, <2>4 DEF FewHandshakes
<1>6. LaidOut /\ PicksInv
  BY <1>1 DEF Init, LaidOut, PicksInv, Loops, Hellos
<1> QED BY <1>2, <1>3, <1>4, <1>5, <1>6 DEF IInv

(* Leaving a loop with a sound list starts the next step in a good state.  *)
LEMMA LeaveKeeps ==
  ASSUME IInv, pc \in Loops, pool' = pool, picks' = picks, faults' \in 0..MaxFaults,
         NEW how \in {"clean", "lost"}, NEW h \in Nat, Leave(how, h),
         h <= BudgetOf(pc), ~Stubborn => h <= Cardinality(accepted) + 1,
         how = "clean" /\ ~Stubborn => Everywhere \intersect MenuOf(pc) \subseteq accepted
  PROVE  IInv'
<1>1. TypeOK /\ LoopInv /\ OfMenu /\ PicksInv /\ BetweenSomeAndAll /\ FewHandshakes
  BY DEF IInv
<1> DEFINE r == [suites |-> accepted, how |-> how, handshakes |-> h]
<1>2. /\ result' = [result EXCEPT ![pc] = r]
      /\ pc' = After(pc) /\ remaining' = Menu12 /\ accepted' = {} /\ budget' = BudgetOf(pc')
  BY DEF Leave
<1>3. pc' \in {"first", "forward", "done"} /\ pc' # "tls13" /\ BudgetOf(pc') = Budget12
  BY <1>2 DEF After, Loops, BudgetOf
<1>4. r \in [suites: SUBSET Menu, how: {"pending", "clean", "lost"}, handshakes: Nat]
  BY <1>1 DEF TypeOK
<1>5. result' \in [Loops -> [suites: SUBSET Menu, how: {"pending", "clean", "lost"},
                             handshakes: Nat]]
  BY <1>1, <1>2, <1>4 DEF TypeOK
<1>6. result'[pc] = r /\ \A loop \in Loops \ {pc} : result'[loop] = result[loop]
  BY <1>1, <1>2 DEF TypeOK
<1>7. TypeOK'
  BY <1>1, <1>2, <1>3, <1>5, EnumerationAssumption DEF TypeOK, Loops, Hellos, Menu
<1>8. Stubborn' = Stubborn /\ Anywhere' = Anywhere /\ Everywhere' = Everywhere
  BY DEF Stubborn, Anywhere, Everywhere
<1>9. LoopInv'
  <2> SUFFICES ASSUME pc' \in Loops PROVE LoopInv'
    BY DEF LoopInv
  <2>1. MenuOf(pc') = Menu12
    BY <1>3 DEF MenuOf
  <2>2. Cardinality(accepted') = BudgetOf(pc') - budget'
    BY <1>2, <1>3, FS_EmptySet, EnumerationAssumption
  <2> QED BY <1>2, <1>3, <2>1, <2>2, EnumerationAssumption DEF LoopInv
<1>10. OfMenu'
  <2> SUFFICES ASSUME ~Stubborn, NEW loop \in Loops
               PROVE  result'[loop].suites \subseteq MenuOf(loop)
    BY <1>8 DEF OfMenu
  <2>1. CASE loop = pc
    BY <1>1, <1>6, <2>1 DEF LoopInv
  <2>2. CASE loop # pc
    BY <1>1, <1>6, <2>2 DEF OfMenu
  <2> QED BY <2>1, <2>2
<1>11. PicksInv'
  BY <1>1 DEF PicksInv
<1>12. BetweenSomeAndAll'
  <2> SUFFICES ASSUME NEW loop \in Loops, result'[loop].how # "pending"
               PROVE  /\ result'[loop].suites \subseteq Anywhere
                      /\ result'[loop].how = "clean" /\ ~Stubborn =>
                           Everywhere \intersect MenuOf(loop) \subseteq result'[loop].suites
    BY <1>8 DEF BetweenSomeAndAll
  <2>1. CASE loop = pc
    BY <1>1, <1>6, <2>1 DEF LoopInv
  <2>2. CASE loop # pc
    BY <1>1, <1>6, <2>2 DEF BetweenSomeAndAll
  <2> QED BY <2>1, <2>2
<1>13. FewHandshakes'
  <2> SUFFICES ASSUME NEW loop \in Loops
               PROVE  /\ result'[loop].handshakes <= BudgetOf(loop)
                      /\ ~Stubborn => result'[loop].handshakes <=
                                        Cardinality(result'[loop].suites) + 1
    BY <1>8 DEF FewHandshakes
  <2>1. CASE loop = pc
    BY <1>6, <2>1
  <2>2. CASE loop # pc
    BY <1>1, <1>6, <2>2 DEF FewHandshakes
  <2> QED BY <2>1, <2>2
<1>14. LaidOut'
  BY <1>2, <1>3 DEF LaidOut
<1> QED BY <1>7, <1>9, <1>10, <1>11, <1>12, <1>13, <1>14 DEF IInv

(* A suite that was picked moves from what is offered to what is accepted. *)
LEMMA RetainKeeps ==
  ASSUME IInv, pc \in Loops, MayTry, UNCHANGED <<pool, pc, result, picks>>,
         faults' \in 0..MaxFaults,
         NEW b \in pool, NEW s \in b.suites,
         b.order # "stubborn" => s \in remaining,
         accepted' = accepted \union {s}, remaining' = Retain(s), budget' = Spend
  PROVE  IInv'
<1>1. TypeOK /\ LoopInv /\ LaidOut /\ OfMenu /\ PicksInv /\ BetweenSomeAndAll /\ FewHandshakes
  BY DEF IInv
<1>2. b.suites \subseteq Menu
  BY <1>1, PoolFacts DEF Backend
<1>3. Stubborn' = Stubborn /\ Anywhere' = Anywhere /\ Everywhere' = Everywhere
  BY DEF Stubborn, Anywhere, Everywhere
<1>4. budget \in Nat /\ budget > 0 /\ budget' = budget - 1
  BY <1>1 DEF TypeOK, MayTry, Spend
<1>5. TypeOK'
  BY <1>1, <1>2, <1>4 DEF TypeOK, Retain
<1>6. LoopInv'
  <2>1. remaining' \subseteq MenuOf(pc) /\ accepted' \subseteq Anywhere
    BY <1>1 DEF LoopInv, Retain, Anywhere
  <2>2. budget' <= BudgetOf(pc)
    BY <1>1, <1>4, MenuFacts DEF LoopInv
  <2>3. ASSUME ~Stubborn
        PROVE  /\ remaining' \union accepted' = MenuOf(pc)
               /\ remaining' \intersect accepted' = {}
               /\ Cardinality(accepted') = BudgetOf(pc) - budget'
    <3>1. /\ remaining \union accepted = MenuOf(pc) /\ remaining \intersect accepted = {}
          /\ Cardinality(accepted) = BudgetOf(pc) - budget
      BY <1>1, <2>3 DEF LoopInv
    <3>2. s \in remaining
      BY <2>3 DEF Stubborn
    <3>3. IsFiniteSet(accepted)
      BY <3>1, MenuFacts, FS_Subset
    <3>4. Cardinality(accepted \union {s}) = Cardinality(accepted) + 1
      BY <3>1, <3>2, <3>3, FS_AddElement
    <3>5. Cardinality(accepted') = BudgetOf(pc) - budget'
      BY <1>4, <3>1, <3>4, MenuFacts
    <3> QED BY <3>1, <3>2, <3>5 DEF Retain
  <2> QED BY <1>3, <2>1, <2>2, <2>3 DEF LoopInv
<1>7. LaidOut'
  BY DEF LaidOut, Loops, Hellos
<1>8. OfMenu' /\ PicksInv' /\ BetweenSomeAndAll' /\ FewHandshakes'
  BY <1>1, <1>3 DEF OfMenu, PicksInv, BetweenSomeAndAll, FewHandshakes
<1> QED BY <1>5, <1>6, <1>7, <1>8 DEF IInv

(* A handshake that brings no suite ends the loop: if it was not lost, some*)
(* backend accepts nothing of what is left.                                *)
LEMMA TryOneKeeps ==
  ASSUME IInv, NEW lost \in BOOLEAN, TryOne(lost)
  PROVE  IInv'
<1>1. TypeOK /\ LoopInv
  BY DEF IInv
<1>2. pc \in Loops /\ MayTry /\ pool' = pool /\ picks' = picks
  BY DEF TryOne, Handshake
<1>3. faults' \in 0..MaxFaults
  BY <1>1, EnumerationAssumption DEF TryOne, Handshake, TypeOK
<1>4. PICK a \in Answers(remaining, Position, lost) :
        IF Counted(a) = NoSuite
          THEN Leave(IF lost THEN "lost" ELSE "clean", BudgetOf(pc) - Spend)
          ELSE /\ accepted' = accepted \union {Counted(a)}
               /\ remaining' = Retain(Counted(a))
               /\ budget' = Spend
               /\ UNCHANGED <<pc, result>>
  BY DEF TryOne
<1>5. CASE Counted(a) # NoSuite
  <2>1. Counted(a) = a
    BY <1>5 DEF Counted
  <2>2. PICK b \in pool : a \in PicksOf(b, remaining, Position)
    BY <1>5, <2>1, AnswerFacts
  <2>3. a \in b.suites /\ (b.order # "stubborn" => a \in remaining)
    BY <1>1, <2>2, PoolFacts, PicksFacts
  <2> QED BY <1>2, <1>3, <1>4, <1>5, <2>1, <2>3, RetainKeeps
<1>6. CASE Counted(a) = NoSuite
  <2> DEFINE h == BudgetOf(pc) - Spend
             how == IF lost THEN "lost" ELSE "clean"
  <2>1. budget \in Nat /\ budget > 0 /\ budget <= BudgetOf(pc) /\ BudgetOf(pc) \in Nat
    BY <1>1, <1>2, MenuFacts DEF TypeOK, LoopInv, MayTry
  <2>2. h = BudgetOf(pc) - budget + 1 /\ h \in Nat /\ h <= BudgetOf(pc)
    BY <2>1 DEF Spend
  <2>3. ~Stubborn => h <= Cardinality(accepted) + 1
    BY <1>1, <1>2, <2>1, <2>2 DEF LoopInv
  <2>4. ASSUME how = "clean", ~Stubborn
        PROVE  Everywhere \intersect MenuOf(pc) \subseteq accepted
    <3>1. /\ remaining \subseteq MenuOf(pc)
          /\ remaining \union accepted = MenuOf(pc)
      BY <1>1, <1>2, <2>4 DEF LoopInv
    <3>2. \A b \in pool : a \notin PicksOf(b, remaining, Position)
      <4> SUFFICES ASSUME NEW b \in pool, a \in PicksOf(b, remaining, Position)
                   PROVE  FALSE
        OBVIOUS
      <4>1. b \in Backend /\ b.order # "stubborn"
        BY <1>1, <2>4, PoolFacts DEF Stubborn
      <4>2. a \in b.suites /\ a \in remaining
        BY <4>1, PicksFacts
      <4>3. a # NoSuite
        BY <4>1, <4>2, EnumerationAssumption DEF NoSuite, Backend
      <4>4. pc = "tls13" => a \in Menu13
        BY <3>1, <4>2 DEF MenuOf
      <4> QED BY <1>6, <4>3, <4>4 DEF Counted
    <3>3. PICK b \in pool : Acceptable(b, remaining) = {}
      BY <2>4, <3>2, AnswerFacts
    <3>4. b.suites \intersect remaining = {}
      BY <2>4, <3>3 DEF Acceptable, Stubborn
    <3> QED BY <3>1, <3>4 DEF Everywhere
  <2>5. how \in {"clean", "lost"} /\ Leave(how, h)
    BY <1>4, <1>6
  <2> HIDE DEF h, how
  <2> QED BY <1>2, <1>3, <2>2, <2>3, <2>4, <2>5, LeaveKeeps
<1> QED BY <1>5, <1>6

(* A loop that offers nothing more, or may not: all of the menu was taken. *)
LEMMA ExhaustedKeeps ==
  ASSUME IInv, Exhausted
  PROVE  IInv'
<1>1. TypeOK /\ LoopInv
  BY DEF IInv
<1>2. /\ pc \in Loops /\ ~MayTry /\ Leave("clean", BudgetOf(pc) - budget)
      /\ pool' = pool /\ picks' = picks /\ faults' = faults
  BY DEF Exhausted
<1>3. faults' \in 0..MaxFaults
  BY <1>1, <1>2 DEF TypeOK
<1> DEFINE h == BudgetOf(pc) - budget
<1>4. budget \in Nat /\ budget <= BudgetOf(pc) /\ BudgetOf(pc) \in Nat
  BY <1>1, <1>2, MenuFacts DEF TypeOK, LoopInv
<1>5. h \in Nat /\ h <= BudgetOf(pc)
  BY <1>4
<1>6. ASSUME ~Stubborn
      PROVE  h <= Cardinality(accepted) + 1 /\ MenuOf(pc) = accepted
  <2>1. /\ remaining \union accepted = MenuOf(pc)
        /\ Cardinality(accepted) = h
    BY <1>1, <1>2, <1>6 DEF LoopInv
  <2>2. h <= Cardinality(accepted) + 1
    BY <1>5, <2>1
  <2>3. CASE remaining = {}
    BY <2>1, <2>2, <2>3
  <2>4. CASE remaining # {}
    <3>1. budget = 0
      BY <1>2, <1>4, <2>4 DEF MayTry
    <3>2. accepted \subseteq MenuOf(pc) /\ IsFiniteSet(MenuOf(pc))
      BY <1>2, <2>1, MenuFacts
    <3>3. Cardinality(accepted) >= Cardinality(MenuOf(pc))
      BY <1>2, <1>4, <2>1, <3>1, MenuFacts
    <3>4. Cardinality(accepted) = Cardinality(MenuOf(pc))
      BY <1>2, <1>5, <2>1, <3>2, <3>3, MenuFacts, FS_Subset
    <3>5. accepted = MenuOf(pc)
      BY <3>2, <3>4, FS_Subset
    <3> QED BY <2>2, <3>5
  <2> QED BY <2>3, <2>4
<1>7. Leave("clean", h)
  BY <1>2
<1> HIDE DEF h
<1> QED BY <1>2, <1>3, <1>5, <1>6, <1>7, LeaveKeeps

(* A hello notes a backend's pick, if it has an answer.                    *)
LEMMA HelloKeeps ==
  ASSUME IInv, NEW lost \in BOOLEAN, Hello(lost)
  PROVE  IInv'
<1>1. TypeOK /\ LoopInv /\ LaidOut /\ OfMenu /\ PicksInv /\ BetweenSomeAndAll /\ FewHandshakes
  BY DEF IInv
<1>2. /\ pc \in Hellos /\ pc' = After(pc)
      /\ UNCHANGED <<pool, remaining, accepted, budget, result>>
  BY DEF Hello, Handshake
<1>3. faults' \in 0..MaxFaults
  BY <1>1, EnumerationAssumption DEF Hello, Handshake, TypeOK
<1>4. PICK a \in Answers(Menu12, PositionIn(pc), lost) : picks' = [picks EXCEPT ![pc] = a]
  BY DEF Hello
<1>5. a # NoSuite => \E b \in pool : a \in PicksOf(b, Menu12, PositionIn(pc))
  BY <1>4, AnswerFacts
<1>6. a \in Menu \union {NoSuite}
  BY <1>1, <1>5, PoolFacts, PicksFacts DEF Backend
<1>7. pc' \in {"reversed", "second"} /\ (pc' = "second" => pc = "reversed")
  BY <1>2 DEF After, Hellos
<1>8. TypeOK'
  BY <1>1, <1>2, <1>3, <1>4, <1>6, <1>7 DEF TypeOK, Loops, Hellos
<1>9. Stubborn' = Stubborn /\ Anywhere' = Anywhere /\ Everywhere' = Everywhere
  BY <1>2 DEF Stubborn, Anywhere, Everywhere
<1>10. remaining = Menu12 /\ accepted = {} /\ budget = Budget12
  BY <1>1, <1>2 DEF LaidOut
<1>11. LaidOut'
  BY <1>2, <1>10 DEF LaidOut
<1>12. LoopInv'
  <2> SUFFICES ASSUME pc' \in Loops PROVE LoopInv'
    BY DEF LoopInv
  <2>1. MenuOf(pc') = Menu12 /\ BudgetOf(pc') = Budget12
    BY <1>7 DEF MenuOf, BudgetOf
  <2>2. Cardinality(accepted') = BudgetOf(pc') - budget'
    BY <1>2, <1>10, <2>1, FS_EmptySet, EnumerationAssumption
  <2> QED BY <1>2, <1>10, <2>1, <2>2, EnumerationAssumption DEF LoopInv
<1>13. PicksInv'
  <2> SUFFICES ASSUME NEW hello \in Hellos, picks'[hello] # NoSuite
               PROVE  \E b \in pool : picks'[hello] \in PicksOf(b, Menu12, PositionIn(hello))
    BY <1>2 DEF PicksInv
  <2>1. picks'[pc] = a /\ \A x \in Hellos \ {pc} : picks'[x] = picks[x]
    BY <1>1, <1>2, <1>4 DEF TypeOK
  <2>2. CASE hello = pc
    BY <1>5, <2>1, <2>2
  <2>3. CASE hello # pc
    BY <1>1, <2>1, <2>3 DEF PicksInv
  <2> QED BY <2>2, <2>3
<1>14. OfMenu' /\ BetweenSomeAndAll' /\ FewHandshakes'
  BY <1>1, <1>2, <1>9 DEF OfMenu, BetweenSomeAndAll, FewHandshakes
<1> QED BY <1>8, <1>11, <1>12, <1>13, <1>14 DEF IInv

(* Every step keeps the invariant.                                         *)
LEMMA NextIInv == IInv /\ [Next]_vars => IInv'
<1> SUFFICES ASSUME IInv, [Next]_vars PROVE IInv'
  OBVIOUS
<1>1. CASE UNCHANGED vars
  BY <1>1 DEF vars, IInv, TypeOK, LoopInv, LaidOut, OfMenu, PicksInv, BetweenSomeAndAll,
    FewHandshakes, Stubborn, Anywhere, Everywhere
<1>2. CASE Exhausted
  BY <1>2, ExhaustedKeeps
<1>3. ASSUME NEW lost \in BOOLEAN, TryOne(lost) PROVE IInv'
  BY <1>3, TryOneKeeps
<1>4. ASSUME NEW lost \in BOOLEAN, Hello(lost) PROVE IInv'
  BY <1>4, HelloKeeps
<1> QED BY <1>1, <1>2, <1>3, <1>4 DEF Next, Step, Terminated

(* So the invariant always holds.                                          *)
LEMMA Invariance == Spec => []IInv
  BY InitIInv, NextIInv, PTL DEF Spec

(* The parts of a scan's enumerations have the types they should have: a   *)
(* budget never goes below zero, and no picked suite is one unknown.       *)
THEOREM TypeCorrect == Spec => []TypeOK
<1>1. IInv => TypeOK
  BY DEF IInv
<1> QED BY <1>1, Invariance, PTL

(* Whatever backends share a name, in whatever order they take connections:*)
(* an enumeration lists no suite that none accepts and misses none that    *)
(* all accept, unless a handshake was lost.                                *)
THEOREM SuitesSound == Spec => []BetweenSomeAndAll
<1>1. IInv => BetweenSomeAndAll
  BY DEF IInv
<1> QED BY <1>1, Invariance, PTL

(* An enumeration takes one handshake more than the suites it finds; within*)
(* the budget also when the offers are ignored.                            *)
THEOREM HandshakesBounded == Spec => []FewHandshakes
<1>1. IInv => FewHandshakes
  BY DEF IInv
<1> QED BY <1>1, Invariance, PTL

(* Two hellos, each answered by the same server, tell its order from the   *)
(* client's, unless it has no choice.                                      *)
THEOREM PreferenceSound == Spec => []PreferenceIsTrue
<1>1. IInv => PreferenceIsTrue
  <2> SUFFICES ASSUME IInv, NEW b \in pool, pool = {b}, pc \in {"second", "done"}
               PROVE  /\ Preference = "client-preferred" => b.order = "client"
                      /\ Preference = "server-preferred" /\ b.order = "client" =>
                           \E s \in Menu12 : b.suites \intersect Menu12 = {s}
    BY DEF PreferenceIsTrue
  <2> DEFINE f == picks["forward"]
             r == picks["reversed"]
  <2>1. TypeOK /\ PicksInv
    BY DEF IInv
  <2>2. b \in Backend /\ Injective(b.rank)
    BY <2>1, PoolFacts
  <2>3. f # NoSuite => f \in PicksOf(b, Menu12, PositionIn("forward"))
    BY <2>1 DEF PicksInv, Hellos
  <2>4. r # NoSuite => r \in PicksOf(b, Menu12, PositionIn("reversed"))
    BY <2>1 DEF PicksInv, Hellos
  <2> DEFINE taken == Acceptable(b, Menu12)
  <2>5. taken \subseteq Menu
    BY <2>2 DEF Acceptable, Backend, Menu
  <2>6. ASSUME Preference = "client-preferred", b.order # "client" PROVE FALSE
    <3>1. f # NoSuite /\ r # NoSuite /\ f # r
      BY <2>6 DEF Preference
    <3>2. f \in First(taken, b.rank) /\ r \in First(taken, b.rank)
      BY <2>3, <2>4, <2>6, <3>1 DEF PicksOf
    <3>3. f \in Menu /\ r \in Menu /\ b.rank[f] <= b.rank[r] /\ b.rank[r] <= b.rank[f]
      BY <2>5, <3>2 DEF First
    <3>4. b.rank[f] = b.rank[r] /\ DOMAIN b.rank = Menu
      BY <2>2, <3>3 DEF Backend
    <3> QED BY <2>2, <3>1, <3>3, <3>4 DEF Injective
  <2>7. ASSUME Preference = "server-preferred", b.order = "client"
        PROVE  \E s \in Menu12 : b.suites \intersect Menu12 = {s}
    <3>1. f # NoSuite /\ r = f
      BY <2>7 DEF Preference
    <3>2. taken = b.suites \intersect Menu12
      BY <2>7 DEF Acceptable
    <3>3. f \in First(taken, Position)
      BY <2>3, <2>7, <3>1 DEF PicksOf, PositionIn
    <3>4. f \in First(taken, [s \in Menu |-> -Position[s]])
      BY <2>4, <2>7, <3>1 DEF PicksOf, PositionIn
    <3>5. ASSUME NEW t \in taken PROVE t = f
      <4>1. f \in Menu /\ t \in Menu
        BY <2>5, <3>3, <3>5 DEF First
      <4>2. Position[f] <= Position[t]
        BY <3>3, <3>5 DEF First
      <4>3. -Position[f] <= -Position[t]
        BY <3>4, <3>5, <4>1 DEF First
      <4>4. Position[f] = Position[t] /\ DOMAIN Position = Menu
        BY <4>1, <4>2, <4>3, EnumerationAssumption
      <4> QED BY <4>1, <4>4, EnumerationAssumption DEF Injective
    <3> QED BY <3>2, <3>3, <3>5 DEF First
  <2> QED BY <2>6, <2>7
<1> QED BY <1>1, Invariance, PTL

(* What Scan takes an enumeration to return in one step is what its        *)
(* handshakes, one by one, do return.                                      *)
THEOREM ScanEnumerates == Spec => []AsScanAssumes
<1>1. IInv => AsScanAssumes
  <2> SUFFICES ASSUME IInv, NEW loop \in Loops, NEW b \in pool,
                      pool = {b}, b.order # "stubborn", result[loop].how # "pending"
               PROVE  result[loop].suites \in
                        P!Enumerated([suites |-> b.suites \intersect MenuOf(loop)],
                                     result[loop].how = "lost")
    BY DEF AsScanAssumes
  <2>1. TypeOK /\ OfMenu /\ BetweenSomeAndAll
    BY DEF IInv
  <2>2. ~Stubborn /\ Anywhere = b.suites
    BY DEF Stubborn, Anywhere
  <2>3. result[loop].suites \subseteq b.suites \intersect MenuOf(loop)
    BY <2>1, <2>2 DEF OfMenu, BetweenSomeAndAll
  <2>4. CASE result[loop].how = "lost"
    BY <2>3, <2>4 DEF P!Enumerated
  <2>5. CASE result[loop].how # "lost"
    <3>1. result[loop].how = "clean"
      BY <2>1, <2>5 DEF TypeOK
    <3>2. Everywhere \intersect MenuOf(loop) = b.suites \intersect MenuOf(loop)
      BY MenuFacts DEF Everywhere
    <3>3. result[loop].suites = b.suites \intersect MenuOf(loop)
      BY <2>1, <2>2, <2>3, <3>1, <3>2 DEF BetweenSomeAndAll
    <3> QED BY <2>5, <3>3 DEF P!Enumerated
  <2> QED BY <2>4, <2>5
<1> QED BY <1>1, Invariance, PTL
=============================================================================
