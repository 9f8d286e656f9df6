----------------------------- MODULE Enumeration -----------------------------
(***************************************************************************)
(* The handshakes by which a scan finds out what suites a target accepts:  *)
(* cipher_enum_tls13::enumerate if TLS 1.3 was seen, cipher_enum::         *)
(* enumerate_at_version, the two hellos of cipher_pref::probe, and         *)
(* enumerate_at_version once more, for forward secrecy.  Each handshake is *)
(* a connection of its own; behind a name there may be several servers.    *)
(***************************************************************************)
EXTENDS Integers, FiniteSets

CONSTANTS
  Menu12, Menu13,        \* the suites offered, as sets
  Position,              \* [suite -> Nat], their order in the menus
  Budget12, Budget13,    \* handshakes an enumeration may take: 32 and 16
  Pools,                 \* what may answer: sets of backends
  MaxFaults              \* handshakes lost, at most

Menu == Menu12 \union Menu13

(* External: a server that accepts `suites`, and picks among those offered *)
(* by its own ranking or by the client's; or always answers the first of   *)
(* its own, offered or not.                                                *)
Backend == [suites: SUBSET Menu, order: {"own", "client", "stubborn"},
            rank: [Menu -> Nat]]

Injective(f) == \A s, t \in DOMAIN f : f[s] = f[t] => s = t

ASSUME EnumerationAssumption ==
  /\ IsFiniteSet(Menu12) /\ Cardinality(Menu12) <= Budget12 /\ Budget12 \in Nat
  /\ IsFiniteSet(Menu13) /\ Cardinality(Menu13) <= Budget13 /\ Budget13 \in Nat
  /\ Position \in [Menu -> Nat] /\ Injective(Position)
  /\ MaxFaults \in Nat
  /\ 0 \notin Menu
  /\ \A p \in Pools : p # {} /\ p \subseteq {b \in Backend : Injective(b.rank)}

VARIABLES
  pool,                  \* what answers
  pc,                    \* the enumeration or hello that is next
  remaining,             \* suites still offered
  accepted,              \* suites picked so far; who reads the list tests membership
  budget,                \* handshakes left
  faults,                \* handshakes lost
  result,                \* of each enumeration
  picks                  \* of the two hellos of cipher_pref

vars == <<pool, pc, remaining, accepted, budget, faults, result, picks>>

Loops  == {"tls13", "first", "second"}
Hellos == {"forward", "reversed"}

NoSuite == 0

-----------------------------------------------------------------------------
(* One budget for both loops, a mutated form.                              *)
BudgetOfTls13(loop) == Budget13

MenuOf(loop) == IF loop = "tls13" THEN Menu13 ELSE Menu12
BudgetOf(loop) == IF loop = "tls13" THEN Budget13 ELSE Budget12

After(step) ==
  CASE step = "tls13"    -> "first"
    [] step = "first"    -> "forward"
    [] step = "forward"  -> "reversed"
    [] step = "reversed" -> "second"
    [] OTHER             -> "done"

Pending == [suites |-> {}, how |-> "pending", handshakes |-> 0]

(* tls13 is enumerated if protocols.tls13.supported.                       *)
Init ==
  /\ pool \in Pools
  /\ pc \in {"tls13", "first"}
  /\ remaining = MenuOf(pc)
  /\ accepted = {}
  /\ budget = BudgetOf(pc)
  /\ faults = 0
  /\ result = [loop \in Loops |-> Pending]
  /\ picks = [hello \in Hellos |-> NoSuite]

(* What one backend would take of an offer, and the pick among it, for an  *)
(* offer in the client's order `position`.                                 *)
Acceptable(b, offer) ==
  IF b.order = "stubborn" THEN b.suites ELSE b.suites \intersect offer
First(suites, rank) == {s \in suites : \A t \in suites : rank[s] <= rank[t]}
PicksOf(b, offer, position) ==
  First(Acceptable(b, offer), IF b.order = "client" THEN position ELSE b.rank)

(* try_one: Some(suite), or NoSuite, be it refused or lost.                *)
Answers(offer, position, lost) ==
  IF lost THEN {NoSuite}
  ELSE UNION {IF Acceptable(b, offer) = {} THEN {NoSuite} ELSE PicksOf(b, offer, position) :
                b \in pool}

(* A TLS 1.3 enumeration drops the suite of an older version.              *)
Counted(suite) == IF pc = "tls13" /\ suite \notin Menu13 THEN NoSuite ELSE suite

Handshake(lost) ==
  /\ faults' = faults + (IF lost THEN 1 ELSE 0)
  /\ faults' <= MaxFaults
  /\ UNCHANGED pool

-----------------------------------------------------------------------------
(* The loop condition, the handshake paid for, the suite taken off the     *)
(* offer; the last two after a mutated form without them.                  *)
MayTry == remaining # {} /\ budget > 0
SpendNothing == budget
Spend == budget - 1
RetainAll(suite) == remaining
Retain(suite) == remaining \ {suite}

(* The loop ends with what it has, after `handshakes`.                     *)
Leave(how, handshakes) ==
  /\ result' = [result EXCEPT ![pc] =
       [suites |-> accepted, how |-> how, handshakes |-> handshakes]]
  /\ pc' = After(pc)
  /\ remaining' = Menu12
  /\ accepted' = {}
  /\ budget' = BudgetOf(pc')

TryOne(lost) ==
  /\ pc \in Loops /\ MayTry
  /\ Handshake(lost)
  /\ \E suite \in {Counted(a) : a \in Answers(remaining, Position, lost)} :
       IF suite = NoSuite
         THEN Leave(IF lost THEN "lost" ELSE "clean", BudgetOf(pc) - Spend)
         ELSE /\ accepted' = accepted \union {suite}
              /\ remaining' = Retain(suite)
              /\ budget' = Spend
              /\ UNCHANGED <<pc, result>>
  /\ UNCHANGED picks

Exhausted ==
  /\ pc \in Loops /\ ~MayTry
  /\ Leave("clean", BudgetOf(pc) - budget)
  /\ UNCHANGED <<pool, faults, picks>>

-----------------------------------------------------------------------------
(* cipher_pref::probe: the whole menu, forward and reversed.               *)
PositionIn(hello) ==
  IF hello = "forward" THEN Position ELSE [s \in Menu |-> -Position[s]]

Hello(lost) ==
  /\ pc \in Hellos
  /\ Handshake(lost)
  /\ \E a \in Answers(Menu12, PositionIn(pc), lost) : picks' = [picks EXCEPT ![pc] = a]
  /\ pc' = After(pc)
  /\ UNCHANGED <<remaining, accepted, budget, result>>

(* A lost answer compared like any other, a mutated form.                  *)
PreferenceOfAny ==
  IF picks["forward"] = picks["reversed"] THEN "server-preferred" ELSE "client-preferred"

Preference ==
  IF NoSuite \in {picks["forward"], picks["reversed"]} THEN "indeterminate"
  ELSE IF picks["forward"] = picks["reversed"] THEN "server-preferred"
  ELSE "client-preferred"

Step == Exhausted \/ \E lost \in BOOLEAN : TryOne(lost) \/ Hello(lost)

Terminated == pc = "done" /\ UNCHANGED vars

Next == Step \/ Terminated

(* Every handshake is under a timeout.                                     *)
Spec == Init /\ [][Next]_vars /\ WF_vars(Step)

-----------------------------------------------------------------------------
TypeOK ==
  /\ pool \in Pools
  /\ pc \in Loops \union Hellos \union {"done"}
  /\ remaining \in SUBSET Menu
  /\ accepted \in SUBSET Menu
  /\ budget \in Nat
  /\ faults \in 0..MaxFaults
  /\ result \in [Loops -> [suites: SUBSET Menu, how: {"pending", "clean", "lost"},
                           handshakes: Nat]]
  /\ picks \in [Hellos -> Menu \union {NoSuite}]

Stubborn == \E b \in pool : b.order = "stubborn"
Anywhere == UNION {b.suites : b \in pool}
Everywhere == {s \in Menu : \A b \in pool : s \in b.suites}

(* What an enumeration returns is accepted somewhere; and if it ran to its *)
(* end, it has everything that is accepted everywhere, whichever backend   *)
(* took which connection.                                                  *)
BetweenSomeAndAll ==
  \A loop \in Loops :
    LET r == result[loop] IN
    r.how # "pending" =>
      /\ r.suites \subseteq Anywhere
      /\ r.how = "clean" /\ ~Stubborn => Everywhere \intersect MenuOf(loop) \subseteq r.suites

(* "At-most O(N) handshakes per protocol where N is the count of suites the*)
(* server actually accepts"; and the budget, for one that ignores offers.  *)
FewHandshakes ==
  \A loop \in Loops :
    LET r == result[loop] IN
    /\ r.handshakes <= BudgetOf(loop)
    /\ ~Stubborn => r.handshakes <= Cardinality(r.suites) + 1

(* The preference reported of a single server is the one it has: losses    *)
(* leave it undecided, and only a server that has no choice is credited    *)
(* with an order of its own.                                               *)
PreferenceIsTrue ==
  \A b \in pool :
    pool = {b} /\ pc \in {"second", "done"} =>
      /\ Preference = "client-preferred" => b.order = "client"
      /\ Preference = "server-preferred" /\ b.order = "client" =>
           \E s \in Menu12 : b.suites \intersect Menu12 = {s}

(* Each enumeration, whole, is what Scan takes it to be in one step.       *)
P == INSTANCE Probes
AsScanAssumes ==
  \A loop \in Loops, b \in pool :
    pool = {b} /\ b.order # "stubborn" /\ result[loop].how # "pending" =>
      result[loop].suites \in
        P!Enumerated([suites |-> b.suites \intersect MenuOf(loop)],
                     result[loop].how = "lost")

(* Every enumeration ends, also with a server that ignores what is offered.*)
EnumerationsEnd == <>(pc = "done")
=============================================================================
