---------------------------- MODULE MCEnumeration ----------------------------
(* A suite of each kind, in the order of the menu, with a budget that just *)
(* suffices; one server of every sort, and some pairs behind one name.     *)
EXTENDS Enumeration, TLC

S == INSTANCE Suites

MCMenu12 == {\hC02F, \h009E, \h002F, \h0001}
MCMenu13 == {\h1301, \h1302}

MCPosition ==
  \hC02F :> 1 @@ \h009E :> 2 @@ \h002F :> 3 @@ \h0001 :> 4 @@ \h1301 :> 5 @@ \h1302 :> 6
otherRank ==
  \hC02F :> 3 @@ \h009E :> 4 @@ \h002F :> 1 @@ \h0001 :> 6 @@ \h1301 :> 2 @@ \h1302 :> 5

b(suites, order, rank) == [suites |-> suites, order |-> order, rank |-> rank]

Pairs == {
  {b({\hC02F, \h002F, \h1301}, "own", MCPosition), b({\hC02F}, "own", MCPosition)},
  {b({\hC02F, \h009E}, "own", otherRank), b({\h009E, \h002F}, "client", MCPosition)},
  {b(MCMenu12, "client", MCPosition), b({\h002F, \h1302}, "own", otherRank)},
  {b({}, "own", otherRank), b(MCMenu12 \union MCMenu13, "own", otherRank)}}

MCPools ==
  {{b(suites \union suites13, order, otherRank)} :
     suites \in SUBSET MCMenu12, suites13 \in {{}, MCMenu13, {\h1302}},
     order \in {"own", "client"}}
  \union {{b({\h002F}, "stubborn", otherRank)}, {b({\h1301}, "stubborn", otherRank)}}
  \union Pairs

(* The program's own menus and budgets meet the assumption.                *)
ASSUME RealBudgets ==
  /\ Cardinality(S!TLS12_SUITES) <= 32
  /\ Cardinality(S!TLS13_SUITES) <= 16
=============================================================================
