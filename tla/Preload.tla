------------------------------ MODULE Preload ------------------------------
(***************************************************************************)
(* The lookup in the embedded HSTS preload list (preload.rs).  A name is   *)
(* the sequence of its labels, the most specific first, in lower case and  *)
(* without a final dot; a list is a function from names to whether they    *)
(* include their subdomains.                                               *)
(***************************************************************************)
EXTENDS Naturals, Sequences

(* No name.                                                                *)
None == <<>>

From(host, i) == SubSeq(host, i, Len(host))

(* A binary search in a sorted list finds what is in it: the embedded list *)
(* is sorted by name, without duplicates.                                  *)
lookup_exact(list, name) == name \in DOMAIN list

(* The host itself, then its parents of two labels at least.  A mutated    *)
(* form stops one parent early.                                            *)
CandidatesShort(host) == {1} \union 2..(Len(host) - 2)
Candidates(host) == {1} \union 2..(Len(host) - 1)

(* A parent counts when it includes its subdomains.                        *)
Matches(list, host, i) ==
  lookup_exact(list, From(host, i)) /\ (i = 1 \/ list[From(host, i)])

is_preloaded(list, host) ==
  LET found == {i \in Candidates(host) : Matches(list, host, i)}
  IN  IF found = {} THEN None
      ELSE From(host, CHOOSE i \in found : \A j \in found : i <= j)

(* strip_prefix("www.")                                                    *)
Stripped(host) == IF Len(host) > 1 /\ Head(host) = "www" THEN Tail(host) ELSE host

check(list, host) ==
  LET matched == is_preloaded(list, host)
  IN  [preloaded |-> matched # None, matched |-> matched,
       inherited |-> matched # None /\ matched # host]

(* The `verify-preload` command.                                           *)
verify(list, host) == check(list, Stripped(host))
=============================================================================
