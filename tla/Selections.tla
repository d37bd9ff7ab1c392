----------------------------- MODULE Selections -----------------------------
(***************************************************************************)
(* The elements of a sequence at some of its places, in their order: what  *)
(* a filter, a boolean mask or dropna leaves of a list or a frame.  It is  *)
(* SelectSeq over places, written without recursion; and sorting by a key. *)
(***************************************************************************)
EXTENDS Integers, FiniteSets

(* The k-th of a set of numbers.                                           *)
Nth(S, k) == CHOOSE i \in S : Cardinality({j \in S : j <= i}) = k

Select(s, keep) == [k \in 1..Cardinality(keep) |-> s[Nth(keep, k)]]

(* A stable sort by a key: what comes before a place, and which place      *)
(* comes k-th.                                                             *)
RankBy(key, i) ==
  Cardinality({j \in DOMAIN key : key[j] < key[i] \/ (key[j] = key[i] /\ j < i)}) + 1

Ordered(key, k) == CHOOSE i \in DOMAIN key : RankBy(key, i) = k
=============================================================================
