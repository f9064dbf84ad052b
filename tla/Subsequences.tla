----------------------------- MODULE Subsequences -----------------------------
(***************************************************************************)
(* What is left of a list, or of a dict in insertion order, when a loop or *)
(* a comprehension keeps the items at some indices: the same items, in the *)
(* same order.  Defined without recursion, so that it can be proved about. *)
(***************************************************************************)
EXTENDS Integers, Sequences, FiniteSets

Rank(i, indices) == Cardinality({j \in indices : j <= i})

IndexOfRank(n, indices) == CHOOSE i \in indices : Rank(i, indices) = n

Subsequence(s, indices) ==
    [n \in 1..Cardinality(indices) |-> s[IndexOfRank(n, indices)]]
=============================================================================
