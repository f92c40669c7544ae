------------------------------- MODULE Sublists -------------------------------
(* What is left of a list when items are erased from it, without recursion:   *)
(* the std::list of scan requests, the chains and vectors of file entries; and *)
(* sums, of the sizes of entries.                                             *)
EXTENDS Integers, FiniteSets, SequencesExt

\* The position in K that has n positions of K at or before it
Nth(K, n) == CHOOSE i \in K : Cardinality({j \in K : j <= i}) = n

\* The items of q at the positions K, in their order
Pick(q, K) == [n \in 1 .. Cardinality(K) |-> q[Nth(K, n)]]

\* The sum of the f of all of S
Total(f, S) == MapThenSumSet(LAMBDA x : f[x], S)
=============================================================================
