---------------------------- MODULE Subsequences ----------------------------
(***************************************************************************)
(* What is left of a sequence when only the elements at some of its        *)
(* indices are kept (Vec::retain, Iterator::filter).                       *)
(***************************************************************************)
EXTENDS Integers, FiniteSets, Sequences

\* The k-th smallest number of I.
Nth(I, k) == CHOOSE i \in I : Cardinality({j \in I : j <= i}) = k

\* The elements of s at the indices I, in the order of s.
Retained(s, I) == [k \in 1..Cardinality(I) |-> s[Nth(I, k)]]
===============================================================================
