---------------------------- MODULE Subsequences ----------------------------
(***************************************************************************)
(* The loops that keep some elements of a slice, in order: the nodes of    *)
(* one graph in a lease, the documents below a limit, the objects of a     *)
(* batch that were uploaded. Said without recursion, so that proofs can    *)
(* reason about the result.                                                *)
(***************************************************************************)
EXTENDS Naturals, FiniteSets

\* The elements of s at the positions D, in order. There is one such sequence,
\* and this is the set of it.
Picked(s, D) ==
  LET n == Cardinality(D)
      rising(f) == \A a, b \in 1 .. n : a < b => f[a] < f[b]
  IN  {[k \in 1 .. n |-> s[f[k]]] : f \in {f \in [1 .. n -> D] : rising(f)}}
=============================================================================
