----------------------------- MODULE Subsequences -----------------------------
(***************************************************************************)
(* What Vec::retain and Iterator::filter leave of a sequence, as a function*)
(* of the positions that are kept, so that it can be reasoned about.       *)
(***************************************************************************)
EXTENDS Naturals, Sequences, FiniteSets

(* The place of position i among the positions I.                          *)
Place(I, i) == Cardinality({j \in I : j <= i})

(* The elements of s at the positions I, in their order.                   *)
Picked(s, I) ==
  [n \in 1 .. Cardinality(I) |-> s[CHOOSE i \in I : Place(I, i) = n]]
=============================================================================
