---------------------------- MODULE Enumerations ----------------------------
(***************************************************************************)
(* Lists that hold the members of a set in order, and lists from which     *)
(* only some entries are kept.  What is known of them for every set is     *)
(* proved in ListingsProofs.                                               *)
(***************************************************************************)
EXTENDS Integers, SequencesExt

(* The members of a finite set of numbers in order: the n-th has n - 1     *)
(* smaller ones.                                                           *)
InOrder(S) ==
  [n \in 1 .. Cardinality(S) |->
     CHOOSE x \in S : Cardinality({y \in S : y < x}) = n - 1]

(* The entries of s that are in S, where they stand in s.                  *)
Kept(s, S) ==
  LET at == InOrder({k \in DOMAIN s : s[k] \in S})
  IN [n \in DOMAIN at |-> s[at[n]]]
=============================================================================
