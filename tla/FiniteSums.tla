----------------------------- MODULE FiniteSums -----------------------------
(***************************************************************************)
(* Facts about the sums of module Sums: what the empty sum is, how one     *)
(* element comes off or joins, and that a sum depends on nothing but its   *)
(* summands.  The community modules define the sum by recursion over the   *)
(* subsets, taking an arbitrary element off at each step; that the order   *)
(* does not matter is what is proved here.                                 *)
(*                                                                         *)
(* Induction over finite sets is by a minimal counterexample: the strict   *)
(* subset ordering is well founded on the finite subsets of a set, so      *)
(* every nonempty collection of subsets has a minimal element.             *)
(***************************************************************************)
EXTENDS Sums, FiniteSetTheorems, TLAPS

(* A nonempty collection of subsets of a finite set has a minimal element. *)
LEMMA MinimalSubset ==
  ASSUME NEW S, IsFiniteSet(S), NEW C \in SUBSET (SUBSET S), C # {}
  PROVE  \E T \in C : \A U \in C : U \subseteq T => U = T
<1>1. IsWellFoundedOn(StrictSubsetOrdering(S), SUBSET S)
  BY FS_StrictSubsetOrderingWellFounded, FS_FiniteSubsetsOfFinite
<1>2. PICK T \in C : \A U \in C : <<U, T>> \notin StrictSubsetOrdering(S)
  BY <1>1, WFMin
<1>3. ASSUME NEW U \in C, U \subseteq T PROVE U = T
  BY <1>2, <1>3 DEF StrictSubsetOrdering
<1> QED BY <1>3

(* A nonempty set of naturals has a least element.                         *)
LEMMA LeastNatural ==
  ASSUME NEW S \in SUBSET Nat, S # {}
  PROVE  \E n \in S : \A m \in S : n <= m
<1>1. PICK b \in S : TRUE
  OBVIOUS
<1> DEFINE all == 0 .. b
           C == {T \in SUBSET all : \E n \in S : T = 0 .. n}
<1>2. IsFiniteSet(all)
  BY <1>1, FS_Interval
<1>3. C \in SUBSET (SUBSET all) /\ all \in C
  BY <1>1
<1>4. \A U \in SUBSET all : (\E n \in S : U = 0 .. n) => U \in C
  OBVIOUS
<1>5. \A T \in C : \E n \in S : T = 0 .. n
  OBVIOUS
<1> HIDE DEF C, all
<1>6. PICK T \in C : \A U \in C : U \subseteq T => U = T
  BY <1>2, <1>3, MinimalSubset
<1>7. PICK n \in S : T = 0 .. n
  BY <1>5
<1>8. ASSUME NEW m \in S, m < n PROVE FALSE
  <2>1. 0 .. m \subseteq T /\ 0 .. m # T
    BY <1>7, <1>8
  <2>2. 0 .. m \in C
    BY <1>3, <1>4, <1>6, <2>1
  <2> QED BY <1>6, <2>1, <2>2
<1> QED BY <1>7, <1>8

(* A function that adds up w over the subsets of S, whichever element is   *)
(* taken off first.                                                        *)
IsSumOf(g, w, S) ==
  /\ g \in [SUBSET S -> Int]
  /\ g[{}] = 0
  /\ \A T \in SUBSET S : \A x \in T : g[T] = w[x] + g[T \ {x}]

LEMMA SumExists ==
  ASSUME NEW S, IsFiniteSet(S), NEW w, \A x \in S : w[x] \in Int
  PROVE  \E g : IsSumOf(g, w, S)
<1> DEFINE C == {T \in SUBSET S : ~ \E g : IsSumOf(g, w, T)}
<1>1. SUFFICES ASSUME C # {} PROVE FALSE
  <2>1. S \notin C => \E g : IsSumOf(g, w, S)
    OBVIOUS
  <2> QED BY <2>1
<1>2. PICK T \in C : \A U \in C : U \subseteq T => U = T
  <2>1. C \in SUBSET (SUBSET S)
    OBVIOUS
  <2> HIDE DEF C
  <2> QED BY <1>1, <2>1, MinimalSubset
<1>3. T # {}
  <2>1. IsSumOf([U \in SUBSET {} |-> 0], w, {})
    BY DEF IsSumOf
  <2> QED BY <2>1
<1>4. PICK x \in T : TRUE
  BY <1>3
<1>5. PICK h : IsSumOf(h, w, T \ {x})
  BY <1>2, <1>4
<1> DEFINE g == [U \in SUBSET T |-> IF x \in U THEN w[x] + h[U \ {x}] ELSE h[U]]
<1>6. g \in [SUBSET T -> Int]
  <2> SUFFICES ASSUME NEW U \in SUBSET T
               PROVE  (IF x \in U THEN w[x] + h[U \ {x}] ELSE h[U]) \in Int
    OBVIOUS
  <2>1. U \ {x} \in SUBSET (T \ {x}) /\ (x \notin U => U \in SUBSET (T \ {x}))
    OBVIOUS
  <2> QED BY <1>5, <2>1 DEF IsSumOf
<1>7. g[{}] = 0
  BY <1>5 DEF IsSumOf
<1>8. ASSUME NEW U \in SUBSET T, NEW y \in U
      PROVE  g[U] = w[y] + g[U \ {y}]
  <2>1. U \ {y} \in SUBSET T /\ U \ {x} \in SUBSET (T \ {x})
    OBVIOUS
  <2>2. CASE y = x
    BY <2>1, <2>2
  <2>3. CASE y # x /\ x \notin U
    <3>1. U \in SUBSET (T \ {x})
      BY <2>3
    <3>2. h[U] = w[y] + h[U \ {y}]
      BY <1>5, <3>1 DEF IsSumOf
    <3> QED BY <2>1, <2>3, <3>2
  <2>4. CASE y # x /\ x \in U
    <3>1. y \in U \ {x} /\ (U \ {x}) \ {y} = (U \ {y}) \ {x} /\ x \in U \ {y}
      BY <2>4
    <3>2. h[U \ {x}] = w[y] + h[(U \ {x}) \ {y}]
      BY <1>5, <2>1, <3>1 DEF IsSumOf
    <3>3. g[U] = w[x] + h[U \ {x}] /\ g[U \ {y}] = w[x] + h[(U \ {y}) \ {x}]
      BY <2>1, <2>4, <3>1
    <3>4. (U \ {x}) \ {y} \in SUBSET (T \ {x})
      BY <2>1
    <3>5. h[(U \ {x}) \ {y}] \in Int /\ w[x] \in Int /\ w[y] \in Int
      BY <1>5, <3>4 DEF IsSumOf
    <3> DEFINE rest == h[(U \ {x}) \ {y}]
    <3>6. g[U \ {y}] = w[x] + rest
      BY <3>1, <3>3
    <3>7. g[U] = w[x] + (w[y] + rest)
      BY <3>2, <3>3
    <3> HIDE DEF g, rest
    <3>8. rest \in Int
      BY <3>5 DEF rest
    <3> QED BY <3>5, <3>6, <3>7, <3>8
  <2> QED BY <2>2, <2>3, <2>4
<1> HIDE DEF g
<1>9. IsSumOf(g, w, T)
  BY <1>6, <1>7, <1>8 DEF IsSumOf
<1> QED BY <1>9

(* The recursion of MapThenSumSet: an arbitrary element comes off first.   *)
AddsUp(g, w, S) ==
  g = [T \in SUBSET S |->
         IF T = {} THEN 0
         ELSE w[CHOOSE x \in T : TRUE] + g[T \ {CHOOSE x \in T : TRUE}]]

LEMMA SumAddsUp ==
  ASSUME NEW S, NEW w, NEW g, IsSumOf(g, w, S)
  PROVE  AddsUp(g, w, S)
<1> DEFINE h == [T \in SUBSET S |->
         IF T = {} THEN 0
         ELSE w[CHOOSE x \in T : TRUE] + g[T \ {CHOOSE x \in T : TRUE}]]
<1>1. ASSUME NEW T \in SUBSET S PROVE g[T] = h[T]
  <2>1. CASE T = {}
    BY <2>1 DEF IsSumOf
  <2>2. CASE T # {}
    <3>1. (CHOOSE x \in T : TRUE) \in T
      BY <2>2
    <3>2. g[T] = w[CHOOSE x \in T : TRUE] + g[T \ {CHOOSE x \in T : TRUE}]
      BY <3>1 DEF IsSumOf
    <3> QED BY <2>2, <3>2
  <2> QED BY <2>1, <2>2
<1>2. g = [T \in SUBSET S |-> g[T]]
  BY DEF IsSumOf
<1> QED BY <1>1, <1>2 DEF AddsUp

LEMMA AddsUpUnique ==
  ASSUME NEW S, IsFiniteSet(S), NEW w, NEW g, NEW h,
         IsSumOf(g, w, S), AddsUp(h, w, S)
  PROVE  h = g
<1> DEFINE C == {T \in SUBSET S : h[T] # g[T]}
<1>1. C = {}
  <2>1. SUFFICES ASSUME C # {} PROVE FALSE
    OBVIOUS
  <2>2. PICK T \in C : \A U \in C : U \subseteq T => U = T
    <3>1. C \in SUBSET (SUBSET S)
      OBVIOUS
    <3> HIDE DEF C
    <3> QED BY <2>1, <3>1, MinimalSubset
  <2>3. AddsUp(g, w, S)
    BY SumAddsUp
  <2>4. CASE T = {}
    BY <2>2, <2>4 DEF AddsUp, IsSumOf
  <2>5. CASE T # {}
    <3> DEFINE x == CHOOSE x \in T : TRUE
    <3>1. x \in T
      BY <2>5
    <3>2. g[T] = w[x] + g[T \ {x}] /\ h[T] = w[x] + h[T \ {x}]
      BY <2>2, <2>3, <2>5 DEF AddsUp
    <3> HIDE DEF x
    <3>3. T \ {x} \notin C
      BY <2>2, <3>1
    <3>4. h[T \ {x}] = g[T \ {x}]
      BY <2>2, <3>3
    <3> QED BY <2>2, <3>2, <3>4
  <2> QED BY <2>4, <2>5
<1>2. DOMAIN g = SUBSET S /\ DOMAIN h = SUBSET S /\ h = [T \in SUBSET S |-> h[T]]
  BY DEF IsSumOf, AddsUp
<1>3. g = [T \in SUBSET S |-> g[T]]
  BY DEF IsSumOf
<1>4. \A T \in SUBSET S : h[T] = g[T]
  BY <1>1
<1> QED BY <1>2, <1>3, <1>4

(* The sum of the community modules is the one value all the ways of       *)
(* adding up agree on.                                                     *)
LEMMA SumOverIs ==
  ASSUME NEW S, IsFiniteSet(S), NEW w, NEW g, IsSumOf(g, w, S)
  PROVE  SumOver(w, S) = g[S]
<1> DEFINE iter == CHOOSE h : AddsUp(h, w, S)
<1>1. AddsUp(g, w, S)
  BY SumAddsUp
<1>2. AddsUp(iter, w, S)
  BY <1>1
<1>3. iter = g
  BY <1>2, AddsUpUnique
<1>4. SumOver(w, S) = iter[S]
  BY DEF SumOver, MapThenSumSet, MapThenFoldSet, AddsUp
<1> QED BY <1>3, <1>4
-----------------------------------------------------------------------------
(* What the proofs about the models cite *)

LEMMA SumEmpty == \A w : SumOver(w, {}) = 0
<1> SUFFICES ASSUME NEW w PROVE SumOver(w, {}) = 0
  OBVIOUS
<1>1. IsSumOf([T \in SUBSET {} |-> 0], w, {})
  BY DEF IsSumOf
<1> QED BY <1>1, SumOverIs, FS_EmptySet

LEMMA SumType ==
  ASSUME NEW S, IsFiniteSet(S), NEW w, \A x \in S : w[x] \in Int
  PROVE  SumOver(w, S) \in Int
<1>1. PICK g : IsSumOf(g, w, S)
  BY SumExists
<1>2. g[S] \in Int
  BY <1>1 DEF IsSumOf
<1> QED BY <1>1, <1>2, SumOverIs

(* One element comes off.                                                  *)
LEMMA SumTakeOff ==
  ASSUME NEW S, IsFiniteSet(S), NEW w, \A x \in S : w[x] \in Int, NEW x \in S
  PROVE  SumOver(w, S) = w[x] + SumOver(w, S \ {x})
<1>1. PICK g : IsSumOf(g, w, S)
  BY SumExists
<1> DEFINE h == [T \in SUBSET (S \ {x}) |-> g[T]]
<1>2. IsSumOf(h, w, S \ {x})
  <2>1. h \in [SUBSET (S \ {x}) -> Int] /\ h[{}] = 0
    BY <1>1 DEF IsSumOf
  <2>2. ASSUME NEW T \in SUBSET (S \ {x}), NEW y \in T
        PROVE  h[T] = w[y] + h[T \ {y}]
    <3>1. T \in SUBSET S /\ T \ {y} \in SUBSET (S \ {x})
      OBVIOUS
    <3> QED BY <1>1, <3>1 DEF IsSumOf
  <2> HIDE DEF h
  <2> QED BY <2>1, <2>2 DEF IsSumOf
<1>3. g[S] = w[x] + g[S \ {x}] /\ h[S \ {x}] = g[S \ {x}]
  BY <1>1 DEF IsSumOf
<1> HIDE DEF h
<1>4. IsFiniteSet(S \ {x})
  BY FS_RemoveElement
<1>5. SumOver(w, S) = g[S] /\ SumOver(w, S \ {x}) = h[S \ {x}]
  BY <1>1, <1>2, <1>4, SumOverIs
<1> QED BY <1>3, <1>5

(* A sum depends on its summands only.                                     *)
LEMMA SumSame ==
  ASSUME NEW S, IsFiniteSet(S), NEW w, NEW v,
         \A x \in S : w[x] \in Int /\ v[x] = w[x]
  PROVE  SumOver(v, S) = SumOver(w, S)
<1>1. PICK g : IsSumOf(g, w, S)
  BY SumExists
<1>2. IsSumOf(g, v, S)
  BY <1>1 DEF IsSumOf
<1> QED BY <1>1, <1>2, SumOverIs

(* One element joins, leaves or changes its summand.                       *)
LEMMA SumStep ==
  ASSUME NEW S, IsFiniteSet(S), NEW T, NEW x, T \ {x} = S \ {x}, NEW w, NEW v,
         \A y \in S : w[y] \in Int,
         \A y \in T : v[y] \in Int,
         \A y \in S \ {x} : v[y] = w[y]
  PROVE  /\ IsFiniteSet(T)
         /\ SumOver(v, T) = SumOver(w, S) + (IF x \in T THEN v[x] ELSE 0)
                                         - (IF x \in S THEN w[x] ELSE 0)
<1> DEFINE rest == S \ {x}
<1>1. IsFiniteSet(rest)
  BY FS_RemoveElement
<1>2. SumOver(v, rest) = SumOver(w, rest) /\ SumOver(w, rest) \in Int
  BY <1>1, SumSame, SumType
<1>3. SumOver(w, S) = SumOver(w, rest) + (IF x \in S THEN w[x] ELSE 0)
  <2>1. CASE x \in S
    <3>1. SumOver(w, S) = w[x] + SumOver(w, rest)
      BY <2>1, SumTakeOff
    <3> QED BY <1>2, <2>1, <3>1
  <2>2. CASE x \notin S
    <3>1. rest = S
      BY <2>2
    <3> QED BY <1>2, <2>2, <3>1
  <2> QED BY <2>1, <2>2
<1>4. IsFiniteSet(T) /\ SumOver(v, T) = SumOver(v, rest) + (IF x \in T THEN v[x] ELSE 0)
  <2>1. CASE x \in T
    <3>1. IsFiniteSet(T)
      <4>1. T = rest \cup {x}
        BY <2>1
      <4> HIDE DEF rest
      <4> QED BY <1>1, <4>1, FS_AddElement
    <3>2. T \ {x} = rest
      OBVIOUS
    <3>3. SumOver(v, T) = v[x] + SumOver(v, rest)
      BY <2>1, <3>1, <3>2, SumTakeOff
    <3> HIDE DEF rest
    <3> QED BY <1>2, <2>1, <3>1, <3>3
  <2>2. CASE x \notin T
    <3>1. T = rest
      BY <2>2
    <3> QED BY <1>1, <1>2, <2>2, <3>1
  <2> QED BY <2>1, <2>2
<1> HIDE DEF rest
<1> QED BY <1>2, <1>3, <1>4

(* One element joins or leaves.                                            *)
LEMMA CardinalityStep ==
  ASSUME NEW S, IsFiniteSet(S), NEW T, NEW x, T \ {x} = S \ {x}
  PROVE  /\ IsFiniteSet(T)
         /\ Cardinality(S) \in Nat
         /\ Cardinality(T) = Cardinality(S) + (IF x \in T THEN 1 ELSE 0)
                                           - (IF x \in S THEN 1 ELSE 0)
<1> DEFINE rest == S \ {x}
           more == rest \cup {x}
<1>1. /\ IsFiniteSet(rest)
      /\ Cardinality(rest) = IF x \in S THEN Cardinality(S) - 1 ELSE Cardinality(S)
  BY FS_RemoveElement
<1>2. Cardinality(S) \in Nat /\ Cardinality(rest) \in Nat
  BY <1>1, FS_CardinalityType
<1>3. /\ x \notin rest
      /\ x \in T => T = more
      /\ x \notin T => T = rest
  OBVIOUS
<1> HIDE DEF rest
<1>4. IsFiniteSet(more) /\ Cardinality(more) = Cardinality(rest) + 1
  BY <1>1, <1>3, FS_AddElement
<1> HIDE DEF more
<1>5. CASE x \in T
  BY <1>1, <1>2, <1>3, <1>4, <1>5
<1>6. CASE x \notin T
  BY <1>1, <1>2, <1>3, <1>6
<1> QED BY <1>5, <1>6

(* A sum of nothing but zeros.                                             *)
LEMMA SumZeros ==
  ASSUME NEW S, IsFiniteSet(S), NEW w, \A x \in S : w[x] = 0
  PROVE  SumOver(w, S) = 0
<1>1. IsSumOf([T \in SUBSET S |-> 0], w, S)
  BY DEF IsSumOf
<1> QED BY <1>1, SumOverIs

(* A sum of naturals is a natural.                                         *)
LEMMA SumNat ==
  ASSUME NEW S, IsFiniteSet(S), NEW w, \A x \in S : w[x] \in Nat
  PROVE  SumOver(w, S) \in Nat
<1> DEFINE C == {T \in SUBSET S : SumOver(w, T) \notin Nat}
<1>1. SUFFICES ASSUME C # {} PROVE FALSE
  <2>1. S \notin C => SumOver(w, S) \in Nat
    OBVIOUS
  <2> QED BY <2>1
<1>2. PICK T \in C : \A U \in C : U \subseteq T => U = T
  <2>1. C \in SUBSET (SUBSET S)
    OBVIOUS
  <2> HIDE DEF C
  <2> QED BY <1>1, <2>1, MinimalSubset
<1>3. T \in SUBSET S /\ SumOver(w, T) \notin Nat
  BY <1>2
<1>4. PICK x \in T : TRUE
  BY <1>3, SumEmpty
<1>5. SumOver(w, T \ {x}) \in Nat
  BY <1>2, <1>3, <1>4
<1>6. IsFiniteSet(T)
  BY <1>3, FS_Subset
<1>7. SumOver(w, T) = w[x] + SumOver(w, T \ {x})
  BY <1>3, <1>4, <1>6, SumTakeOff
<1>8. w[x] \in Nat
  BY <1>3, <1>4
<1> QED BY <1>3, <1>5, <1>7, <1>8

(* A part and the rest make the whole.                                     *)
LEMMA SumSplit ==
  ASSUME NEW S, IsFiniteSet(S), NEW w, \A x \in S : w[x] \in Int, NEW P \in SUBSET S
  PROVE  SumOver(w, S) = SumOver(w, P) + SumOver(w, S \ P)
<1> DEFINE Splits(T) == SumOver(w, T \cup (S \ P)) = SumOver(w, T) + SumOver(w, S \ P)
           C == {T \in SUBSET P : ~ Splits(T)}
<1>1. P \cup (S \ P) = S
  OBVIOUS
<1>2. SUFFICES ASSUME C # {} PROVE FALSE
  <2>1. P \notin C => Splits(P)
    OBVIOUS
  <2> QED BY <1>1, <2>1
<1>3. IsFiniteSet(P) /\ IsFiniteSet(S \ P)
  BY FS_Subset
<1>4. PICK T \in C : \A U \in C : U \subseteq T => U = T
  <2>1. C \in SUBSET (SUBSET P)
    OBVIOUS
  <2> HIDE DEF C
  <2> QED BY <1>2, <1>3, <2>1, MinimalSubset
<1>5. T \in SUBSET P /\ ~ Splits(T)
  BY <1>4
<1>6. SumOver(w, S \ P) \in Int
  BY <1>3, SumType
<1>7. CASE T = {}
  <2>1. {} \cup (S \ P) = S \ P
    OBVIOUS
  <2>2. SumOver(w, {}) = 0
    BY SumEmpty
  <2> DEFINE more == S \ P
  <2> HIDE DEF more
  <2>3. SumOver(w, more) = 0 + SumOver(w, more)
    BY <1>6 DEF more
  <2> QED BY <1>5, <1>7, <2>1, <2>2, <2>3 DEF more
<1>8. CASE T # {}
  <2>1. PICK x \in T : TRUE
    BY <1>8
  <2> DEFINE less == T \ {x}
             all == T \cup (S \ P)
             rest == less \cup (S \ P)
             outside == S \ P
  <2>2. Splits(less)
    <3>1. less \in SUBSET P /\ less \subseteq T /\ less # T
      BY <1>5, <2>1
    <3> HIDE DEF less, Splits
    <3>2. less \notin C
      BY <1>4, <3>1
    <3> QED BY <3>1, <3>2
  <2>3. IsFiniteSet(all) /\ IsFiniteSet(T)
    BY <1>5, FS_Subset
  <2>4. all \ {x} = rest /\ x \in all /\ \A y \in all : w[y] \in Int
    BY <1>5, <2>1
  <2>5. IsFiniteSet(less) /\ \A y \in less : w[y] \in Int
    BY <1>5, <2>3, FS_Subset
  <2>6. \A y \in T : w[y] \in Int
    BY <1>5
  <2>7. SumOver(w, T) = w[x] + SumOver(w, less)
    BY <2>1, <2>3, <2>6, SumTakeOff
  <2>8. SumOver(w, rest) = SumOver(w, less) + SumOver(w, outside)
    BY <2>2
  <2>9. ~ (SumOver(w, all) = SumOver(w, T) + SumOver(w, outside))
    BY <1>5
  <2>10. SumOver(w, outside) \in Int /\ w[x] \in Int
    BY <1>6, <2>1, <2>6
  <2> HIDE DEF less, all, rest, outside
  <2>11. SumOver(w, all) = w[x] + SumOver(w, rest)
    BY <2>3, <2>4, SumTakeOff
  <2>12. SumOver(w, less) \in Int
    BY <2>5, SumType
  <2> QED BY <2>7, <2>8, <2>9, <2>10, <2>11, <2>12
<1> QED BY <1>7, <1>8
=============================================================================
