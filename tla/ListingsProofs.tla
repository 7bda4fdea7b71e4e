--------------------------- MODULE ListingsProofs ---------------------------
(***************************************************************************)
(* Proofs about the two listings a client pages through, for any ids,      *)
(* accounts, times and page sizes: the storage entries of the event index  *)
(* agree, the lists of invoices stay in order, and a client that reads     *)
(* page by page, while entries are added between its calls, misses none.   *)
(***************************************************************************)
EXTENDS Listings, FiniteSums, SequenceTheorems

-----------------------------------------------------------------------------
(* The members of a set in order *)

Increasing(s) == \A j, k \in DOMAIN s : j < k => s[j] < s[k]

Rank(S, x) == Cardinality({y \in S : y < x})

(* A larger member has more smaller ones, and every rank is taken.         *)
LEMMA RankFacts ==
  ASSUME NEW S \in SUBSET Nat, IsFiniteSet(S)
  PROVE  /\ Cardinality(S) \in Nat
         /\ \A x \in S : Rank(S, x) \in 0 .. (Cardinality(S) - 1)
         /\ \A x, y \in S : x < y => Rank(S, x) < Rank(S, y)
         /\ \A n \in 0 .. (Cardinality(S) - 1) : \E x \in S : Rank(S, x) = n
<1> DEFINE below(x) == {y \in S : y < x}
           c == Cardinality(S)
<1>1. c \in Nat
  BY FS_CardinalityType
<1>2. ASSUME NEW x \in S PROVE Rank(S, x) \in 0 .. (c - 1)
  <2>1. IsFiniteSet(S \ {x}) /\ Cardinality(S \ {x}) = c - 1
    BY FS_RemoveElement
  <2>2. below(x) \in SUBSET (S \ {x})
    OBVIOUS
  <2> HIDE DEF below
  <2>3. IsFiniteSet(below(x)) /\ Cardinality(below(x)) <= c - 1
    BY <2>1, <2>2, FS_Subset
  <2>4. Cardinality(below(x)) \in Nat
    BY <2>3, FS_CardinalityType
  <2> QED BY <1>1, <2>3, <2>4 DEF Rank, below
<1>3. ASSUME NEW x \in S, NEW y \in S, x < y PROVE Rank(S, x) < Rank(S, y)
  <2>1. IsFiniteSet(below(y)) /\ below(y) \in SUBSET S
    BY FS_Subset
  <2>2. x \in below(y) /\ below(x) \in SUBSET (below(y) \ {x})
    <3>1. \A z \in S : z \in Nat /\ (z < x => z < y /\ z # x)
      BY <1>3
    <3> QED BY <1>3, <3>1
  <2> HIDE DEF below
  <2>3. IsFiniteSet(below(y) \ {x}) /\ Cardinality(below(y) \ {x}) = Cardinality(below(y)) - 1
    BY <2>1, <2>2, FS_RemoveElement
  <2>4. IsFiniteSet(below(x)) /\ Cardinality(below(x)) <= Cardinality(below(y) \ {x})
    BY <2>2, <2>3, FS_Subset
  <2>5. Cardinality(below(x)) \in Nat /\ Cardinality(below(y)) \in Nat
    BY <2>1, <2>4, FS_CardinalityType
  <2> QED BY <2>3, <2>4, <2>5 DEF Rank, below
<1>4. ASSUME NEW n \in 0 .. (c - 1) PROVE \E x \in S : Rank(S, x) = n
  <2> DEFINE ranks == 0 .. (c - 1)
             f == [x \in S |-> Rank(S, x)]
  <2>1. IsFiniteSet(ranks) /\ Cardinality(ranks) = c
    <3>1. 0 \in Int /\ c - 1 \in Int
      BY <1>1
    <3>2. IsFiniteSet(0 .. (c - 1))
          /\ Cardinality(0 .. (c - 1)) = IF 0 > c - 1 THEN 0 ELSE (c - 1) - 0 + 1
      BY <3>1, FS_Interval
    <3> QED BY <1>1, <3>2
  <2>2. f \in [S -> ranks]
    BY <1>2
  <2>3. \A x, y \in S : f[x] = f[y] => x = y
    <3>1. \A x, y \in S : x < y \/ y < x \/ x = y
      OBVIOUS
    <3>2. \A x \in S : f[x] = Rank(S, x) /\ Rank(S, x) \in Int
      BY <1>2
    <3> HIDE DEF f
    <3> QED BY <1>3, <3>1, <3>2
  <2> HIDE DEF f, ranks
  <2>4. f \in Injection(S, ranks)
    BY <2>2, <2>3 DEF Injection, IsInjective
  <2>5. f \in Surjection(S, ranks)
    BY <2>1, <2>4, FS_Injection
  <2>6. \E x \in S : f[x] = n
    BY <2>5 DEF ranks, Surjection
  <2> QED BY <2>6 DEF f
<1> QED BY <1>1, <1>2, <1>3, <1>4

LEMMA InOrderFacts ==
  ASSUME NEW S \in SUBSET Nat, IsFiniteSet(S)
  PROVE  /\ InOrder(S) \in Seq(S)
         /\ Len(InOrder(S)) = Cardinality(S)
         /\ DOMAIN InOrder(S) = 1 .. Cardinality(S)
         /\ \A n \in 1 .. Cardinality(S) :
              InOrder(S)[n] \in S /\ Rank(S, InOrder(S)[n]) = n - 1
         /\ \A x \in S : Rank(S, x) + 1 \in 1 .. Cardinality(S)
                         /\ InOrder(S)[Rank(S, x) + 1] = x
         /\ Increasing(InOrder(S))
         /\ ToSet(InOrder(S)) = S
<1> DEFINE c == Cardinality(S)
           s == InOrder(S)
<1>1. /\ c \in Nat
      /\ \A x \in S : Rank(S, x) \in 0 .. (c - 1)
      /\ \A x, y \in S : x < y => Rank(S, x) < Rank(S, y)
      /\ \A n \in 0 .. (c - 1) : \E x \in S : Rank(S, x) = n
  BY RankFacts
<1>2. s = [n \in 1 .. c |-> CHOOSE x \in S : Rank(S, x) = n - 1]
  BY DEF InOrder, Rank
<1> HIDE DEF s, c
<1>3. ASSUME NEW n \in 1 .. c PROVE s[n] \in S /\ Rank(S, s[n]) = n - 1
  <2>1. \E x \in S : Rank(S, x) = n - 1
    <3>1. n - 1 \in 0 .. (c - 1)
      BY <1>1
    <3> QED BY <1>1, <3>1
  <2> QED BY <1>2, <2>1
<1>4. s \in [1 .. c -> S]
  BY <1>2, <1>3
<1>5. s \in Seq(S) /\ Len(s) = c /\ DOMAIN s = 1 .. c
  BY <1>1, <1>4
<1>6. \A x, y \in S : Rank(S, x) = Rank(S, y) => x = y
  <2>1. \A x, y \in S : x < y \/ y < x \/ x = y
    OBVIOUS
  <2>2. \A x \in S : Rank(S, x) \in Int
    BY <1>1
  <2> QED BY <1>1, <2>1, <2>2
<1>7. ASSUME NEW x \in S PROVE Rank(S, x) + 1 \in 1 .. c /\ s[Rank(S, x) + 1] = x
  <2> DEFINE n == Rank(S, x) + 1
  <2>1. n \in 1 .. c /\ n - 1 = Rank(S, x)
    BY <1>1
  <2>2. s[n] \in S /\ Rank(S, s[n]) = Rank(S, x)
    BY <1>3, <2>1
  <2> QED BY <1>6, <2>1, <2>2
<1>8. Increasing(s)
  <2> SUFFICES ASSUME NEW j \in 1 .. c, NEW k \in 1 .. c, j < k PROVE s[j] < s[k]
    BY <1>5 DEF Increasing
  <2>1. s[j] \in S /\ s[k] \in S /\ Rank(S, s[j]) = j - 1 /\ Rank(S, s[k]) = k - 1
    BY <1>3
  <2>2. s[j] \in Nat /\ s[k] \in Nat
    BY <2>1
  <2>3. j - 1 < k - 1 /\ j - 1 \in Int /\ k - 1 \in Int
    BY <1>1
  <2>4. ~ (s[k] < s[j])
    <3>1. s[k] < s[j] => k - 1 < j - 1
      BY <1>1, <2>1
    <3> QED BY <2>3, <3>1
  <2>5. s[j] # s[k]
    BY <2>1, <2>3
  <2> QED BY <2>2, <2>4, <2>5
<1>9. ToSet(s) = S
  <2>1. \A k \in 1 .. c : s[k] \in S
    BY <1>3
  <2>2. \A x \in S : \E k \in 1 .. c : s[k] = x
    BY <1>7
  <2> QED BY <1>5, <2>1, <2>2 DEF ToSet
<1> QED BY <1>3, <1>5, <1>7, <1>8, <1>9 DEF s, c

(* There is no other list of the same members in order.                    *)
LEMMA InOrderUnique ==
  ASSUME NEW s \in Seq(Nat), Increasing(s), NEW S, S = ToSet(s)
  PROVE  S \in SUBSET Nat /\ IsFiniteSet(S) /\ s = InOrder(S)
<1> DEFINE l == Len(s)
<1>1. l \in Nat /\ DOMAIN s = 1 .. l /\ s \in [1 .. l -> Nat]
  OBVIOUS
<1>2. S = {s[k] : k \in 1 .. l} /\ S \in SUBSET Nat
  BY <1>1 DEF ToSet
<1> HIDE DEF l
<1>3. \A j, k \in 1 .. l : s[j] = s[k] => j = k
  <2>1. \A j, k \in 1 .. l : j < k \/ k < j \/ j = k
    BY <1>1
  <2>2. \A j \in 1 .. l : s[j] \in Nat
    BY <1>1
  <2> QED BY <1>1, <2>1, <2>2 DEF Increasing
<1>4. ASSUME NEW n \in 0 .. l, NEW T, T = {s[k] : k \in 1 .. n}
      PROVE  IsFiniteSet(T) /\ Cardinality(T) = n
  <2> DEFINE f == [k \in 1 .. n |-> s[k]]
  <2>1. n \in Nat /\ 1 .. n \subseteq 1 .. l
    BY <1>1
  <2>2. f \in [1 .. n -> T] /\ \A k \in 1 .. n : f[k] = s[k]
    BY <1>4
  <2>3. \A x \in T : \E k \in 1 .. n : f[k] = x
    BY <1>4
  <2> HIDE DEF f
  <2>4. \A j, k \in 1 .. n : f[j] = f[k] => j = k
    BY <1>3, <2>1, <2>2
  <2>5. f \in Surjection(1 .. n, T) /\ f \in Injection(1 .. n, T)
    BY <2>2, <2>3, <2>4 DEF Injection, IsInjective, Surjection
  <2>6. ExistsBijection(1 .. n, T)
    BY <2>5 DEF ExistsBijection, Bijection
  <2>7. IsFiniteSet(1 .. n) /\ Cardinality(1 .. n) = n
    <3>1. 1 \in Int /\ n \in Int
      BY <2>1
    <3>2. IsFiniteSet(1 .. n) /\ Cardinality(1 .. n) = IF 1 > n THEN 0 ELSE n - 1 + 1
      BY <3>1, FS_Interval
    <3> QED BY <2>1, <3>2
  <2> QED BY <2>6, <2>7, FS_Bijection
<1>5. IsFiniteSet(S) /\ Cardinality(S) = l
  <2>1. l \in 0 .. l
    BY <1>1
  <2> QED BY <1>2, <1>4, <2>1
<1>6. ASSUME NEW k \in 1 .. l PROVE InOrder(S)[k] = s[k]
  <2> DEFINE T == {y \in S : y < s[k]}
  <2>1. T = {s[j] : j \in 1 .. (k - 1)}
    <3>1. \A j \in 1 .. (k - 1) : j \in 1 .. l /\ s[j] < s[k]
      BY <1>1 DEF Increasing
    <3>2. ASSUME NEW j \in 1 .. l, s[j] < s[k] PROVE j \in 1 .. (k - 1)
      <4>1. CASE j = k
        BY <1>1, <3>2, <4>1
      <4>2. CASE j > k
        <5>1. s[k] < s[j] /\ s[k] \in Nat /\ s[j] \in Nat
          BY <1>1, <4>2 DEF Increasing
        <5> QED BY <3>2, <5>1
      <4> QED BY <1>1, <4>1, <4>2
    <3> QED BY <1>2, <3>1, <3>2
  <2>2. k - 1 \in 0 .. l
    BY <1>1
  <2> HIDE DEF T
  <2>3. Cardinality(T) = k - 1
    BY <1>4, <2>1, <2>2
  <2>4. s[k] \in S /\ Rank(S, s[k]) = k - 1
    BY <1>2, <2>3 DEF Rank, T
  <2>5. InOrder(S)[Rank(S, s[k]) + 1] = s[k]
    BY <1>2, <1>5, <2>4, InOrderFacts
  <2>6. (k - 1) + 1 = k
    BY <1>1
  <2> QED BY <2>4, <2>5, <2>6
<1>7. InOrder(S) \in Seq(S) /\ Len(InOrder(S)) = l
  BY <1>2, <1>5, InOrderFacts
<1>8. InOrder(S) \in Seq(Nat)
  BY <1>2, <1>7, SeqMonotonic
<1>9. Len(s) = Len(InOrder(S)) /\ \A k \in 1 .. Len(s) : s[k] = InOrder(S)[k]
  BY <1>6, <1>7 DEF l
<1>10. s = InOrder(S)
  BY <1>8, <1>9, SeqEqual
<1> QED BY <1>2, <1>5, <1>10

(* A number above all others comes last.                                   *)
LEMMA InOrderAppend ==
  ASSUME NEW S \in SUBSET Nat, IsFiniteSet(S), NEW m \in Nat, \A x \in S : x < m
  PROVE  InOrder(S \cup {m}) = Append(InOrder(S), m)
<1> DEFINE s == InOrder(S)
           l == Cardinality(S)
           t == Append(s, m)
<1>1. s \in Seq(S) /\ Len(s) = l /\ Increasing(s) /\ ToSet(s) = S /\ l \in Nat
      /\ DOMAIN s = 1 .. l
  BY InOrderFacts, RankFacts
<1> HIDE DEF s, l
<1>2. s \in Seq(Nat)
  BY <1>1, SeqMonotonic
<1>3. t \in Seq(Nat) /\ Len(t) = l + 1 /\ (\A k \in 1 .. l : t[k] = s[k]) /\ t[l + 1] = m
  BY <1>1, <1>2, AppendProperties
<1>4. DOMAIN t = 1 .. (l + 1)
  BY <1>3
<1> HIDE DEF t
<1>5. \A k \in 1 .. l : s[k] \in S /\ s[k] \in Nat
  <2>1. \A k \in DOMAIN s : s[k] \in S
    BY <1>1
  <2> QED BY <1>1, <2>1
<1>6. Increasing(t)
  <2> SUFFICES ASSUME NEW j \in 1 .. (l + 1), NEW k \in 1 .. (l + 1), j < k PROVE t[j] < t[k]
    BY <1>4 DEF Increasing
  <2>1. j \in 1 .. l
    BY <1>1
  <2>2. CASE k \in 1 .. l
    BY <1>1, <1>3, <2>1, <2>2 DEF Increasing
  <2>3. CASE k = l + 1
    BY <1>3, <1>5, <2>1, <2>3
  <2> QED BY <1>1, <2>2, <2>3
<1>7. ToSet(t) = S \cup {m}
  <2>1. ToSet(t) = {t[k] : k \in 1 .. (l + 1)} /\ S = {s[k] : k \in 1 .. l}
    BY <1>1, <1>4 DEF ToSet
  <2>2. l + 1 \in 1 .. (l + 1) /\ \A k \in 1 .. (l + 1) : k \in 1 .. l \/ k = l + 1
    BY <1>1
  <2>3. \A k \in 1 .. l : k \in 1 .. (l + 1)
    BY <1>1
  <2> QED BY <1>3, <2>1, <2>2, <2>3
<1> QED BY <1>3, <1>6, <1>7, InOrderUnique DEF t, s

LEMMA InOrderInterval ==
  ASSUME NEW n \in Nat
  PROVE  InOrder(1 .. n) = [k \in 1 .. n |-> k]
<1> DEFINE s == [k \in 1 .. n |-> k]
<1>1. s \in Seq(Nat) /\ DOMAIN s = 1 .. n
  OBVIOUS
<1>2. Increasing(s)
  BY DEF Increasing
<1>3. ToSet(s) = 1 .. n
  BY DEF ToSet
<1> HIDE DEF s
<1>4. s = InOrder(1 .. n)
  BY <1>1, <1>2, <1>3, InOrderUnique
<1> QED BY <1>4 DEF s

(* Keeping every entry changes nothing.                                    *)
LEMMA KeptAll ==
  ASSUME NEW R, NEW s \in Seq(R), NEW S, \A k \in DOMAIN s : s[k] \in S
  PROVE  Kept(s, S) = s
<1> DEFINE at == InOrder({k \in DOMAIN s : s[k] \in S})
<1>1. Len(s) \in Nat /\ DOMAIN s = 1 .. Len(s)
  OBVIOUS
<1>2. {k \in DOMAIN s : s[k] \in S} = 1 .. Len(s)
  BY <1>1
<1>3. at = [k \in 1 .. Len(s) |-> k]
  BY <1>1, <1>2, InOrderInterval
<1>4. Kept(s, S) = [n \in DOMAIN at |-> s[at[n]]]
  BY DEF Kept
<1> HIDE DEF at
<1>5. Kept(s, S) = [n \in 1 .. Len(s) |-> s[n]]
  BY <1>3, <1>4
<1> QED BY <1>1, <1>5

(* Keeping some members of an ordered list orders those.                   *)
LEMMA KeptInOrder ==
  ASSUME NEW S \in SUBSET Nat, IsFiniteSet(S), NEW T
  PROVE  Kept(InOrder(S), T) = InOrder(S \cap T)
<1> DEFINE s == InOrder(S)
           l == Cardinality(S)
           K == {k \in DOMAIN s : s[k] \in T}
           at == InOrder(K)
           m == Cardinality(K)
           t == [n \in DOMAIN at |-> s[at[n]]]
<1>1. s \in Seq(S) /\ Increasing(s) /\ ToSet(s) = S /\ l \in Nat /\ DOMAIN s = 1 .. l
  BY InOrderFacts, RankFacts
<1> HIDE DEF s, l
<1>2. \A k \in 1 .. l : s[k] \in S /\ s[k] \in Nat
  <2>1. \A k \in DOMAIN s : s[k] \in S
    BY <1>1
  <2> QED BY <1>1, <2>1
<1>3. K \in SUBSET Nat /\ IsFiniteSet(K) /\ K \in SUBSET (1 .. l)
  <2>1. K \in SUBSET (1 .. l) /\ IsFiniteSet(1 .. l)
    BY <1>1, FS_Interval
  <2> HIDE DEF K
  <2>2. IsFiniteSet(K)
    BY <2>1, FS_Subset
  <2> QED BY <2>1, <2>2
<1>4. K = {k \in 1 .. l : s[k] \in T}
  BY <1>1
<1> HIDE DEF K
<1>5. /\ m \in Nat /\ DOMAIN at = 1 .. m /\ Increasing(at) /\ ToSet(at) = K
      /\ \A n \in 1 .. m : at[n] \in K
  BY <1>3, InOrderFacts, RankFacts
<1> HIDE DEF at, m
<1>6. \A n \in 1 .. m : at[n] \in 1 .. l /\ s[at[n]] \in S /\ s[at[n]] \in T /\ s[at[n]] \in Nat
  BY <1>2, <1>3, <1>4, <1>5
<1>7. t = [n \in 1 .. m |-> s[at[n]]]
  BY <1>5
<1>8. t \in [1 .. m -> Nat] /\ DOMAIN t = 1 .. m /\ \A n \in 1 .. m : t[n] = s[at[n]]
  BY <1>6, <1>7
<1> HIDE DEF t
<1>9. t \in Seq(Nat)
  BY <1>5, <1>8
<1>10. Increasing(t)
  <2> SUFFICES ASSUME NEW j \in 1 .. m, NEW k \in 1 .. m, j < k PROVE s[at[j]] < s[at[k]]
    BY <1>8 DEF Increasing
  <2>1. at[j] < at[k]
    BY <1>5 DEF Increasing
  <2> QED BY <1>1, <1>6, <2>1 DEF Increasing
<1>11. ToSet(t) = S \cap T
  <2>1. ToSet(t) = {t[n] : n \in 1 .. m}
    BY <1>8 DEF ToSet
  <2>2. \A n \in 1 .. m : t[n] \in S \cap T
    BY <1>6, <1>8
  <2>3. ASSUME NEW x \in S \cap T PROVE \E n \in 1 .. m : t[n] = x
    <3>1. PICK k \in 1 .. l : s[k] = x
      BY <1>1 DEF ToSet
    <3>2. k \in K
      BY <1>4, <3>1
    <3>3. PICK n \in 1 .. m : at[n] = k
      BY <1>5, <3>2 DEF ToSet
    <3> QED BY <1>8, <3>1, <3>3
  <2> QED BY <2>1, <2>2, <2>3
<1>12. t = InOrder(S \cap T)
  BY <1>9, <1>10, <1>11, InOrderUnique
<1> QED BY <1>12 DEF Kept, t, at, K, s

(* The n-th member of a part is no smaller than that of the whole.         *)
LEMMA PartIsLater ==
  ASSUME NEW S \in SUBSET Nat, IsFiniteSet(S), NEW T \in SUBSET S
  PROVE  /\ IsFiniteSet(T) /\ Cardinality(T) <= Cardinality(S)
         /\ \A n \in 1 .. Cardinality(T) : InOrder(S)[n] <= InOrder(T)[n]
<1>1. IsFiniteSet(T) /\ Cardinality(T) <= Cardinality(S) /\ T \in SUBSET Nat
      /\ Cardinality(S) \in Nat /\ Cardinality(T) \in Nat
  BY FS_Subset, FS_CardinalityType
<1>2. ASSUME NEW n \in 1 .. Cardinality(T) PROVE InOrder(S)[n] <= InOrder(T)[n]
  <2> DEFINE x == InOrder(T)[n]
             y == InOrder(S)[n]
  <2>1. x \in T /\ Rank(T, x) = n - 1
    BY <1>1, InOrderFacts
  <2>2. n \in 1 .. Cardinality(S)
    BY <1>1
  <2>3. y \in S /\ Rank(S, y) = n - 1
    BY <2>2, InOrderFacts
  <2> HIDE DEF x, y
  <2>4. Rank(T, x) <= Rank(S, x)
    <3> DEFINE A == {z \in T : z < x}
               B == {z \in S : z < x}
    <3>1. B \in SUBSET S /\ A \in SUBSET B
      OBVIOUS
    <3> HIDE DEF A, B
    <3>2. IsFiniteSet(B)
      BY <3>1, FS_Subset
    <3>3. Cardinality(A) <= Cardinality(B)
      BY <3>1, <3>2, FS_Subset
    <3> QED BY <3>3 DEF Rank, A, B
  <2>5. x < y => Rank(S, x) < Rank(S, y)
    BY <2>1, <2>3, RankFacts
  <2>6. Rank(S, x) \in Int /\ Rank(S, y) \in Int
    BY <1>1, <2>1, <2>3, RankFacts
  <2>7. x \in Nat /\ y \in Nat
    BY <1>1, <2>1, <2>3
  <2> QED BY <2>1, <2>3, <2>4, <2>5, <2>6, <2>7 DEF x, y
<1> QED BY <1>1, <1>2

-----------------------------------------------------------------------------
(* Inserting into a list of invoices *)

Sorted(s) == \A j, k \in DOMAIN s : j <= k => s[j] <= s[k]

(* The id takes a place, the entries before it are smaller and stay, the   *)
(* others move on by one.                                                  *)
InsertedAt(t, s, i, pos) ==
  /\ t[pos] = i
  /\ \A k \in 1 .. (pos - 1) : t[k] = s[k] /\ s[k] < i
  /\ \A k \in pos .. Len(s) : t[k + 1] = s[k]
  /\ pos <= Len(s) => i <= s[pos]

LEMMA InsertPlaces ==
  ASSUME NEW s \in Seq(Ids), NEW i \in Ids
  PROVE  /\ InsertSortedId(s, i) \in Seq(Ids)
         /\ Len(InsertSortedId(s, i)) = Len(s) + 1
         /\ \E pos \in 1 .. (Len(s) + 1) : InsertedAt(InsertSortedId(s, i), s, i, pos)
<1> DEFINE l == Len(s)
           t == InsertSortedId(s, i)
           I == {k \in 1 .. l : s[k] >= i}
           first == IF I # {} THEN Min(I) ELSE 0
<1>1. l \in Nat /\ DOMAIN s = 1 .. l /\ \A k \in 1 .. l : s[k] \in Ids
  <2>1. \A k \in DOMAIN s : s[k] \in Ids
    OBVIOUS
  <2> QED BY <2>1
<1>2. i \in Nat /\ \A k \in 1 .. l : s[k] \in Nat
  <2>1. Ids \subseteq Nat
    BY OriginatorIndexAssumption
  <2> QED BY <1>1, <2>1
<1>3. t = IF first = 0 THEN Append(s, i) ELSE InsertAt(s, first, i)
  BY DEF InsertSortedId, SelectInSeq
<1> HIDE DEF t
<1>4. CASE I = {}
  <2>1. first = 0
    BY <1>4
  <2>2. t = Append(s, i)
    BY <1>3, <2>1
  <2>3. t \in Seq(Ids) /\ Len(t) = l + 1 /\ (\A k \in 1 .. l : t[k] = s[k]) /\ t[l + 1] = i
    BY <2>2, AppendProperties
  <2>4. \A k \in 1 .. l : s[k] < i
    <3>1. \A k \in 1 .. l : ~ (s[k] >= i)
      BY <1>4
    <3> QED BY <1>2, <3>1
  <2>5. InsertedAt(t, s, i, l + 1)
    BY <1>1, <2>3, <2>4 DEF InsertedAt
  <2> QED BY <1>1, <2>3, <2>5 DEF t, l
<1>5. CASE I # {}
  <2>1. first \in I /\ \A k \in I : first <= k
    <3>1. I \in SUBSET Nat
      OBVIOUS
    <3>2. PICK m \in I : \A k \in I : m <= k
      BY <1>5, <3>1, LeastNatural
    <3> HIDE DEF I
    <3>3. Min(I) \in I /\ \A k \in I : Min(I) <= k
      BY <3>2 DEF Min
    <3> QED BY <1>5, <3>3
  <2> HIDE DEF first
  <2>2. first \in 1 .. l /\ s[first] >= i
    BY <2>1
  <2>3. \A k \in 1 .. (first - 1) : s[k] < i
    <3>1. ASSUME NEW k \in 1 .. (first - 1) PROVE s[k] < i
      <4>1. k \in 1 .. l /\ k \notin I
        BY <1>1, <2>1, <2>2
      <4> HIDE DEF I
      <4>2. ~ (s[k] >= i)
        BY <4>1 DEF I
      <4>3. s[k] \in Nat /\ i \in Nat
        BY <1>2, <4>1
      <4> QED BY <4>2, <4>3
    <3> QED BY <3>1
  <2> HIDE DEF I
  <2> DEFINE a == SubSeq(s, 1, first - 1)
             b == SubSeq(s, first, l)
             ai == a \o <<i>>
  <2>4. /\ a \in Seq(Ids) /\ Len(a) = first - 1
        /\ \A k \in 1 .. (first - 1) : a[k] = s[k]
    <3>1. 1 \in Int /\ first - 1 \in Int /\ \A k \in 1 .. (first - 1) : s[k] \in Ids
      BY <1>1, <2>2
    <3>2. /\ SubSeq(s, 1, first - 1) \in Seq(Ids)
          /\ Len(SubSeq(s, 1, first - 1)) = IF 1 <= first - 1 THEN (first - 1) - 1 + 1 ELSE 0
          /\ \A k \in 1 .. (first - 1) - 1 + 1 :
               SubSeq(s, 1, first - 1)[k] = s[1 + k - 1]
      BY <3>1, SubSeqProperties
    <3> QED BY <1>1, <2>2, <3>2
  <2>5. /\ b \in Seq(Ids) /\ Len(b) = l - first + 1
        /\ \A k \in 1 .. (l - first + 1) : b[k] = s[first + k - 1]
    <3>1. first \in Int /\ l \in Int /\ \A k \in first .. l : s[k] \in Ids
      BY <1>1, <2>2
    <3>2. /\ SubSeq(s, first, l) \in Seq(Ids)
          /\ Len(SubSeq(s, first, l)) = IF first <= l THEN l - first + 1 ELSE 0
          /\ \A k \in 1 .. l - first + 1 : SubSeq(s, first, l)[k] = s[first + k - 1]
      BY <3>1, SubSeqProperties
    <3> QED BY <2>2, <3>2
  <2>6. t = ai \o b
    <3>1. first # 0
      BY <2>2
    <3> QED BY <1>3, <3>1 DEF InsertAt
  <2> HIDE DEF a, b
  <2>7. ai \in Seq(Ids) /\ Len(ai) = first
        /\ \A k \in 1 .. first : ai[k] = IF k <= first - 1 THEN s[k] ELSE i
    <3>1. <<i>> \in Seq(Ids) /\ Len(<<i>>) = 1 /\ <<i>>[1] = i
      OBVIOUS
    <3>2. /\ a \o <<i>> \in Seq(Ids)
          /\ Len(a \o <<i>>) = Len(a) + Len(<<i>>)
          /\ \A k \in 1 .. Len(a) + Len(<<i>>) :
               (a \o <<i>>)[k] = IF k <= Len(a) THEN a[k] ELSE <<i>>[k - Len(a)]
      BY <2>4, <3>1, ConcatProperties
    <3>3. first \in Int /\ Len(a) + Len(<<i>>) = first
      BY <2>2, <2>4, <3>1
    <3>4. ASSUME NEW k \in 1 .. first PROVE ai[k] = IF k <= first - 1 THEN s[k] ELSE i
      <4>1. ai[k] = IF k <= first - 1 THEN a[k] ELSE <<i>>[k - (first - 1)]
        BY <2>4, <3>2, <3>3
      <4>2. CASE k <= first - 1
        BY <2>4, <3>3, <4>1, <4>2
      <4>3. CASE ~ (k <= first - 1)
        <5>1. k - (first - 1) = 1
          BY <3>3, <4>3
        <5> QED BY <3>1, <4>1, <4>3, <5>1
      <4> QED BY <4>2, <4>3
    <3> QED BY <3>2, <3>3, <3>4
  <2> HIDE DEF ai
  <2>8. /\ t \in Seq(Ids) /\ Len(t) = l + 1
        /\ \A k \in 1 .. (l + 1) : t[k] = IF k <= first THEN ai[k] ELSE b[k - first]
    <3>1. /\ ai \o b \in Seq(Ids)
          /\ Len(ai \o b) = Len(ai) + Len(b)
          /\ \A k \in 1 .. Len(ai) + Len(b) :
               (ai \o b)[k] = IF k <= Len(ai) THEN ai[k] ELSE b[k - Len(ai)]
      BY <2>5, <2>7, ConcatProperties
    <3>2. Len(ai) + Len(b) = l + 1
      BY <1>1, <2>2, <2>5, <2>7
    <3> QED BY <2>6, <2>7, <3>1, <3>2
  <2>9. InsertedAt(t, s, i, first)
    <3>1. t[first] = i
      <4>1. first \in 1 .. (l + 1) /\ first \in 1 .. first /\ ~ (first <= first - 1)
        BY <1>1, <2>2
      <4> QED BY <2>7, <2>8, <4>1
    <3>2. \A k \in 1 .. (first - 1) : t[k] = s[k]
      <4>1. \A k \in 1 .. (first - 1) : k \in 1 .. (l + 1) /\ k \in 1 .. first /\ k <= first
                                         /\ k <= first - 1
        BY <1>1, <2>2
      <4> QED BY <2>7, <2>8, <4>1
    <3>3. ASSUME NEW k \in first .. l PROVE t[k + 1] = s[k]
      <4>1. k + 1 \in 1 .. (l + 1) /\ ~ (k + 1 <= first) /\ (k + 1) - first \in 1 .. (l - first + 1)
            /\ first + ((k + 1) - first) - 1 = k
        BY <1>1, <2>2
      <4>2. t[k + 1] = b[(k + 1) - first]
        BY <2>8, <4>1
      <4> QED BY <2>5, <4>1, <4>2
    <3>4. i <= s[first]
      BY <1>1, <1>2, <2>2
    <3> QED BY <2>3, <3>1, <3>2, <3>3, <3>4 DEF InsertedAt, l
  <2>10. first \in 1 .. (l + 1)
    BY <1>1, <2>2
  <2> QED BY <2>8, <2>9, <2>10 DEF t, l
<1> QED BY <1>4, <1>5

(* How a list grows: no entry moves to an earlier place.                   *)
Grown(s, t) ==
  /\ t \in Seq(Ids)
  /\ Sorted(t)
  /\ t = s \/ Len(t) > Len(s)
  /\ \A k \in DOMAIN s : \E m \in DOMAIN t : k <= m /\ t[m] = s[k]

LEMMA InsertGrows ==
  ASSUME NEW s \in Seq(Ids), Sorted(s), NEW i \in Ids
  PROVE  /\ Grown(s, InsertSortedId(s, i))
         /\ i \in ToSet(InsertSortedId(s, i))
<1> DEFINE l == Len(s)
           t == InsertSortedId(s, i)
<1>1. l \in Nat /\ DOMAIN s = 1 .. l /\ \A k \in 1 .. l : s[k] \in Ids
  <2>1. \A k \in DOMAIN s : s[k] \in Ids
    OBVIOUS
  <2> QED BY <2>1
<1>2. t \in Seq(Ids) /\ Len(t) = l + 1 /\ \E pos \in 1 .. (l + 1) : InsertedAt(t, s, i, pos)
  BY InsertPlaces
<1> HIDE DEF t
<1>3. PICK pos \in 1 .. (l + 1) :
        /\ t[pos] = i
        /\ \A k \in 1 .. (pos - 1) : t[k] = s[k] /\ s[k] < i
        /\ \A k \in pos .. l : t[k + 1] = s[k]
        /\ pos <= l => i <= s[pos]
  BY <1>2 DEF InsertedAt
<1>4. DOMAIN t = 1 .. (l + 1)
  BY <1>2
<1> HIDE DEF l
<1>5. i \in Nat /\ \A k \in 1 .. l : s[k] \in Nat
  <2>1. Ids \subseteq Nat
    BY OriginatorIndexAssumption
  <2> QED BY <1>1, <2>1
<1>6. \A j, k \in 1 .. l : j <= k => s[j] <= s[k]
  BY <1>1 DEF Sorted
<1>7. \A k \in pos .. l : i <= s[k]
  <2> SUFFICES ASSUME NEW k \in pos .. l PROVE i <= s[k]
    OBVIOUS
  <2>1. pos \in 1 .. l /\ k \in 1 .. l /\ pos <= k
    BY <1>1
  <2>2. i <= s[pos] /\ s[pos] <= s[k]
    BY <1>3, <1>6, <2>1
  <2>3. i \in Nat /\ s[pos] \in Nat /\ s[k] \in Nat
    BY <1>5, <2>1
  <2> QED BY <2>2, <2>3
<1>8. Sorted(t)
  <2> SUFFICES ASSUME NEW j \in 1 .. (l + 1), NEW k \in 1 .. (l + 1), j <= k PROVE t[j] <= t[k]
    BY <1>4 DEF Sorted
  <2>1. \A n \in 1 .. (l + 1) :
           \/ n \in 1 .. (pos - 1) /\ n \in 1 .. l
           \/ n = pos
           \/ n - 1 \in pos .. l /\ n - 1 \in 1 .. l /\ (n - 1) + 1 = n
    BY <1>1
  <2>2. \A n \in 1 .. (l + 1) :
           \/ n < pos /\ n \in 1 .. l /\ t[n] = s[n] /\ s[n] < i
           \/ n = pos /\ t[n] = i
           \/ n > pos /\ n - 1 \in 1 .. l /\ t[n] = s[n - 1] /\ i <= s[n - 1]
    <3> SUFFICES ASSUME NEW n \in 1 .. (l + 1)
                 PROVE  \/ n < pos /\ n \in 1 .. l /\ t[n] = s[n] /\ s[n] < i
                        \/ n = pos /\ t[n] = i
                        \/ n > pos /\ n - 1 \in 1 .. l /\ t[n] = s[n - 1] /\ i <= s[n - 1]
      OBVIOUS
    <3>1. CASE n \in 1 .. (pos - 1) /\ n \in 1 .. l
      BY <1>1, <1>3, <3>1
    <3>2. CASE n = pos
      BY <1>3, <3>2
    <3>3. CASE n - 1 \in pos .. l /\ n - 1 \in 1 .. l /\ (n - 1) + 1 = n
      <4>1. t[(n - 1) + 1] = s[n - 1] /\ i <= s[n - 1]
        BY <1>3, <1>7, <3>3
      <4> QED BY <1>1, <3>3, <4>1
    <3> QED BY <2>1, <3>1, <3>2, <3>3
  <2>3. CASE j < pos /\ k < pos
    BY <1>1, <1>6, <2>2, <2>3
  <2>4. CASE j < pos /\ k = pos
    <3>1. t[j] = s[j] /\ s[j] < i /\ j \in 1 .. l /\ t[k] = i
      BY <1>1, <1>3, <2>2, <2>4
    <3>2. s[j] \in Nat /\ i \in Nat
      BY <1>5, <3>1
    <3> QED BY <3>1, <3>2
  <2>5. CASE j < pos /\ k > pos
    <3>1. t[j] = s[j] /\ s[j] < i /\ j \in 1 .. l /\ t[k] = s[k - 1] /\ k - 1 \in 1 .. l
          /\ i <= s[k - 1]
      BY <1>1, <2>2, <2>5
    <3>2. s[j] \in Nat /\ s[k - 1] \in Nat /\ i \in Nat
      BY <1>5, <3>1
    <3> QED BY <3>1, <3>2
  <2>6. CASE j = pos /\ k = pos
    BY <1>1, <1>3, <1>5, <2>6
  <2>7. CASE j = pos /\ k > pos
    BY <1>1, <2>2, <2>7
  <2>8. CASE j > pos /\ k > pos
    <3>1. t[j] = s[j - 1] /\ j - 1 \in 1 .. l /\ t[k] = s[k - 1] /\ k - 1 \in 1 .. l
          /\ j - 1 <= k - 1
      BY <1>1, <2>2, <2>8
    <3> QED BY <1>6, <3>1
  <2> QED BY <1>1, <2>3, <2>4, <2>5, <2>6, <2>7, <2>8
<1>9. ASSUME NEW k \in 1 .. l PROVE \E m \in 1 .. (l + 1) : k <= m /\ t[m] = s[k]
  <2>1. CASE k < pos
    BY <1>1, <1>3, <2>1
  <2>2. CASE ~ (k < pos)
    <3>1. k \in pos .. l /\ k + 1 \in 1 .. (l + 1) /\ k <= k + 1
      BY <1>1, <2>2
    <3> QED BY <1>3, <3>1
  <2> QED BY <2>1, <2>2
<1>10. i \in ToSet(t)
  BY <1>3, <1>4 DEF ToSet
<1>11. Len(t) > Len(s)
  BY <1>1, <1>2 DEF l
<1> QED BY <1>1, <1>2, <1>4, <1>8, <1>9, <1>10, <1>11 DEF Grown, t

LEMMA GrownFacts ==
  ASSUME NEW s \in Seq(Ids), NEW t, Grown(s, t)
  PROVE  /\ Len(s) \in Nat /\ Len(t) \in Nat /\ Len(s) <= Len(t)
         /\ ToSet(s) \subseteq ToSet(t)
<1>1. Len(s) \in Nat /\ Len(t) \in Nat
  BY DEF Grown
<1>2. ToSet(s) \subseteq ToSet(t)
  BY DEF Grown, ToSet
<1> QED BY <1>1, <1>2 DEF Grown

LEMMA GrownSame ==
  ASSUME NEW s \in Seq(Ids), Sorted(s)
  PROVE  Grown(s, s)
<1>1. \A k \in DOMAIN s : k <= k
  OBVIOUS
<1> QED BY <1>1 DEF Grown

-----------------------------------------------------------------------------
(* Pages of a list *)

LEMMA PartFacts ==
  ASSUME NEW R, NEW s \in Seq(R), NEW a \in Nat, NEW b \in Nat, b <= Len(s)
  PROVE  /\ SubSeq(s, a + 1, b) \in Seq(R)
         /\ Len(SubSeq(s, a + 1, b)) = IF a < b THEN b - a ELSE 0
         /\ \A k \in 1 .. (b - a) : SubSeq(s, a + 1, b)[k] = s[a + k]
<1>1. Len(s) \in Nat /\ DOMAIN s = 1 .. Len(s) /\ \A k \in 1 .. Len(s) : s[k] \in R
  OBVIOUS
<1>2. a + 1 \in Int /\ b \in Int /\ \A k \in (a + 1) .. b : s[k] \in R
  BY <1>1
<1>3. /\ SubSeq(s, a + 1, b) \in Seq(R)
      /\ Len(SubSeq(s, a + 1, b)) = IF a + 1 <= b THEN b - (a + 1) + 1 ELSE 0
      /\ \A k \in 1 .. b - (a + 1) + 1 : SubSeq(s, a + 1, b)[k] = s[(a + 1) + k - 1]
  BY <1>2, SubSeqProperties
<1>4. ASSUME NEW k \in 1 .. (b - a) PROVE SubSeq(s, a + 1, b)[k] = s[a + k]
  <2>1. k \in 1 .. b - (a + 1) + 1 /\ (a + 1) + k - 1 = a + k
    OBVIOUS
  <2> QED BY <1>3, <2>1
<1>5. (IF a + 1 <= b THEN b - (a + 1) + 1 ELSE 0) = IF a < b THEN b - a ELSE 0
  OBVIOUS
<1> QED BY <1>3, <1>4, <1>5

LEMMA PartsJoin ==
  ASSUME NEW R, NEW s \in Seq(R), NEW a \in Nat, NEW b \in Nat, a <= b, b <= Len(s)
  PROVE  SubSeq(s, 1, a) \o SubSeq(s, a + 1, b) = SubSeq(s, 1, b)
<1> DEFINE u == SubSeq(s, 1, a)
           v == SubSeq(s, a + 1, b)
           w == SubSeq(s, 1, b)
<1>1. Len(s) \in Nat
  OBVIOUS
<1>2. \A c \in Nat : c <= Len(s) =>
        /\ SubSeq(s, 1, c) \in Seq(R)
        /\ Len(SubSeq(s, 1, c)) = c
        /\ \A k \in 1 .. c : SubSeq(s, 1, c)[k] = s[k]
  <2> SUFFICES ASSUME NEW c \in Nat, c <= Len(s)
               PROVE  /\ SubSeq(s, 1, c) \in Seq(R)
                      /\ Len(SubSeq(s, 1, c)) = c
                      /\ \A k \in 1 .. c : SubSeq(s, 1, c)[k] = s[k]
    OBVIOUS
  <2>1. 0 \in Nat /\ 0 + 1 = 1 /\ c - 0 = c /\ \A k \in 1 .. c : 0 + k = k
    OBVIOUS
  <2>2. /\ SubSeq(s, 0 + 1, c) \in Seq(R)
        /\ Len(SubSeq(s, 0 + 1, c)) = IF 0 < c THEN c - 0 ELSE 0
        /\ \A k \in 1 .. (c - 0) : SubSeq(s, 0 + 1, c)[k] = s[0 + k]
    BY <2>1, PartFacts
  <2>3. (IF 0 < c THEN c - 0 ELSE 0) = c
    OBVIOUS
  <2> QED BY <2>1, <2>2, <2>3
<1>3. u \in Seq(R) /\ Len(u) = a /\ \A k \in 1 .. a : u[k] = s[k]
  BY <1>1, <1>2
<1>4. w \in Seq(R) /\ Len(w) = b /\ \A k \in 1 .. b : w[k] = s[k]
  BY <1>1, <1>2
<1>5. v \in Seq(R) /\ Len(v) = b - a /\ \A k \in 1 .. (b - a) : v[k] = s[a + k]
  BY PartFacts
<1> HIDE DEF u, v, w
<1>6. /\ u \o v \in Seq(R)
      /\ Len(u \o v) = Len(u) + Len(v)
      /\ \A k \in 1 .. Len(u) + Len(v) :
           (u \o v)[k] = IF k <= Len(u) THEN u[k] ELSE v[k - Len(u)]
  BY <1>3, <1>5, ConcatProperties
<1>7. Len(u) + Len(v) = b
  BY <1>3, <1>5
<1>8. ASSUME NEW k \in 1 .. b PROVE (u \o v)[k] = w[k]
  <2>1. (u \o v)[k] = IF k <= a THEN u[k] ELSE v[k - a]
    BY <1>3, <1>6, <1>7
  <2>2. CASE k <= a
    BY <1>3, <1>4, <2>1, <2>2
  <2>3. CASE ~ (k <= a)
    <3>1. k - a \in 1 .. (b - a) /\ a + (k - a) = k
      BY <2>3
    <3> QED BY <1>4, <1>5, <2>1, <2>3, <3>1
  <2> QED BY <2>2, <2>3
<1>9. u \o v = w
  <2> DEFINE x == u \o v
  <2>1. x \in Seq(R) /\ Len(x) = b /\ \A k \in 1 .. b : x[k] = w[k]
    BY <1>6, <1>7, <1>8
  <2> HIDE DEF x
  <2>2. x = w
    BY <1>4, <2>1, SeqEqual
  <2> QED BY <2>2 DEF x
<1> QED BY <1>9 DEF u, v, w

LEMMA WholeSeq ==
  ASSUME NEW R, NEW s \in Seq(R)
  PROVE  SubSeq(s, 1, Len(s)) = s /\ SubSeq(s, 1, 0) = << >>
<1> DEFINE w == SubSeq(s, 1, Len(s))
           e == SubSeq(s, 1, 0)
           l == Len(s)
<1>1. l \in Nat /\ 0 \in Nat /\ 0 + 1 = 1 /\ 0 <= l
  OBVIOUS
<1>2. w \in Seq(R) /\ Len(w) = l /\ \A k \in 1 .. l : w[k] = s[k]
  <2>1. /\ SubSeq(s, 0 + 1, l) \in Seq(R)
        /\ Len(SubSeq(s, 0 + 1, l)) = IF 0 < l THEN l - 0 ELSE 0
        /\ \A k \in 1 .. (l - 0) : SubSeq(s, 0 + 1, l)[k] = s[0 + k]
    BY <1>1, PartFacts
  <2>2. (IF 0 < l THEN l - 0 ELSE 0) = l /\ l - 0 = l /\ \A k \in 1 .. l : 0 + k = k
    BY <1>1
  <2> QED BY <1>1, <2>1, <2>2
<1>3. e \in Seq(R) /\ Len(e) = 0
  <2>1. /\ SubSeq(s, 0 + 1, 0) \in Seq(R)
        /\ Len(SubSeq(s, 0 + 1, 0)) = IF 0 < 0 THEN 0 - 0 ELSE 0
    BY <1>1, PartFacts
  <2> QED BY <1>1, <2>1
<1> HIDE DEF w, e
<1>4. w = s
  BY <1>2, SeqEqual DEF l
<1>5. e = << >>
  BY <1>3
<1> QED BY <1>4, <1>5 DEF w, e

(* A page holds the entries behind the offset, as many as the limit allows *)
(* and the list has; it is short exactly at the end of the list.           *)
PageOf(p, s, n, m) ==
  /\ Len(p) < m <=> Len(s) < n + m
  /\ \A k \in DOMAIN p : n + k \in DOMAIN s /\ k <= m /\ p[k] = s[n + k]
  /\ \A k \in DOMAIN s : n < k => s[k] \in ToSet(p) \/ (n + m < k /\ n + m <= Len(s))
  /\ n <= Len(s) => SubSeq(s, 1, n) \o p = IF n + m <= Len(s) THEN SubSeq(s, 1, n + m) ELSE s

LEMMA PageFacts ==
  ASSUME NEW R, NEW s \in Seq(R), NEW n \in Nat, NEW m \in Nat \ {0}
  PROVE  Page(s, n, m) \in Seq(R) /\ PageOf(Page(s, n, m), s, n, m)
<1> DEFINE l == Len(s)
           e == IF n + m <= l THEN n + m ELSE l
           p == Page(s, n, m)
<1>1. l \in Nat /\ DOMAIN s = 1 .. l
  OBVIOUS
<1>2. e \in Nat /\ e <= l
  BY <1>1
<1>3. p = SubSeq(s, n + 1, e)
  BY DEF Page
<1> HIDE DEF p, e
<1>4. /\ p \in Seq(R)
      /\ Len(p) = IF n < e THEN e - n ELSE 0
      /\ \A k \in 1 .. (e - n) : p[k] = s[n + k]
  BY <1>2, <1>3, PartFacts
<1>5. DOMAIN p = 1 .. (e - n)
  <2>1. DOMAIN p = 1 .. Len(p)
    BY <1>4
  <2> QED BY <1>2, <1>4, <2>1
<1>6. Len(p) < m <=> l < n + m
  BY <1>1, <1>4 DEF e
<1>7. ASSUME NEW k \in DOMAIN p PROVE n + k \in DOMAIN s /\ k <= m /\ p[k] = s[n + k]
  <2>1. k \in 1 .. (e - n)
    BY <1>5
  <2>2. n + k \in 1 .. l /\ k <= m
    BY <1>1, <2>1 DEF e
  <2> QED BY <1>1, <1>4, <2>1, <2>2
<1>8. ASSUME NEW k \in DOMAIN s, n < k
      PROVE  s[k] \in ToSet(p) \/ (n + m < k /\ n + m <= l)
  <2>1. CASE k <= e
    <3>1. k - n \in 1 .. (e - n) /\ n + (k - n) = k
      BY <1>1, <1>2, <1>8, <2>1
    <3>2. p[k - n] = s[k] /\ k - n \in DOMAIN p
      BY <1>4, <1>5, <3>1
    <3> QED BY <3>2 DEF ToSet
  <2>2. CASE ~ (k <= e)
    BY <1>1, <2>2 DEF e
  <2> QED BY <2>1, <2>2
<1>9. ASSUME n <= l
      PROVE  SubSeq(s, 1, n) \o p = IF n + m <= l THEN SubSeq(s, 1, n + m) ELSE s
  <2>1. n <= e
    BY <1>1, <1>9 DEF e
  <2>2. SubSeq(s, 1, n) \o p = SubSeq(s, 1, e)
    BY <1>2, <1>3, <2>1, PartsJoin
  <2>3. SubSeq(s, 1, l) = s
    BY WholeSeq
  <2> QED BY <2>2, <2>3 DEF e
<1> QED BY <1>4, <1>6, <1>7, <1>8, <1>9 DEF p, l, PageOf

LEMMA PageOfList ==
  ASSUME NEW R, NEW s \in Seq(R), NEW n \in Nat, NEW m \in Nat \ {0}
  PROVE  ToSet(Page(s, n, m)) \subseteq ToSet(s)
<1> DEFINE p == Page(s, n, m)
<1>1. \A k \in DOMAIN p : n + k \in DOMAIN s /\ p[k] = s[n + k]
  BY PageFacts DEF PageOf
<1> HIDE DEF p
<1>2. ToSet(p) \subseteq ToSet(s)
  BY <1>1 DEF ToSet
<1> QED BY <1>2 DEF p

(* What a client has read, with one page more.                             *)
LEMMA ReadMore ==
  ASSUME NEW R, NEW s \in Seq(R), NEW t \in Seq(R)
  PROVE  /\ s \o t \in Seq(R)
         /\ ToSet(s \o t) = ToSet(s) \cup ToSet(t)
         /\ DOMAIN (s \o t) = 1 .. (Len(s) + Len(t))
         /\ \A k \in DOMAIN (s \o t) :
              \/ k \in DOMAIN s /\ (s \o t)[k] = s[k]
              \/ k - Len(s) \in DOMAIN t /\ (s \o t)[k] = t[k - Len(s)]
<1> DEFINE a == Len(s)
           b == Len(t)
           u == s \o t
<1>1. a \in Nat /\ b \in Nat /\ DOMAIN s = 1 .. a /\ DOMAIN t = 1 .. b
  OBVIOUS
<1>2. u \in Seq(R) /\ Len(u) = a + b
      /\ \A k \in 1 .. a + b : u[k] = IF k <= a THEN s[k] ELSE t[k - a]
  BY ConcatProperties
<1> HIDE DEF u, a, b
<1>3. DOMAIN u = 1 .. (a + b)
  BY <1>2
<1>4. ASSUME NEW k \in DOMAIN u
      PROVE  (k \in DOMAIN s /\ u[k] = s[k]) \/ (k - a \in DOMAIN t /\ u[k] = t[k - a])
  <2>1. CASE k <= a
    BY <1>1, <1>2, <1>3, <2>1
  <2>2. CASE ~ (k <= a)
    <3>1. k - a \in 1 .. b
      BY <1>1, <1>3, <2>2
    <3> QED BY <1>1, <1>2, <1>3, <2>2, <3>1
  <2> QED BY <2>1, <2>2
<1>5. ToSet(u) = ToSet(s) \cup ToSet(t)
  <2>1. ToSet(u) \subseteq ToSet(s) \cup ToSet(t)
    BY <1>4 DEF ToSet
  <2>2. ASSUME NEW k \in DOMAIN s PROVE s[k] \in ToSet(u)
    <3>1. k \in DOMAIN u /\ k \in 1 .. a + b /\ k <= a
      BY <1>1, <1>3
    <3>2. u[k] = s[k]
      BY <1>2, <3>1
    <3> QED BY <3>1, <3>2 DEF ToSet
  <2>3. ASSUME NEW k \in DOMAIN t PROVE t[k] \in ToSet(u)
    <3>1. a + k \in DOMAIN u /\ a + k \in 1 .. a + b /\ ~ (a + k <= a) /\ (a + k) - a = k
      BY <1>1, <1>3
    <3>2. u[a + k] = t[k]
      BY <1>2, <3>1
    <3> QED BY <3>1, <3>2 DEF ToSet
  <2> QED BY <2>1, <2>2, <2>3 DEF ToSet
<1> QED BY <1>2, <1>3, <1>4, <1>5 DEF u, a, b

-----------------------------------------------------------------------------
(* The lists of invoices *)

OriTypeOK ==
  /\ release \in {"earlier", "this"}
  /\ awaited \in BOOLEAN /\ retained \in BOOLEAN /\ overtaken \in BOOLEAN
  /\ holder \in [Ids -> Owners \cup {Nobody}]
  /\ tokens \subseteq Ids
  /\ by_origin = NoIndex \/ by_origin \in [Owners -> Seq(Ids)]
  /\ reader \in [owner : Owners, size : Nat \ {0}, page : Nat, seen : Seq(Ids),
                 due : Seq(Ids), done : BOOLEAN]

(* Which registrations are listed, and what is known without an index.     *)
ListingsKept ==
  /\ IsFiniteSet({i \in Ids : Registered(i)})
  /\ \A i \in tokens : Registered(i) /\ by_origin # NoIndex
  /\ ~overtaken /\ by_origin # NoIndex => EachIsListed
  /\ release = "this" /\ ~awaited /\ ~overtaken /\ by_origin = NoIndex
       => \A i \in Ids : ~Registered(i)

ListsSorted == \A o \in Owners : Sorted(Listed(o))

(* Where a client stands in the list ids: what it has not read yet of the  *)
(* invoices that are due to it lies ahead of its place.                    *)
Reading(r, ids) ==
  LET n == r.page * r.size
  IN /\ Len(r.due) <= Len(ids)
     /\ ToSet(r.seen) \subseteq ToSet(ids)
     /\ r.done => ToSet(r.due) \subseteq ToSet(r.seen)
     /\ ~r.done => \A x \in ToSet(r.due) :
          x \in ToSet(r.seen) \/ \E k \in DOMAIN ids : n < k /\ ids[k] = x
     /\ ids = r.due /\ r.done => r.seen = ids
     /\ ids = r.due /\ ~r.done => n <= Len(ids) /\ r.seen = SubSeq(ids, 1, n)

OriInv ==
  /\ OriTypeOK
  /\ ListingsKept
  /\ ListsSorted
  /\ Reading(reader, Listed(reader.owner))

LEMMA ListedTypes ==
  ASSUME OriTypeOK, NEW o \in Owners
  PROVE  Listed(o) \in Seq(Ids) /\ Len(Listed(o)) \in Nat
<1>1. Listed(o) \in Seq(Ids)
  BY DEF OriTypeOK, Listed
<1> HIDE DEF Listed
<1> QED BY <1>1

LEMMA StoredIndex ==
  ASSUME NEW lists \in [Owners -> Seq(Ids)]
  PROVE  lists # NoIndex
BY OriginatorIndexAssumption

LEMMA IndexingGrows ==
  ASSUME OriTypeOK, ListsSorted, NEW o \in Owners, NEW i \in Ids,
         IndexInvoiceOriginator(o, i)
  PROVE  /\ by_origin' \in [Owners -> Seq(Ids)]
         /\ by_origin' # NoIndex
         /\ \A c \in Owners : Grown(Listed(c), Listed(c)')
         /\ i \in ToSet(Listed(o)')
<1>1. \A c \in Owners : Listed(c) \in Seq(Ids) /\ Sorted(Listed(c))
  BY ListedTypes DEF ListsSorted
<1>2. by_origin' = [c \in Owners |->
                      IF c = o THEN InsertSortedId(Listed(c), i) ELSE Listed(c)]
  BY DEF IndexInvoiceOriginator
<1>3. \A c \in Owners : /\ Grown(Listed(c), InsertSortedId(Listed(c), i))
                        /\ InsertSortedId(Listed(c), i) \in Seq(Ids)
                        /\ i \in ToSet(InsertSortedId(Listed(c), i))
                        /\ Grown(Listed(c), Listed(c))
  BY <1>1, InsertGrows, GrownSame DEF Grown
<1>4. by_origin' \in [Owners -> Seq(Ids)]
  BY <1>1, <1>2, <1>3
<1>5. by_origin' # NoIndex
  BY <1>4, StoredIndex
<1>6. \A c \in Owners : Listed(c)' = by_origin'[c]
  BY <1>5 DEF Listed
<1> HIDE DEF Listed
<1>7. ASSUME NEW c \in Owners PROVE Grown(Listed(c), Listed(c)')
  BY <1>2, <1>3, <1>6
<1> QED BY <1>2, <1>3, <1>4, <1>5, <1>6, <1>7

(* The lists made from the stored invoices start in order.                 *)
LEMMA BackfillGrows ==
  ASSUME OriInv, BackfillOriginatorIndex, UNCHANGED <<holder, tokens>>
  PROVE  /\ by_origin' = NoIndex \/ by_origin' \in [Owners -> Seq(Ids)]
         /\ by_origin # NoIndex => by_origin' # NoIndex
         /\ by_origin' = NoIndex => \A i \in Ids : ~Registered(i)
         /\ \A c \in Owners : Grown(Listed(c), Listed(c)')
         /\ by_origin = NoIndex /\ by_origin' # NoIndex => EachIsListed'
<1> USE DEF OriInv
<1>1. CASE by_origin = NoIndex /\ \E i \in Ids : Registered(i)
  <2> DEFINE own(o) == {i \in Ids : holder[i] = o}
  <2>1. by_origin' = [o \in Owners |-> InOrder(own(o))]
    BY <1>1 DEF BackfillOriginatorIndex
  <2>2. ASSUME NEW o \in Owners
        PROVE  /\ InOrder(own(o)) \in Seq(Ids)
               /\ Sorted(InOrder(own(o)))
               /\ ToSet(InOrder(own(o))) = own(o)
    <3> DEFINE S == own(o)
               s == InOrder(S)
    <3>1. S \in SUBSET {i \in Ids : Registered(i)}
      BY OriginatorIndexAssumption DEF Registered
    <3>2. IsFiniteSet(S)
      BY <3>1, FS_Subset DEF ListingsKept
    <3>3. S \in SUBSET Ids /\ S \in SUBSET Nat
      BY OriginatorIndexAssumption
    <3> HIDE DEF S
    <3>4. s \in Seq(S) /\ Increasing(s) /\ ToSet(s) = S
      BY <3>2, <3>3, InOrderFacts
    <3> HIDE DEF s
    <3>5. s \in Seq(Ids)
      <4>1. Len(s) \in Nat /\ DOMAIN s = 1 .. Len(s) /\ \A k \in 1 .. Len(s) : s[k] \in S
        BY <3>4
      <4>2. \A k \in 1 .. Len(s) : s[k] \in Ids
        BY <3>3, <4>1
      <4> QED BY <3>4, <4>1, <4>2
    <3>6. \A k \in DOMAIN s : s[k] \in Nat
      <4>1. \A k \in DOMAIN s : s[k] \in S
        BY <3>4
      <4> QED BY <3>3, <4>1
    <3>7. DOMAIN s \in SUBSET Int
      BY <3>4
    <3>8. Sorted(s)
      <4> SUFFICES ASSUME NEW j \in DOMAIN s, NEW k \in DOMAIN s, j <= k PROVE s[j] <= s[k]
        BY DEF Sorted
      <4>1. j \in Int /\ k \in Int /\ s[j] \in Nat /\ s[k] \in Nat
        BY <3>6, <3>7
      <4>2. j < k => s[j] < s[k]
        BY <3>4 DEF Increasing
      <4>3. j = k \/ j < k
        BY <4>1
      <4> QED BY <4>1, <4>2, <4>3
    <3> QED BY <3>4, <3>5, <3>8 DEF s, S
  <2> HIDE DEF own
  <2>3. by_origin' \in [Owners -> Seq(Ids)] /\ by_origin' # NoIndex
    <3>1. by_origin' \in [Owners -> Seq(Ids)]
      BY <2>1, <2>2
    <3> QED BY <3>1, StoredIndex
  <2>4. \A c \in Owners : Listed(c) = << >> /\ Listed(c)' = InOrder(own(c))
    BY <1>1, <2>1, <2>3 DEF Listed
  <2>5. ASSUME NEW c \in Owners PROVE Grown(Listed(c), Listed(c)')
    <3> DEFINE t == InOrder(own(c))
    <3>1. t \in Seq(Ids) /\ Sorted(t)
      BY <2>2
    <3> HIDE DEF t
    <3>2. t = << >> \/ Len(t) > 0
      BY <3>1
    <3>3. Grown(<< >>, t)
      BY <3>1, <3>2 DEF Grown
    <3> QED BY <2>4, <3>3 DEF t
  <2>6. EachIsListed'
    <3> SUFFICES ASSUME NEW i \in Ids, holder'[i] # Nobody
                 PROVE  i \in ToSet(Listed(holder[i])')
      BY DEF EachIsListed, Registered
    <3>1. holder[i] \in Owners /\ i \in own(holder[i])
      BY DEF own, OriTypeOK
    <3> QED BY <2>2, <2>4, <3>1
  <2> QED BY <1>1, <2>3, <2>5, <2>6
<1>2. CASE ~ (by_origin = NoIndex /\ \E i \in Ids : Registered(i))
  <2>1. by_origin' = by_origin
    BY <1>2 DEF BackfillOriginatorIndex
  <2>2. \A c \in Owners : Listed(c) \in Seq(Ids) /\ Sorted(Listed(c)) /\ Listed(c)' = Listed(c)
    BY <2>1, ListedTypes DEF ListsSorted, Listed
  <2>3. \A c \in Owners : Grown(Listed(c), Listed(c)')
    BY <2>2, GrownSame
  <2> QED BY <1>2, <2>1, <2>3 DEF OriTypeOK
<1> QED BY <1>1, <1>2

(* Whatever happens, each list stays as it is or grows.                    *)
LEMMA ListsGrow ==
  ASSUME OriInv, OriNext \/ UNCHANGED oriVars, NEW c \in Owners
  PROVE  Grown(Listed(c), Listed(c)')
<1> USE DEF OriInv
<1>1. by_origin' = by_origin => Grown(Listed(c), Listed(c)')
  <2> SUFFICES ASSUME by_origin' = by_origin PROVE Grown(Listed(c), Listed(c)')
    OBVIOUS
  <2>1. Listed(c) \in Seq(Ids) /\ Sorted(Listed(c))
    BY ListedTypes DEF ListsSorted
  <2>2. Listed(c)' = Listed(c)
    BY DEF Listed
  <2> QED BY <2>1, <2>2, GrownSame
<1>2. ASSUME NEW i \in Ids, NEW o \in Owners, RegisterInvoice(o, i) \/ Transfer(i, o)
      PROVE  Grown(Listed(c), Listed(c)')
  BY <1>2, IndexingGrows DEF RegisterInvoice, Transfer
<1>3. CASE PostUpgrade
  BY <1>3, BackfillGrows DEF PostUpgrade
<1>4. CASE UNCHANGED oriVars
  BY <1>1, <1>4 DEF oriVars
<1>5. CASE Upgrade \/ Rollback \/ NextPage
  BY <1>1, <1>5 DEF Upgrade, Rollback, NextPage
<1>6. ASSUME NEW i \in Ids, NEW o \in Owners, RegisterEarlier(o, i)
      PROVE  Grown(Listed(c), Listed(c)')
  BY <1>1, <1>6 DEF RegisterEarlier
<1>7. ASSUME NEW o \in Owners, NEW size \in ListingSizes, OpenListing(o, size)
      PROVE  Grown(Listed(c), Listed(c)')
  BY <1>1, <1>7 DEF OpenListing
<1> QED BY <1>2, <1>3, <1>4, <1>5, <1>6, <1>7 DEF OriNext

(* A client that waits does not lose its place when the list grows.        *)
LEMMA ReadingGrown ==
  ASSUME NEW r \in [owner : Owners, size : Nat \ {0}, page : Nat, seen : Seq(Ids),
                    due : Seq(Ids), done : BOOLEAN],
         NEW s \in Seq(Ids), NEW t, Grown(s, t), Reading(r, s)
  PROVE  Reading(r, t)
<1> DEFINE n == r.page * r.size
<1>1. n \in Nat
  OBVIOUS
<1>2. Len(s) \in Nat /\ Len(t) \in Nat /\ Len(s) <= Len(t) /\ ToSet(s) \subseteq ToSet(t)
  BY GrownFacts
<1>3. /\ Len(r.due) <= Len(s)
      /\ ToSet(r.seen) \subseteq ToSet(s)
      /\ r.done => ToSet(r.due) \subseteq ToSet(r.seen)
      /\ ~r.done => \A x \in ToSet(r.due) :
           x \in ToSet(r.seen) \/ \E k \in DOMAIN s : n < k /\ s[k] = x
      /\ s = r.due /\ r.done => r.seen = s
      /\ s = r.due /\ ~r.done => n <= Len(s) /\ r.seen = SubSeq(s, 1, n)
  BY DEF Reading
<1> HIDE DEF n
<1>4. Len(r.due) \in Nat
  OBVIOUS
<1>5. t = r.due => t = s
  BY <1>2, <1>3, <1>4 DEF Grown
<1>6. ASSUME NEW k \in DOMAIN s, n < k PROVE \E m \in DOMAIN t : n < m /\ t[m] = s[k]
  <2>1. PICK m \in DOMAIN t : k <= m /\ t[m] = s[k]
    BY DEF Grown
  <2>2. k \in Int /\ m \in Int
    <3>1. t \in Seq(Ids) /\ DOMAIN t = 1 .. Len(t) /\ DOMAIN s = 1 .. Len(s)
      BY DEF Grown
    <3> QED BY <3>1
  <2> QED BY <1>1, <1>6, <2>1, <2>2
<1>7. ~r.done => \A x \in ToSet(r.due) :
           x \in ToSet(r.seen) \/ \E k \in DOMAIN t : n < k /\ t[k] = x
  BY <1>3, <1>6
<1>8. Len(r.due) <= Len(t) /\ ToSet(r.seen) \subseteq ToSet(t)
  BY <1>2, <1>3, <1>4
<1> QED BY <1>3, <1>5, <1>7, <1>8 DEF Reading, n

LEMMA OpenReads ==
  ASSUME OriInv, NEW o \in Owners, NEW size \in ListingSizes, OpenListing(o, size)
  PROVE  Reading(reader', Listed(o))
<1> DEFINE s == Listed(o)
           r == [owner |-> o, size |-> size, page |-> 0, seen |-> << >>, due |-> s,
                 done |-> FALSE]
           n == r.page * r.size
<1>1. s \in Seq(Ids) /\ Len(s) \in Nat
  BY ListedTypes DEF OriInv
<1>2. reader' = r
  BY DEF OpenListing
<1> HIDE DEF s
<1>3. n = 0
  BY OriginatorIndexAssumption
<1>4. SubSeq(s, 1, n) = << >>
  BY <1>1, <1>3, WholeSeq
<1>5. DOMAIN s = 1 .. Len(s)
  BY <1>1
<1>6. \A x \in ToSet(s) : \E k \in DOMAIN s : n < k /\ s[k] = x
  BY <1>3, <1>5 DEF ToSet
<1>7. ToSet(<< >>) = {}
  BY DEF ToSet
<1> HIDE DEF n
<1>8. Reading(r, s)
  BY <1>1, <1>3, <1>4, <1>6, <1>7 DEF Reading, n
<1> QED BY <1>2, <1>8 DEF s

LEMMA NextPageReads ==
  ASSUME OriInv, NextPage
  PROVE  Reading(reader', Listed(reader.owner))
<1> DEFINE s == Listed(reader.owner)
           m == reader.size
           n == reader.page * m
           p == Page(s, n, m)
           seen == reader.seen
           all == seen \o p
<1>1. /\ reader \in [owner : Owners, size : Nat \ {0}, page : Nat, seen : Seq(Ids),
                     due : Seq(Ids), done : BOOLEAN]
      /\ Reading(reader, s)
  BY DEF OriInv, OriTypeOK
<1>2. s \in Seq(Ids) /\ Len(s) \in Nat
  BY <1>1, ListedTypes DEF OriInv
<1>3. n \in Nat /\ m \in Nat \ {0}
  BY <1>1
<1>4. /\ reader.done = FALSE
      /\ reader' = [reader EXCEPT !.page = @ + 1, !.seen = @ \o p, !.done = Len(p) < m]
  BY <1>1 DEF NextPage, GetOriginatorPage, Page
<1>5. /\ reader'.due = reader.due /\ reader'.seen = all
      /\ reader'.done = (Len(p) < m)
      /\ reader'.page * reader'.size = n + m
  <2>1. reader'.page = reader.page + 1 /\ reader'.size = m
    BY <1>1, <1>4
  <2>2. (reader.page + 1) * m = reader.page * m + m
    BY <1>1
  <2> QED BY <1>1, <1>4, <2>1, <2>2
<1>6. /\ Len(reader.due) <= Len(s)
      /\ ToSet(seen) \subseteq ToSet(s)
      /\ \A x \in ToSet(reader.due) :
           x \in ToSet(seen) \/ \E k \in DOMAIN s : n < k /\ s[k] = x
      /\ s = reader.due => n <= Len(s) /\ seen = SubSeq(s, 1, n)
  BY <1>1, <1>4 DEF Reading
<1> HIDE DEF s, m, n
<1>7. /\ p \in Seq(Ids)
      /\ Len(p) < m <=> Len(s) < n + m
      /\ \A k \in DOMAIN s : n < k => \/ s[k] \in ToSet(p)
                                      \/ n + m < k /\ n + m <= Len(s)
      /\ n <= Len(s) => SubSeq(s, 1, n) \o p
                          = IF n + m <= Len(s) THEN SubSeq(s, 1, n + m) ELSE s
  <2>1. p \in Seq(Ids) /\ PageOf(p, s, n, m)
    BY <1>2, <1>3, PageFacts
  <2> QED BY <2>1 DEF PageOf
<1>8. ToSet(p) \subseteq ToSet(s)
  BY <1>2, <1>3, PageOfList
<1>9. seen \in Seq(Ids)
  BY <1>1
<1> HIDE DEF p, seen
<1>10. ToSet(all) = ToSet(seen) \cup ToSet(p)
  BY <1>7, <1>9, ReadMore
<1>11. s = reader.due => n <= Len(s) /\ all = IF n + m <= Len(s) THEN SubSeq(s, 1, n + m) ELSE s
  BY <1>6, <1>7
<1> HIDE DEF all
<1>12. n + m \in Int /\ (reader'.done <=> ~ (n + m <= Len(s)))
  <2>1. n + m \in Int /\ (Len(s) < n + m <=> ~ (n + m <= Len(s)))
    BY <1>2, <1>3
  <2>2. reader'.done <=> Len(p) < m
    BY <1>5
  <2> QED BY <1>7, <2>1, <2>2
<1>13. \A x \in ToSet(reader.due) :
         x \in ToSet(all) \/ (n + m <= Len(s) /\ \E k \in DOMAIN s : n + m < k /\ s[k] = x)
  BY <1>6, <1>7, <1>10
<1>14. /\ reader'.done => ToSet(reader'.due) \subseteq ToSet(all)
       /\ ~reader'.done => \A x \in ToSet(reader'.due) :
            x \in ToSet(all) \/ \E k \in DOMAIN s : n + m < k /\ s[k] = x
  BY <1>5, <1>12, <1>13
<1>15. /\ s = reader'.due /\ reader'.done => all = s
       /\ s = reader'.due /\ ~reader'.done => n + m <= Len(s) /\ all = SubSeq(s, 1, n + m)
  BY <1>5, <1>11, <1>12
<1>16. Reading(reader', s)
  BY <1>5, <1>6, <1>8, <1>10, <1>14, <1>15 DEF Reading
<1> QED BY <1>16 DEF s

LEMMA OriInitInv ==
  ASSUME OriInit
  PROVE  OriInv
<1>1. OriTypeOK
  <2>1. holder \in [Ids -> Owners \cup {Nobody}]
    BY DEF OriInit
  <2>2. reader \in [owner : Owners, size : Nat \ {0}, page : Nat, seen : Seq(Ids),
                    due : Seq(Ids), done : BOOLEAN]
    <3>1. << >> \in Seq(Ids) /\ 1 \in Nat \ {0} /\ 0 \in Nat
      OBVIOUS
    <3> QED BY <3>1 DEF OriInit
  <2> QED BY <2>1, <2>2 DEF OriInit, OriTypeOK
<1>2. \A i \in Ids : ~Registered(i)
  BY DEF OriInit, Registered
<1>3. ListingsKept
  <2>1. {i \in Ids : Registered(i)} = {}
    BY <1>2
  <2> QED BY <1>2, <2>1, FS_EmptySet DEF OriInit, ListingsKept
<1>4. \A o : Listed(o) = << >>
  BY DEF OriInit, Listed
<1>5. ListsSorted
  BY <1>4 DEF ListsSorted, Sorted
<1>6. Reading(reader, << >>)
  BY DEF OriInit, Reading, ToSet
<1> QED BY <1>1, <1>3, <1>4, <1>5, <1>6 DEF OriInv

LEMMA ReaderTypes ==
  ASSUME OriInv, OriNext \/ UNCHANGED oriVars
  PROVE  reader' \in [owner : Owners, size : Nat \ {0}, page : Nat, seen : Seq(Ids),
                      due : Seq(Ids), done : BOOLEAN]
<1> DEFINE Readers == [owner : Owners, size : Nat \ {0}, page : Nat, seen : Seq(Ids),
                       due : Seq(Ids), done : BOOLEAN]
<1>1. reader \in Readers
  BY DEF OriInv, OriTypeOK
<1>2. ASSUME NEW o \in Owners, NEW size \in ListingSizes, OpenListing(o, size)
      PROVE  reader' \in Readers
  <2>1. Listed(o) \in Seq(Ids)
    BY ListedTypes DEF OriInv
  <2>2. size \in Nat \ {0} /\ << >> \in Seq(Ids)
    BY OriginatorIndexAssumption
  <2> QED BY <1>2, <2>1, <2>2 DEF OpenListing
<1>3. CASE NextPage
  <2> DEFINE s == Listed(reader.owner)
             m == reader.size
             n == reader.page * m
             p == Page(s, n, m)
             done == Len(p) < m
             page == reader.page + 1
             all == reader.seen \o p
  <2>1. s \in Seq(Ids) /\ n \in Nat /\ m \in Nat \ {0}
    BY <1>1, ListedTypes DEF OriInv
  <2>2. reader' = [reader EXCEPT !.page = page, !.seen = all, !.done = done]
    BY <1>1, <1>3 DEF NextPage, GetOriginatorPage, Page
  <2> HIDE DEF s, m, n
  <2>3. p \in Seq(Ids)
    BY <2>1, PageFacts
  <2> HIDE DEF p
  <2>4. all \in Seq(Ids)
    BY <1>1, <2>3, ReadMore
  <2>5. page \in Nat /\ done \in BOOLEAN
    BY <1>1
  <2> HIDE DEF all, page, done
  <2> QED BY <1>1, <2>2, <2>4, <2>5
<1>4. CASE UNCHANGED reader
  BY <1>1, <1>4
<1>5. OriNext \/ UNCHANGED oriVars =>
        \/ \E o \in Owners, size \in ListingSizes : OpenListing(o, size)
        \/ NextPage
        \/ UNCHANGED reader
  BY DEF OriNext, oriVars, RegisterInvoice, RegisterEarlier, Transfer, Upgrade, PostUpgrade,
         Rollback
<1> QED BY <1>2, <1>3, <1>4, <1>5

LEMMA OriTypeStep ==
  ASSUME OriInv, OriNext \/ UNCHANGED oriVars
  PROVE  OriTypeOK'
<1> USE DEF OriInv
<1> DEFINE RestOK ==
             /\ release \in {"earlier", "this"}
             /\ awaited \in BOOLEAN /\ retained \in BOOLEAN /\ overtaken \in BOOLEAN
             /\ holder \in [Ids -> Owners \cup {Nobody}]
             /\ tokens \subseteq Ids
             /\ by_origin = NoIndex \/ by_origin \in [Owners -> Seq(Ids)]
<1> SUFFICES RestOK'
  BY ReaderTypes DEF OriTypeOK
<1>1. RestOK
  BY DEF OriTypeOK
<1>2. ASSUME NEW i \in Ids, NEW o \in Owners, RegisterInvoice(o, i) \/ Transfer(i, o)
      PROVE  RestOK'
  <2>1. by_origin' \in [Owners -> Seq(Ids)]
    BY <1>2, IndexingGrows DEF RegisterInvoice, Transfer
  <2>2. CASE RegisterInvoice(o, i)
    BY <1>1, <2>1, <2>2 DEF RegisterInvoice, releaseVars
  <2>3. CASE Transfer(i, o)
    BY <1>1, <2>1, <2>3 DEF Transfer, releaseVars
  <2> QED BY <1>2, <2>2, <2>3
<1>3. ASSUME NEW i \in Ids, NEW o \in Owners, RegisterEarlier(o, i)
      PROVE  RestOK'
  BY <1>1, <1>3 DEF RegisterEarlier, releaseVars
<1>4. CASE PostUpgrade
  <2>1. by_origin' = NoIndex \/ by_origin' \in [Owners -> Seq(Ids)]
    BY <1>4, BackfillGrows DEF PostUpgrade
  <2> QED BY <1>1, <1>4, <2>1 DEF PostUpgrade
<1>5. CASE Upgrade \/ Rollback
  BY <1>1, <1>5 DEF Upgrade, Rollback
<1>6. ASSUME NEW o \in Owners, NEW size \in ListingSizes, OpenListing(o, size)
      PROVE  RestOK'
  BY <1>1, <1>6 DEF OpenListing, releaseVars
<1>7. CASE NextPage
  BY <1>1, <1>7 DEF NextPage, releaseVars
<1>8. CASE UNCHANGED oriVars
  BY <1>1, <1>8 DEF oriVars, releaseVars
<1> QED BY <1>2, <1>3, <1>4, <1>5, <1>6, <1>7, <1>8 DEF OriNext

(* Who is listed stays listed.                                             *)
LEMMA StaysListed ==
  ASSUME OriInv, OriNext \/ UNCHANGED oriVars, NEW c \in Owners
  PROVE  ToSet(Listed(c)) \subseteq ToSet(Listed(c)')
<1>1. Listed(c) \in Seq(Ids)
  BY ListedTypes DEF OriInv
<1>2. Grown(Listed(c), Listed(c)')
  BY ListsGrow
<1> DEFINE s == Listed(c)
           t == Listed(c)'
<1> HIDE DEF s, t
<1>3. ToSet(s) \subseteq ToSet(t)
  BY <1>1, <1>2, GrownFacts DEF s, t
<1> QED BY <1>3 DEF s, t

(* The list of an account, of which the index is given.                    *)
ListedIn(lists, o) == IF lists = NoIndex THEN << >> ELSE lists[o]

LEMMA ListedNext ==
  /\ \A o : Listed(o) = ListedIn(by_origin, o) /\ Listed(o)' = ListedIn(by_origin', o)
  /\ EachIsListed <=> \A i \in Ids : holder[i] # Nobody
                                     => i \in ToSet(ListedIn(by_origin, holder[i]))
  /\ EachIsListed' <=> \A i \in Ids : holder'[i] # Nobody
                                      => i \in ToSet(ListedIn(by_origin', holder'[i]))
BY DEF Listed, ListedIn, EachIsListed, Registered

LEMMA KeptStep ==
  ASSUME OriInv, OriNext
  PROVE  ListingsKept'
<1> USE DEF OriInv
<1> DEFINE R == {i \in Ids : Registered(i)}
<1>1. /\ IsFiniteSet(R)
      /\ \A i \in tokens : Registered(i) /\ by_origin # NoIndex
      /\ ~overtaken /\ by_origin # NoIndex => EachIsListed
      /\ release = "this" /\ ~awaited /\ ~overtaken /\ by_origin = NoIndex
           => \A i \in Ids : ~Registered(i)
  BY DEF ListingsKept
<1>2. /\ holder \in [Ids -> Owners \cup {Nobody}] /\ tokens \subseteq Ids
      /\ Nobody \notin Owners
  BY OriginatorIndexAssumption DEF OriTypeOK
<1>3. \A c \in Owners : ToSet(ListedIn(by_origin, c)) \subseteq ToSet(ListedIn(by_origin', c))
  BY StaysListed, ListedNext
<1> HIDE DEF OriInv
<1>4. ASSUME NEW i \in Ids, NEW o \in Owners, RegisterInvoice(o, i)
      PROVE  ListingsKept'
  <2>1. /\ by_origin' # NoIndex
        /\ i \in ToSet(ListedIn(by_origin', o))
    BY <1>4, IndexingGrows, ListedNext DEF RegisterInvoice, OriInv
  <2>2. holder' = [holder EXCEPT ![i] = o] /\ tokens' = tokens \cup {i}
        /\ overtaken' = (overtaken \/ (by_origin = NoIndex /\ \E j \in Ids : Registered(j)))
    BY <1>4 DEF RegisterInvoice
  <2>3. \A j \in Ids : Registered(j)' <=> Registered(j) \/ j = i
    BY <1>2, <2>2 DEF Registered
  <2>4. IsFiniteSet({j \in Ids : Registered(j)}')
    <3>1. {j \in Ids : Registered(j)}' = R \cup {i}
      BY <2>3
    <3> HIDE DEF R
    <3>2. IsFiniteSet(R \cup {i})
      BY <1>1, FS_AddElement
    <3> QED BY <3>1, <3>2
  <2>5. ~overtaken' => EachIsListed'
    <3> SUFFICES ASSUME ~overtaken', NEW j \in Ids, holder'[j] # Nobody
                 PROVE  j \in ToSet(ListedIn(by_origin', holder'[j]))
      BY ListedNext
    <3>1. CASE j = i
      BY <1>2, <2>1, <2>2, <3>1
    <3>2. CASE j # i
      <4>1. Registered(j) /\ holder'[j] = holder[j] /\ holder[j] \in Owners
        BY <1>2, <2>2, <2>3, <3>2 DEF Registered
      <4>2. j \in ToSet(ListedIn(by_origin, holder[j]))
        BY <1>1, <2>2, <4>1, ListedNext DEF Registered
      <4> QED BY <1>3, <4>1, <4>2
    <3> QED BY <3>1, <3>2
  <2> QED BY <1>1, <1>2, <2>1, <2>2, <2>3, <2>4, <2>5 DEF ListingsKept
<1>5. ASSUME NEW i \in Ids, NEW o \in Owners, Transfer(i, o)
      PROVE  ListingsKept'
  <2>1. /\ by_origin' # NoIndex
        /\ i \in ToSet(ListedIn(by_origin', o))
    BY <1>5, IndexingGrows, ListedNext DEF Transfer, OriInv
  <2>2. holder' = [holder EXCEPT ![i] = o] /\ tokens' = tokens /\ overtaken' = overtaken
        /\ Registered(i) /\ by_origin # NoIndex
    BY <1>1, <1>5 DEF Transfer
  <2>3. \A j \in Ids : Registered(j)' <=> Registered(j)
    BY <1>2, <2>2 DEF Registered
  <2>4. IsFiniteSet({j \in Ids : Registered(j)}')
    BY <1>1, <2>3
  <2>5. ~overtaken' => EachIsListed'
    <3> SUFFICES ASSUME ~overtaken', NEW j \in Ids, holder'[j] # Nobody
                 PROVE  j \in ToSet(ListedIn(by_origin', holder'[j]))
      BY ListedNext
    <3>1. CASE j = i
      BY <1>2, <2>1, <2>2, <3>1
    <3>2. CASE j # i
      <4>1. Registered(j) /\ holder'[j] = holder[j] /\ holder[j] \in Owners
        BY <1>2, <2>2, <2>3, <3>2 DEF Registered
      <4>2. j \in ToSet(ListedIn(by_origin, holder[j]))
        BY <1>1, <2>2, <4>1, ListedNext DEF Registered
      <4> QED BY <1>3, <4>1, <4>2
    <3> QED BY <3>1, <3>2
  <2> QED BY <1>1, <1>2, <2>1, <2>2, <2>3, <2>4, <2>5 DEF ListingsKept
<1>6. ASSUME NEW i \in Ids, NEW o \in Owners, RegisterEarlier(o, i)
      PROVE  ListingsKept'
  <2>1. /\ holder' = [holder EXCEPT ![i] = o] /\ tokens' = tokens
        /\ overtaken' = (overtaken \/ by_origin # NoIndex)
        /\ by_origin' = by_origin /\ release' = "earlier"
    BY <1>6 DEF RegisterEarlier, releaseVars
  <2>2. \A j \in Ids : Registered(j)' <=> Registered(j) \/ j = i
    BY <1>2, <2>1 DEF Registered
  <2>3. IsFiniteSet({j \in Ids : Registered(j)}')
    <3>1. {j \in Ids : Registered(j)}' = R \cup {i}
      BY <2>2
    <3> HIDE DEF R
    <3>2. IsFiniteSet(R \cup {i})
      BY <1>1, FS_AddElement
    <3> QED BY <3>1, <3>2
  <2> QED BY <1>1, <1>2, <2>1, <2>2, <2>3 DEF ListingsKept
<1>7. CASE PostUpgrade
  <2>1. /\ by_origin # NoIndex => by_origin' # NoIndex
        /\ by_origin' = NoIndex => \A i \in Ids : ~Registered(i)
        /\ by_origin = NoIndex /\ by_origin' # NoIndex => EachIsListed'
    BY <1>7, BackfillGrows DEF PostUpgrade
  <2>2. holder' = holder /\ tokens' = tokens /\ overtaken' = overtaken
    BY <1>7 DEF PostUpgrade
  <2>3. \A j \in Ids : Registered(j)' <=> Registered(j)
    BY <2>2 DEF Registered
  <2>4. IsFiniteSet({j \in Ids : Registered(j)}')
    BY <1>1, <2>3
  <2>5. ~overtaken' /\ by_origin # NoIndex => EachIsListed'
    <3> SUFFICES ASSUME ~overtaken', by_origin # NoIndex, NEW j \in Ids, holder'[j] # Nobody
                 PROVE  j \in ToSet(ListedIn(by_origin', holder'[j]))
      BY ListedNext
    <3>1. Registered(j) /\ holder'[j] = holder[j] /\ holder[j] \in Owners
      BY <1>2, <2>2, <2>3 DEF Registered
    <3>2. j \in ToSet(ListedIn(by_origin, holder[j]))
      BY <1>1, <2>2, <3>1, ListedNext DEF Registered
    <3> QED BY <1>3, <3>1, <3>2
  <2> QED BY <1>1, <1>2, <2>1, <2>2, <2>3, <2>4, <2>5 DEF ListingsKept
<1>8. ASSUME \/ Upgrade \/ Rollback \/ NextPage
             \/ \E o \in Owners, size \in ListingSizes : OpenListing(o, size)
      PROVE  ListingsKept'
  <2>1. /\ UNCHANGED <<holder, tokens, by_origin, overtaken>>
        /\ \/ UNCHANGED <<release, awaited>>
           \/ release' = "this" /\ awaited'
           \/ release' = "earlier"
    BY <1>8 DEF Upgrade, Rollback, NextPage, OpenListing, releaseVars
  <2>2. (\A j : Registered(j)' <=> Registered(j)) /\ (\A o : Listed(o)' = Listed(o))
    BY <2>1 DEF Registered, Listed
  <2>3. EachIsListed' <=> EachIsListed
    BY <2>1, <2>2 DEF EachIsListed
  <2>4. IsFiniteSet({j \in Ids : Registered(j)}')
    BY <1>1, <2>2
  <2> QED BY <1>1, <1>2, <2>1, <2>2, <2>3, <2>4 DEF ListingsKept
<1> QED BY <1>4, <1>5, <1>6, <1>7, <1>8 DEF OriNext

LEMMA OriStutter ==
  ASSUME OriInv, UNCHANGED oriVars
  PROVE  OriInv'
<1>1. UNCHANGED <<release, awaited, retained, holder, tokens, by_origin, overtaken, reader>>
  BY DEF oriVars, releaseVars
<1>2. OriTypeOK'
  BY OriTypeStep
<1>3. (\A j : Registered(j)' <=> Registered(j)) /\ (\A o : Listed(o)' = Listed(o))
  BY <1>1 DEF Registered, Listed
<1>4. EachIsListed' <=> EachIsListed
  BY <1>1, <1>3 DEF EachIsListed
<1>5. ListingsKept'
  BY <1>1, <1>3, <1>4 DEF OriInv, ListingsKept
<1>6. ListsSorted'
  BY <1>3 DEF OriInv, ListsSorted
<1>7. Reading(reader, Listed(reader.owner))'
  BY <1>1, <1>3 DEF OriInv
<1> QED BY <1>2, <1>5, <1>6, <1>7 DEF OriInv

LEMMA OriStep ==
  ASSUME OriInv, OriNext
  PROVE  OriInv'
<1>1. OriTypeOK' /\ ListingsKept'
  BY OriTypeStep, KeptStep
<1>2. \A c \in Owners : Grown(Listed(c), Listed(c)')
  BY ListsGrow
<1>3. ListsSorted'
  BY <1>2 DEF ListsSorted, Grown
<1>4. Reading(reader', ListedIn(by_origin', reader'.owner))
  <2>1. \A o : Listed(o) = ListedIn(by_origin, o) /\ Listed(o)' = ListedIn(by_origin', o)
    BY ListedNext
  <2>2. ASSUME NEW o \in Owners, NEW size \in ListingSizes, OpenListing(o, size)
        PROVE  Reading(reader', ListedIn(by_origin', reader'.owner))
    <3>1. reader'.owner = o /\ by_origin' = by_origin
      BY <2>2 DEF OpenListing
    <3> QED BY <2>1, <2>2, <3>1, OpenReads
  <2>3. CASE NextPage
    <3>1. reader'.owner = reader.owner /\ by_origin' = by_origin
      BY <2>3 DEF NextPage, OriInv, OriTypeOK
    <3> QED BY <2>1, <2>3, <3>1, NextPageReads
  <2>4. CASE UNCHANGED reader
    <3> DEFINE s == ListedIn(by_origin, reader.owner)
               t == ListedIn(by_origin', reader.owner)
    <3>1. reader \in [owner : Owners, size : Nat \ {0}, page : Nat, seen : Seq(Ids),
                      due : Seq(Ids), done : BOOLEAN]
          /\ Reading(reader, s)
      BY <2>1 DEF OriInv, OriTypeOK
    <3>2. reader.owner \in Owners
      BY <3>1
    <3>3. s \in Seq(Ids) /\ Grown(s, t)
      BY <1>2, <2>1, <3>2, ListedTypes DEF OriInv
    <3> HIDE DEF s, t
    <3>4. Reading(reader, t)
      BY <3>1, <3>3, ReadingGrown
    <3> QED BY <2>4, <3>4 DEF t
  <2>5. \/ \E o \in Owners, size \in ListingSizes : OpenListing(o, size)
        \/ NextPage
        \/ UNCHANGED reader
    BY DEF OriNext, RegisterInvoice, RegisterEarlier, Transfer, Upgrade, PostUpgrade, Rollback
  <2> QED BY <2>2, <2>3, <2>4, <2>5
<1>5. Reading(reader, Listed(reader.owner))'
  BY <1>4 DEF Listed, ListedIn
<1> QED BY <1>1, <1>3, <1>5 DEF OriInv

LEMMA OriKeeps ==
  ASSUME OriInv
  PROVE  PagesMissNothing /\ ListedUnlessOvertaken
<1>1. PagesMissNothing
  BY DEF OriInv, Reading, PagesMissNothing
<1>2. release = "this" /\ ~awaited /\ ~overtaken => EachIsListed
  BY DEF OriInv, ListingsKept, EachIsListed
<1>3. ASSUME NEW o \in Owners, NEW k \in 1 .. Len(Listed(o)) - 1
      PROVE  Listed(o)[k] <= Listed(o)[k + 1]
  <2> DEFINE s == Listed(o)
  <2>1. s \in Seq(Ids) /\ Len(s) \in Nat /\ Sorted(s)
    BY ListedTypes DEF OriInv, ListsSorted
  <2> HIDE DEF s
  <2>2. k \in DOMAIN s /\ k + 1 \in DOMAIN s /\ k <= k + 1
    BY <2>1 DEF s
  <2> QED BY <2>1, <2>2 DEF Sorted, s
<1> QED BY <1>1, <1>2, <1>3 DEF ListedUnlessOvertaken

-----------------------------------------------------------------------------
(* The event index *)

(* The records of an index st that a query finds.                          *)
MatchesRecord(e, q) ==
  CASE q[1] = "type"  -> e.event_type = q[2]
    [] q[1] = "actor" -> e.actor = q[2]
    [] q[1] = "time"  -> e.timestamp \in q[2][1] .. q[2][2]

FoundIn(st, q) == {id \in DOMAIN st : MatchesRecord(st[id], q)}

IdxTypeOK ==
  /\ now \in 0 .. MaxTime
  /\ next_id \in Nat \ {0}
  /\ scan \in [query : Queries \cup {<< >>}, offset : Nat, seen : Seq(Nat), due : Seq(Nat),
               pruned : BOOLEAN, done : BOOLEAN]
  /\ ~scan.done => scan.query \in Queries

(* The records that are stored, in the order of recording and of time.     *)
RecordsAgree ==
  /\ DOMAIN store \subseteq 1 .. next_id - 1
  /\ \A id \in DOMAIN store : store[id] \in EventRecord /\ store[id].timestamp <= now
  /\ \A id, other \in DOMAIN store :
       id < other => store[id].timestamp <= store[other].timestamp

(* Every listing is the records it is about, in order.                     *)
IndexesInOrder ==
  /\ all_ids = InOrder(DOMAIN store)
  /\ event_count = Cardinality(DOMAIN store)
  /\ type_index = [t \in EventTypes |-> InOrder(FoundIn(store, <<"type", t>>))]
  /\ actor_index = [c \in Actors |-> InOrder(FoundIn(store, <<"actor", c>>))]

(* Where a client stands in the records found by its query: behind those   *)
(* it has read.  While nothing is pruned, these are all that came before.  *)
Scanning(r, found, next) ==
  /\ Increasing(r.seen)
  /\ \A k \in DOMAIN r.seen : r.seen[k] < next
  /\ ~r.done => \A k \in DOMAIN r.seen, j \in DOMAIN found :
                  r.offset < j => r.seen[k] < found[j]
  /\ ~r.done /\ ~r.pruned => /\ r.offset <= Len(found)
                             /\ r.seen = SubSeq(found, 1, r.offset)
                             /\ IsPrefix(r.due, found)
  /\ r.done /\ ~r.pruned => IsPrefix(r.due, r.seen)

IdxInv ==
  /\ IdxTypeOK
  /\ RecordsAgree
  /\ IndexesInOrder
  /\ Scanning(scan, InOrder(FoundIn(store, scan.query)), next_id)

LEMMA FoundNow ==
  \A q : MatchesInOrder(q) = InOrder(FoundIn(store, q))
BY DEF MatchesInOrder, Matches, FoundIn, MatchesRecord

LEMMA RecordsFinite ==
  ASSUME next_id \in Nat, DOMAIN store \subseteq 1 .. next_id - 1, NEW S \in SUBSET (DOMAIN store)
  PROVE  S \in SUBSET Nat /\ IsFiniteSet(S) /\ Cardinality(S) \in Nat
<1>1. IsFiniteSet(1 .. next_id - 1)
  BY FS_Interval
<1>2. S \in SUBSET (1 .. next_id - 1)
  OBVIOUS
<1>3. IsFiniteSet(S)
  BY <1>1, <1>2, FS_Subset
<1> QED BY <1>2, <1>3, FS_CardinalityType

LEMMA FoundFinite ==
  ASSUME IdxInv
  PROVE  \A q : /\ FoundIn(store, q) \in SUBSET (DOMAIN store)
                /\ FoundIn(store, q) \in SUBSET Nat
                /\ IsFiniteSet(FoundIn(store, q))
                /\ InOrder(FoundIn(store, q)) \in Seq(FoundIn(store, q))
                /\ InOrder(FoundIn(store, q)) \in Seq(Nat)
<1> SUFFICES ASSUME NEW q
             PROVE  /\ FoundIn(store, q) \in SUBSET (DOMAIN store)
                    /\ FoundIn(store, q) \in SUBSET Nat
                    /\ IsFiniteSet(FoundIn(store, q))
                    /\ InOrder(FoundIn(store, q)) \in Seq(FoundIn(store, q))
                    /\ InOrder(FoundIn(store, q)) \in Seq(Nat)
  OBVIOUS
<1> DEFINE S == FoundIn(store, q)
           s == InOrder(S)
<1>1. S \in SUBSET (DOMAIN store)
  BY DEF FoundIn
<1> HIDE DEF S
<1>2. S \in SUBSET Nat /\ IsFiniteSet(S)
  BY <1>1, RecordsFinite DEF IdxInv, IdxTypeOK, RecordsAgree
<1>3. s \in Seq(S)
  BY <1>2, InOrderFacts
<1> HIDE DEF s
<1>4. s \in Seq(Nat)
  <2>1. Len(s) \in Nat /\ DOMAIN s = 1 .. Len(s) /\ \A k \in 1 .. Len(s) : s[k] \in S
    BY <1>3
  <2>2. \A k \in 1 .. Len(s) : s[k] \in Nat
    BY <1>2, <2>1
  <2> QED BY <1>3, <2>1, <2>2
<1> QED BY <1>1, <1>2, <1>3, <1>4 DEF s, S

(* A page taken from the rest of a list.                                   *)
LEMMA PageOfRest ==
  ASSUME NEW R, NEW s \in Seq(R), NEW n \in Nat, NEW m \in Nat \ {0}
  PROVE  /\ SubSeq(s, n + 1, Len(s)) \in Seq(R)
         /\ Page(SubSeq(s, n + 1, Len(s)), 0, m) = Page(s, n, m)
<1> DEFINE l == Len(s)
           e == IF n + m <= l THEN n + m ELSE l
           rest == SubSeq(s, n + 1, l)
           c == IF 0 + m <= Len(rest) THEN 0 + m ELSE Len(rest)
           p == Page(rest, 0, m)
           w == Page(s, n, m)
<1>1. l \in Nat /\ e \in Nat /\ e <= l /\ 0 \in Nat /\ 0 + 1 = 1
  OBVIOUS
<1>2. p = SubSeq(rest, 0 + 1, c) /\ w = SubSeq(s, n + 1, e)
  BY DEF Page
<1> HIDE DEF p, w, e
<1>3. /\ rest \in Seq(R)
      /\ Len(rest) = IF n < l THEN l - n ELSE 0
      /\ \A k \in 1 .. (l - n) : rest[k] = s[n + k]
  BY <1>1, PartFacts
<1> HIDE DEF rest
<1>4. /\ w \in Seq(R)
      /\ Len(w) = IF n < e THEN e - n ELSE 0
      /\ \A k \in 1 .. (e - n) : w[k] = s[n + k]
  BY <1>1, <1>2, PartFacts
<1>5. c \in Nat /\ c <= Len(rest) /\ c = IF n < e THEN e - n ELSE 0
  BY <1>1, <1>3 DEF e
<1> HIDE DEF c, l
<1>6. /\ p \in Seq(R)
      /\ Len(p) = IF 0 < c THEN c - 0 ELSE 0
      /\ \A k \in 1 .. (c - 0) : p[k] = rest[0 + k]
  BY <1>1, <1>2, <1>3, <1>5, PartFacts
<1>7. Len(p) = c /\ Len(w) = c
  BY <1>4, <1>5, <1>6
<1>8. ASSUME NEW k \in 1 .. c PROVE p[k] = w[k]
  <2>1. k \in 1 .. (c - 0) /\ 0 + k = k /\ k \in 1 .. (e - n) /\ k \in 1 .. (l - n)
    BY <1>1, <1>5
  <2> QED BY <1>3, <1>4, <1>6, <2>1
<1>9. p = w
  BY <1>4, <1>6, <1>7, <1>8, SeqEqual
<1> QED BY <1>3, <1>9 DEF p, w, rest, l

(* Each of the three queries delivers a page of the records it is about.   *)
LEMMA QueryIsPage ==
  ASSUME IdxInv, NEW q \in Queries, NEW n \in Nat, NEW m \in Nat \ {0}
  PROVE  GetEvents(q, n, m) = Page(InOrder(FoundIn(store, q)), n, m)
<1> DEFINE s == InOrder(FoundIn(store, q))
<1>1. FoundIn(store, q) \in SUBSET (DOMAIN store) /\ s \in Seq(FoundIn(store, q))
  BY FoundFinite
<1>2. PageOfIndex(s, n, m) = Page(s, n, m)
  <2> DEFINE rest == SubSeq(s, n + 1, Len(s))
             S == FoundIn(store, q)
  <2> HIDE DEF s, S
  <2>1. rest \in Seq(S) /\ Page(rest, 0, m) = Page(s, n, m)
    BY <1>1, PageOfRest DEF S
  <2> HIDE DEF rest
  <2>2. \A k \in DOMAIN rest : rest[k] \in DOMAIN store
    <3>1. \A k \in DOMAIN rest : rest[k] \in S
      BY <2>1
    <3> QED BY <1>1, <3>1 DEF S
  <2>3. Kept(rest, DOMAIN store) = rest
    BY <2>1, <2>2, KeptAll
  <2> QED BY <2>1, <2>3 DEF PageOfIndex, rest
<1> HIDE DEF s
<1>3. CASE q \in {"type"} \X EventTypes
  <2>1. q[1] = "type" /\ q[2] \in EventTypes /\ q = <<"type", q[2]>>
    BY <1>3
  <2>2. GetEvents(q, n, m) = PageOfIndex(type_index[q[2]], n, m)
    BY <2>1 DEF GetEvents
  <2>3. type_index[q[2]] = s
    BY <2>1 DEF IdxInv, IndexesInOrder, s
  <2> QED BY <1>2, <2>2, <2>3 DEF s
<1>4. CASE q \in {"actor"} \X Actors
  <2>1. q[1] = "actor" /\ q[2] \in Actors /\ q = <<"actor", q[2]>>
    BY <1>4
  <2>2. GetEvents(q, n, m) = PageOfIndex(actor_index[q[2]], n, m)
    BY <2>1 DEF GetEvents
  <2>3. actor_index[q[2]] = s
    BY <2>1 DEF IdxInv, IndexesInOrder, s
  <2> QED BY <1>2, <2>2, <2>3 DEF s
<1>5. CASE q[1] = "time"
  <2> DEFINE D == DOMAIN store
             T == {id \in D : store[id].timestamp \in q[2][1] .. q[2][2]}
  <2>1. GetEvents(q, n, m) = Page(Kept(all_ids, T), n, m)
    BY <1>5 DEF GetEvents, GetEventsByTime
  <2>2. T = FoundIn(store, q)
    BY <1>5 DEF FoundIn, MatchesRecord
  <2>3. D \in SUBSET Nat /\ IsFiniteSet(D)
    BY RecordsFinite DEF IdxInv, IdxTypeOK, RecordsAgree
  <2>4. all_ids = InOrder(D)
    BY DEF IdxInv, IndexesInOrder
  <2>5. D \cap T = T
    OBVIOUS
  <2> HIDE DEF T, D
  <2>6. Kept(all_ids, T) = InOrder(T)
    BY <2>3, <2>4, <2>5, KeptInOrder
  <2> QED BY <2>1, <2>2, <2>6 DEF s
<1>6. q[1] = "time" \/ q \in {"actor"} \X Actors \/ q \in {"type"} \X EventTypes
  BY DEF Queries
<1> QED BY <1>3, <1>4, <1>5, <1>6

LEMMA IdxInitInv ==
  ASSUME IdxInit
  PROVE  IdxInv
<1>1. DOMAIN store = {}
  BY DEF IdxInit
<1>2. \A q : FoundIn(store, q) = {}
  BY <1>1 DEF FoundIn
<1>3. InOrder({}) = << >> /\ Cardinality({}) = 0
  <2>1. {} \in SUBSET Nat /\ IsFiniteSet({}) /\ Cardinality({}) = 0
    BY FS_EmptySet
  <2>2. InOrder({}) \in Seq({}) /\ Len(InOrder({})) = 0
    BY <2>1, InOrderFacts
  <2> QED BY <2>1, <2>2
<1>4. IdxTypeOK
  <2>1. now \in 0 .. MaxTime /\ next_id \in Nat \ {0}
    BY IndexerAssumption DEF IdxInit
  <2>2. << >> \in Seq(Nat) /\ 0 \in Nat
    OBVIOUS
  <2> QED BY <2>1, <2>2 DEF IdxInit, IdxTypeOK
<1>5. RecordsAgree
  BY <1>1 DEF RecordsAgree
<1>6. IndexesInOrder
  BY <1>1, <1>2, <1>3 DEF IdxInit, IndexesInOrder
<1>7. Scanning(scan, << >>, next_id)
  <2> DEFINE e == << >>
  <2>1. scan.seen = e /\ scan.due = e /\ scan.done = TRUE
    BY DEF IdxInit
  <2>2. DOMAIN e = {} /\ IsPrefix(e, e)
    BY DEF IsPrefix
  <2> HIDE DEF e
  <2> QED BY <2>1, <2>2 DEF Scanning, Increasing
<1> QED BY <1>2, <1>3, <1>4, <1>5, <1>6, <1>7 DEF IdxInv

(* What was read of a list stays read when an entry is appended.           *)
LEMMA AppendKeeps ==
  ASSUME NEW R, NEW s \in Seq(R), NEW x \in R, NEW c \in Nat, c <= Len(s)
  PROVE  /\ Append(s, x) \in Seq(R) /\ Len(Append(s, x)) = Len(s) + 1
         /\ SubSeq(Append(s, x), 1, c) = SubSeq(s, 1, c)
<1> DEFINE t == Append(s, x)
           u == SubSeq(s, 1, c)
           v == SubSeq(t, 1, c)
<1>1. Len(s) \in Nat /\ t \in Seq(R) /\ Len(t) = Len(s) + 1
      /\ \A k \in 1 .. Len(s) : t[k] = s[k]
  BY AppendProperties
<1> HIDE DEF t
<1>2. 0 \in Nat /\ 0 + 1 = 1 /\ c - 0 = c /\ (IF 0 < c THEN c - 0 ELSE 0) = c /\ c <= Len(t)
      /\ \A k \in 1 .. c : 0 + k = k /\ k \in 1 .. Len(s)
  BY <1>1
<1>3. u \in Seq(R) /\ Len(u) = c /\ \A k \in 1 .. c : u[k] = s[k]
  <2>1. /\ SubSeq(s, 0 + 1, c) \in Seq(R)
        /\ Len(SubSeq(s, 0 + 1, c)) = IF 0 < c THEN c - 0 ELSE 0
        /\ \A k \in 1 .. (c - 0) : SubSeq(s, 0 + 1, c)[k] = s[0 + k]
    BY <1>2, PartFacts
  <2> QED BY <1>2, <2>1
<1>4. v \in Seq(R) /\ Len(v) = c /\ \A k \in 1 .. c : v[k] = t[k]
  <2>1. /\ SubSeq(t, 0 + 1, c) \in Seq(R)
        /\ Len(SubSeq(t, 0 + 1, c)) = IF 0 < c THEN c - 0 ELSE 0
        /\ \A k \in 1 .. (c - 0) : SubSeq(t, 0 + 1, c)[k] = t[0 + k]
    BY <1>1, <1>2, PartFacts
  <2> QED BY <1>2, <2>1
<1> HIDE DEF u, v
<1>5. \A k \in 1 .. c : v[k] = u[k]
  BY <1>1, <1>2, <1>3, <1>4
<1>6. v = u
  BY <1>3, <1>4, <1>5, SeqEqual
<1> QED BY <1>1, <1>6 DEF t, u, v

LEMMA PrefixKeeps ==
  ASSUME NEW R, NEW s \in Seq(R), NEW x \in R, NEW d \in Seq(R), IsPrefix(d, s)
  PROVE  IsPrefix(d, Append(s, x))
<1> DEFINE c == Len(d)
<1>1. c \in Nat /\ Len(s) \in Nat
  OBVIOUS
<1>2. c <= Len(s) /\ SubSeq(d, 1, c) = SubSeq(s, 1, c)
  BY DEF IsPrefix
<1> HIDE DEF c
<1>3. SubSeq(Append(s, x), 1, c) = SubSeq(s, 1, c) /\ Len(Append(s, x)) = Len(s) + 1
  BY <1>1, <1>2, AppendKeeps
<1> QED BY <1>1, <1>2, <1>3 DEF IsPrefix, c

(* A record is found by the queries it matches, behind all others.         *)
LEMMA RecordFound ==
  ASSUME IdxInv, NEW r \in Callers, NEW t \in EventTypes, NEW c \in Actors,
         RecordEvent(r, t, c)
  PROVE  /\ DOMAIN store' = DOMAIN store \cup {next_id}
         /\ \A id \in DOMAIN store : store'[id] = store[id]
         /\ store'[next_id] = [event_type |-> t, actor |-> c, timestamp |-> now]
         /\ next_id \notin DOMAIN store
         /\ InOrder(DOMAIN store') = Append(InOrder(DOMAIN store), next_id)
         /\ \A q : InOrder(FoundIn(store', q))
                     = IF MatchesRecord(store'[next_id], q)
                       THEN Append(InOrder(FoundIn(store, q)), next_id)
                       ELSE InOrder(FoundIn(store, q))
<1>1. store' = [e \in DOMAIN store \cup {next_id} |->
         IF e = next_id THEN [event_type |-> t, actor |-> c, timestamp |-> now] ELSE store[e]]
  BY DEF RecordEvent
<1>2. next_id \in Nat /\ DOMAIN store \subseteq 1 .. next_id - 1
  BY DEF IdxInv, IdxTypeOK, RecordsAgree
<1>3. next_id \notin DOMAIN store /\ \A id \in DOMAIN store : id < next_id
  BY <1>2
<1>4. /\ DOMAIN store' = DOMAIN store \cup {next_id}
      /\ \A id \in DOMAIN store : store'[id] = store[id]
      /\ store'[next_id] = [event_type |-> t, actor |-> c, timestamp |-> now]
  BY <1>1, <1>3
<1>5. InOrder(DOMAIN store \cup {next_id}) = Append(InOrder(DOMAIN store), next_id)
  <2> DEFINE D == DOMAIN store
  <2>1. D \in SUBSET Nat /\ IsFiniteSet(D)
    BY <1>2, RecordsFinite
  <2>2. \A x \in D : x < next_id
    BY <1>3
  <2> HIDE DEF D
  <2>3. InOrder(D \cup {next_id}) = Append(InOrder(D), next_id)
    BY <1>2, <2>1, <2>2, InOrderAppend
  <2> QED BY <2>3 DEF D
<1>6. ASSUME NEW q
      PROVE  InOrder(FoundIn(store', q)) = IF MatchesRecord(store'[next_id], q)
                                           THEN Append(InOrder(FoundIn(store, q)), next_id)
                                           ELSE InOrder(FoundIn(store, q))
  <2> DEFINE S == FoundIn(store, q)
  <2>1. S \in SUBSET (DOMAIN store) /\ S \in SUBSET Nat /\ IsFiniteSet(S)
    BY FoundFinite
  <2>2. FoundIn(store', q) = IF MatchesRecord(store'[next_id], q) THEN S \cup {next_id} ELSE S
    BY <1>3, <1>4 DEF FoundIn
  <2> HIDE DEF S
  <2>3. \A x \in S : x < next_id
    BY <1>3, <2>1
  <2>4. InOrder(S \cup {next_id}) = Append(InOrder(S), next_id)
    BY <1>2, <2>1, <2>3, InOrderAppend
  <2> QED BY <2>2, <2>4 DEF S
<1> QED BY <1>3, <1>4, <1>5, <1>6

LEMMA RecordKeeps ==
  ASSUME IdxInv, NEW r \in Callers, NEW t \in EventTypes, NEW c \in Actors,
         RecordEvent(r, t, c)
  PROVE  IdxInv'
<1> DEFINE rec == [event_type |-> t, actor |-> c, timestamp |-> now]
           D == DOMAIN store
<1>1. /\ DOMAIN store' = D \cup {next_id}
      /\ \A id \in D : store'[id] = store[id]
      /\ store'[next_id] = rec
      /\ next_id \notin D
      /\ InOrder(DOMAIN store') = Append(InOrder(D), next_id)
      /\ \A q : InOrder(FoundIn(store', q))
                  = IF MatchesRecord(rec, q)
                    THEN Append(InOrder(FoundIn(store, q)), next_id)
                    ELSE InOrder(FoundIn(store, q))
  BY RecordFound
<1>2. /\ now \in 0 .. MaxTime /\ next_id \in Nat \ {0}
      /\ scan \in [query : Queries \cup {<< >>}, offset : Nat, seen : Seq(Nat), due : Seq(Nat),
                   pruned : BOOLEAN, done : BOOLEAN]
      /\ ~scan.done => scan.query \in Queries
  BY DEF IdxInv, IdxTypeOK
<1>3. /\ type_index' = [type_index EXCEPT ![t] = Append(@, next_id)]
      /\ actor_index' = [actor_index EXCEPT ![c] = Append(@, next_id)]
      /\ all_ids' = Append(all_ids, next_id)
      /\ next_id' = next_id + 1
      /\ event_count' = event_count + 1
      /\ now' = now /\ scan' = scan
  BY DEF RecordEvent
<1>4. IdxTypeOK'
  BY <1>2, <1>3 DEF IdxTypeOK
<1>5. /\ D \subseteq 1 .. next_id - 1
      /\ \A id \in D : store[id] \in EventRecord /\ store[id].timestamp <= now
      /\ \A id, other \in D : id < other => store[id].timestamp <= store[other].timestamp
  BY DEF IdxInv, RecordsAgree
<1>6. rec \in EventRecord /\ rec.timestamp = now /\ rec.event_type = t /\ rec.actor = c
  BY <1>2 DEF EventRecord
<1>7. \A u : MatchesRecord(rec, <<"type", u>>) <=> t = u
  BY DEF MatchesRecord
<1>8. \A a : MatchesRecord(rec, <<"actor", a>>) <=> c = a
  BY DEF MatchesRecord
<1> HIDE DEF rec, D
<1>9. RecordsAgree'
  <2> DEFINE low == 1 .. next_id - 1
             high == 1 .. next_id' - 1
  <2>4. low \subseteq high /\ next_id \in high /\ (\A k \in low : ~ (next_id < k)) /\ now <= now
    BY <1>2, <1>3
  <2>1. DOMAIN store' \subseteq high
    <3> HIDE DEF low, high
    <3> QED BY <1>1, <1>5, <2>4 DEF low
  <2>2. ASSUME NEW id \in DOMAIN store'
        PROVE  store'[id] \in EventRecord /\ store'[id].timestamp <= now'
    <3>1. CASE id \in D
      BY <1>1, <1>3, <1>5, <3>1
    <3>2. CASE id = next_id
      BY <1>1, <1>3, <1>6, <2>4, <3>2
    <3> QED BY <1>1, <3>1, <3>2
  <2>3. ASSUME NEW id \in DOMAIN store', NEW other \in DOMAIN store', id < other
        PROVE  store'[id].timestamp <= store'[other].timestamp
    <3>4. \A k \in D : ~ (next_id < k)
      BY <1>5, <2>4
    <3>1. id \in D
      <4>1. ~ (next_id < next_id)
        BY <1>2
      <4> QED BY <1>1, <2>3, <3>4, <4>1
    <3>2. CASE other \in D
      BY <1>1, <1>5, <2>3, <3>1, <3>2
    <3>3. CASE other = next_id
      BY <1>1, <1>5, <1>6, <3>1, <3>3
    <3> QED BY <1>1, <3>2, <3>3
  <2> QED BY <2>1, <2>2, <2>3 DEF RecordsAgree
<1>10. IndexesInOrder'
  <2>1. /\ all_ids = InOrder(D) /\ event_count = Cardinality(D)
        /\ type_index = [u \in EventTypes |-> InOrder(FoundIn(store, <<"type", u>>))]
        /\ actor_index = [a \in Actors |-> InOrder(FoundIn(store, <<"actor", a>>))]
    BY DEF IdxInv, IndexesInOrder, D
  <2>2. Cardinality(D \cup {next_id}) = Cardinality(D) + 1
    <3>1. IsFiniteSet(D)
      BY <1>2, <1>5, RecordsFinite DEF D
    <3> QED BY <1>1, <3>1, FS_AddElement
  <2>3. ASSUME NEW u \in EventTypes
        PROVE  type_index'[u] = InOrder(FoundIn(store', <<"type", u>>))
    <3> DEFINE q == <<"type", u>>
    <3>1. MatchesRecord(rec, q) <=> t = u
      BY <1>7
    <3>2. type_index'[u] = IF u = t THEN Append(type_index[u], next_id) ELSE type_index[u]
      BY <1>3, <2>1
    <3>3. type_index[u] = InOrder(FoundIn(store, q))
      BY <2>1
    <3> HIDE DEF q
    <3> QED BY <1>1, <3>1, <3>2, <3>3 DEF q
  <2>4. ASSUME NEW a \in Actors
        PROVE  actor_index'[a] = InOrder(FoundIn(store', <<"actor", a>>))
    <3> DEFINE q == <<"actor", a>>
    <3>1. MatchesRecord(rec, q) <=> c = a
      BY <1>8
    <3>2. actor_index'[a] = IF a = c THEN Append(actor_index[a], next_id) ELSE actor_index[a]
      BY <1>3, <2>1
    <3>3. actor_index[a] = InOrder(FoundIn(store, q))
      BY <2>1
    <3> HIDE DEF q
    <3> QED BY <1>1, <3>1, <3>2, <3>3 DEF q
  <2>5. type_index' = [u \in EventTypes |-> InOrder(FoundIn(store', <<"type", u>>))]
    <3>1. type_index' = [u \in EventTypes |-> type_index'[u]]
      BY <1>3, <2>1
    <3> QED BY <2>3, <3>1
  <2>6. actor_index' = [a \in Actors |-> InOrder(FoundIn(store', <<"actor", a>>))]
    <3>1. actor_index' = [a \in Actors |-> actor_index'[a]]
      BY <1>3, <2>1
    <3> QED BY <2>4, <3>1
  <2> QED BY <1>1, <1>3, <2>1, <2>2, <2>5, <2>6 DEF IndexesInOrder
<1>11. Scanning(scan, InOrder(FoundIn(store', scan.query)), next_id')
  <2> DEFINE q == scan.query
             s == InOrder(FoundIn(store, q))
             u == InOrder(FoundIn(store', q))
  <2>1. /\ s \in Seq(Nat)
        /\ u = IF MatchesRecord(rec, q) THEN Append(s, next_id) ELSE s
        /\ Scanning(scan, s, next_id)
    BY <1>1, FoundFinite DEF IdxInv
  <2> HIDE DEF s, u, q
  <2>2. /\ Increasing(scan.seen)
        /\ \A k \in DOMAIN scan.seen : scan.seen[k] < next_id
        /\ ~scan.done => \A k \in DOMAIN scan.seen, j \in DOMAIN s :
                           scan.offset < j => scan.seen[k] < s[j]
        /\ ~scan.done /\ ~scan.pruned => /\ scan.offset <= Len(s)
                                         /\ scan.seen = SubSeq(s, 1, scan.offset)
                                         /\ IsPrefix(scan.due, s)
        /\ scan.done /\ ~scan.pruned => IsPrefix(scan.due, scan.seen)
    BY <2>1 DEF Scanning
  <2>3. next_id \in Nat /\ scan.offset \in Nat /\ scan.due \in Seq(Nat) /\ scan.seen \in Seq(Nat)
        /\ next_id' = next_id + 1
    BY <1>2, <1>3
  <2>4. \A k \in DOMAIN scan.seen : scan.seen[k] < next_id'
    <3>1. \A k \in DOMAIN scan.seen : scan.seen[k] \in Nat
      BY <2>3
    <3> QED BY <2>2, <2>3, <3>1
  <2>5. CASE u = s
    BY <2>2, <2>4, <2>5 DEF Scanning, u, q
  <2>6. CASE u = Append(s, next_id)
    <3>1. Len(s) \in Nat /\ Len(u) = Len(s) + 1 /\ DOMAIN u = 1 .. (Len(s) + 1)
          /\ (\A j \in 1 .. Len(s) : u[j] = s[j]) /\ u[Len(s) + 1] = next_id
          /\ DOMAIN s = 1 .. Len(s)
      BY <2>1, <2>3, <2>6, AppendProperties
    <3>2. ~scan.done => \A k \in DOMAIN scan.seen, j \in DOMAIN u :
                          scan.offset < j => scan.seen[k] < u[j]
      <4>1. \A j \in DOMAIN u : j \in DOMAIN s \/ j = Len(s) + 1
        BY <3>1
      <4> QED BY <2>2, <3>1, <4>1
    <3>3. ~scan.done /\ ~scan.pruned => /\ scan.offset <= Len(u)
                                        /\ scan.seen = SubSeq(u, 1, scan.offset)
                                        /\ IsPrefix(scan.due, u)
      <4> SUFFICES ASSUME ~scan.done, ~scan.pruned
                   PROVE  /\ scan.offset <= Len(u)
                          /\ scan.seen = SubSeq(u, 1, scan.offset)
                          /\ IsPrefix(scan.due, u)
        OBVIOUS
      <4>1. scan.offset <= Len(u)
        BY <2>2, <2>3, <3>1
      <4>2. SubSeq(u, 1, scan.offset) = SubSeq(s, 1, scan.offset)
        BY <2>1, <2>2, <2>3, <2>6, AppendKeeps
      <4>3. IsPrefix(scan.due, u)
        BY <2>1, <2>2, <2>3, <2>6, PrefixKeeps
      <4> QED BY <2>2, <4>1, <4>2, <4>3
    <3> QED BY <2>2, <2>4, <3>2, <3>3 DEF Scanning, u, q
  <2> QED BY <2>1, <2>5, <2>6
<1>12. Scanning(scan, InOrder(FoundIn(store, scan.query)), next_id)'
  BY <1>3, <1>11
<1> QED BY <1>4, <1>9, <1>10, <1>12 DEF IdxInv

LEMMA PruneFound ==
  ASSUME IdxInv, NEW a, NEW before, PruneEvents(a, before), NEW gone, gone = PrunedBefore(before)
  PROVE  /\ gone \in SUBSET (DOMAIN store)
         /\ DOMAIN store' = DOMAIN store \ gone
         /\ \A id \in DOMAIN store' : store'[id] = store[id]
         /\ all_ids' = InOrder(DOMAIN store \ gone)
         /\ event_count' = Cardinality(DOMAIN store \ gone)
         /\ \A q : FoundIn(store', q) = FoundIn(store, q) \ gone
<1> DEFINE D == DOMAIN store
<1>1. D \in SUBSET Nat /\ IsFiniteSet(D) /\ Cardinality(D) \in Nat
  BY RecordsFinite DEF IdxInv, IdxTypeOK, RecordsAgree
<1>2. all_ids = InOrder(D) /\ event_count = Cardinality(D)
  BY DEF IdxInv, IndexesInOrder
<1>3. /\ all_ids' = Kept(all_ids, D \ gone)
      /\ store' = Restrict(store, D \ gone)
      /\ event_count' = event_count - Cardinality(gone)
  BY DEF PruneEvents
<1>4. DOMAIN store' = D \ gone /\ \A id \in D \ gone : store'[id] = store[id]
  BY <1>3 DEF Restrict
<1>5. gone \in SUBSET D
  BY DEF PrunedBefore, Stored
<1> HIDE DEF D
<1>6. D \cap (D \ gone) = D \ gone /\ D \cap gone = gone
  BY <1>5
<1>7. Kept(InOrder(D), D \ gone) = InOrder(D \ gone)
  BY <1>1, <1>6, KeptInOrder
<1>8. Cardinality(D \ gone) = Cardinality(D) - Cardinality(gone)
  BY <1>1, <1>6, FS_Difference
<1>9. \A q : FoundIn(store', q) = FoundIn(store, q) \ gone
  BY <1>4, <1>5 DEF FoundIn, D
<1> QED BY <1>2, <1>3, <1>4, <1>5, <1>7, <1>8, <1>9 DEF D

(* An index loses the ids that its own records name, which are those that  *)
(* are gone.                                                               *)
LEMMA PruneIndex ==
  ASSUME IdxInv, NEW q, NEW gone, NEW S, S = {id \in gone : MatchesRecord(store[id], q)}
  PROVE  LET ids == InOrder(FoundIn(store, q))
         IN Kept(ids, ToSet(ids) \ S) = InOrder(FoundIn(store, q) \ gone)
<1> DEFINE F == FoundIn(store, q)
           ids == InOrder(F)
<1>1. F \in SUBSET Nat /\ IsFiniteSet(F)
  BY FoundFinite
<1>2. F \cap (F \ S) = F \ gone
  BY DEF FoundIn
<1> HIDE DEF F
<1>3. ToSet(ids) = F
  BY <1>1, InOrderFacts
<1>4. Kept(ids, F \ S) = InOrder(F \ gone)
  BY <1>1, <1>2, KeptInOrder
<1> QED BY <1>3, <1>4 DEF F

LEMMA PruneKeeps ==
  ASSUME IdxInv, NEW a, NEW before \in 0 .. MaxTime, PruneEvents(a, before)
  PROVE  IdxInv'
<1> DEFINE gone == PrunedBefore(before)
           D == DOMAIN store
<1>1. /\ gone \in SUBSET D
      /\ DOMAIN store' = D \ gone
      /\ \A id \in DOMAIN store' : store'[id] = store[id]
      /\ all_ids' = InOrder(D \ gone)
      /\ event_count' = Cardinality(D \ gone)
      /\ \A q : FoundIn(store', q) = FoundIn(store, q) \ gone
  BY PruneFound
<1>2. /\ type_index' = [t \in EventTypes |->
           Kept(type_index[t], ToSet(type_index[t]) \ {id \in gone : store[id].event_type = t})]
      /\ actor_index' = [c \in Actors |->
           Kept(actor_index[c], ToSet(actor_index[c]) \ {id \in gone : store[id].actor = c})]
      /\ scan' = [scan EXCEPT !.pruned = @ \/ gone # {}]
      /\ now' = now /\ next_id' = next_id
  BY DEF PruneEvents
<1> HIDE DEF gone, D
<1>3. /\ now \in 0 .. MaxTime /\ next_id \in Nat \ {0}
      /\ scan \in [query : Queries \cup {<< >>}, offset : Nat, seen : Seq(Nat), due : Seq(Nat),
                   pruned : BOOLEAN, done : BOOLEAN]
      /\ ~scan.done => scan.query \in Queries
  BY DEF IdxInv, IdxTypeOK
<1>4. /\ scan'.query = scan.query /\ scan'.offset = scan.offset /\ scan'.seen = scan.seen
      /\ scan'.due = scan.due /\ scan'.done = scan.done
      /\ scan'.pruned = (scan.pruned \/ gone # {})
      /\ scan' \in [query : Queries \cup {<< >>}, offset : Nat, seen : Seq(Nat), due : Seq(Nat),
                    pruned : BOOLEAN, done : BOOLEAN]
  BY <1>2, <1>3
<1>5. IdxTypeOK'
  BY <1>2, <1>3, <1>4 DEF IdxTypeOK
<1>6. RecordsAgree'
  BY <1>1, <1>2 DEF IdxInv, RecordsAgree, D
<1>7. IndexesInOrder'
  <2>1. /\ type_index = [t \in EventTypes |-> InOrder(FoundIn(store, <<"type", t>>))]
        /\ actor_index = [c \in Actors |-> InOrder(FoundIn(store, <<"actor", c>>))]
    BY DEF IdxInv, IndexesInOrder
  <2>2. ASSUME NEW t \in EventTypes
        PROVE  Kept(type_index[t], ToSet(type_index[t]) \ {id \in gone : store[id].event_type = t})
                 = InOrder(FoundIn(store', <<"type", t>>))
    <3> DEFINE q == <<"type", t>>
               S == {id \in gone : store[id].event_type = t}
    <3>1. S = {id \in gone : MatchesRecord(store[id], q)}
      BY DEF MatchesRecord
    <3>2. type_index[t] = InOrder(FoundIn(store, q))
      BY <2>1
    <3> HIDE DEF q, S
    <3>3. Kept(type_index[t], ToSet(type_index[t]) \ S) = InOrder(FoundIn(store, q) \ gone)
      BY <3>1, <3>2, PruneIndex
    <3> QED BY <1>1, <3>3 DEF q, S
  <2>3. ASSUME NEW c \in Actors
        PROVE  Kept(actor_index[c], ToSet(actor_index[c]) \ {id \in gone : store[id].actor = c})
                 = InOrder(FoundIn(store', <<"actor", c>>))
    <3> DEFINE q == <<"actor", c>>
               S == {id \in gone : store[id].actor = c}
    <3>1. S = {id \in gone : MatchesRecord(store[id], q)}
      BY DEF MatchesRecord
    <3>2. actor_index[c] = InOrder(FoundIn(store, q))
      BY <2>1
    <3> HIDE DEF q, S
    <3>3. Kept(actor_index[c], ToSet(actor_index[c]) \ S) = InOrder(FoundIn(store, q) \ gone)
      BY <3>1, <3>2, PruneIndex
    <3> QED BY <1>1, <3>3 DEF q, S
  <2>4. type_index' = [t \in EventTypes |-> InOrder(FoundIn(store', <<"type", t>>))]
    BY <1>2, <2>2
  <2>5. actor_index' = [c \in Actors |-> InOrder(FoundIn(store', <<"actor", c>>))]
    BY <1>2, <2>3
  <2> QED BY <1>1, <2>4, <2>5 DEF IndexesInOrder
<1>8. Scanning(scan', InOrder(FoundIn(store', scan.query)), next_id)
  <2> DEFINE F == FoundIn(store, scan.query)
             T == FoundIn(store', scan.query)
             s == InOrder(F)
             u == InOrder(T)
             l == Cardinality(T)
  <2>1. F \in SUBSET Nat /\ IsFiniteSet(F) /\ T = F \ gone
    BY <1>1, FoundFinite
  <2>2. Scanning(scan, s, next_id)
    BY DEF IdxInv
  <2> HIDE DEF F, T
  <2>3. T \in SUBSET F /\ T \in SUBSET Nat
    BY <2>1
  <2>4. IsFiniteSet(T) /\ Cardinality(T) <= Cardinality(F)
        /\ \A n \in 1 .. Cardinality(T) : s[n] <= u[n]
    BY <2>1, <2>3, PartIsLater
  <2>5. Cardinality(T) \in Nat /\ Cardinality(F) \in Nat
    BY <2>1, <2>4, FS_CardinalityType
  <2>6. DOMAIN s = 1 .. Cardinality(F) /\ \A j \in 1 .. Cardinality(F) : s[j] \in F
    BY <2>1, InOrderFacts
  <2>7. DOMAIN u = 1 .. l /\ \A j \in 1 .. l : u[j] \in T
    BY <2>3, <2>4, InOrderFacts
  <2> HIDE DEF s, u
  <2>8. \A j \in DOMAIN u : j \in DOMAIN s /\ s[j] \in Nat /\ u[j] \in Nat /\ s[j] <= u[j]
    <3> SUFFICES ASSUME NEW j \in DOMAIN u
                 PROVE  j \in DOMAIN s /\ s[j] \in Nat /\ u[j] \in Nat /\ s[j] <= u[j]
      OBVIOUS
    <3>1. j \in 1 .. l /\ j \in DOMAIN s
      BY <2>4, <2>5, <2>6, <2>7
    <3>2. s[j] \in F /\ u[j] \in T
      BY <2>6, <2>7, <3>1
    <3> QED BY <2>1, <2>3, <2>4, <3>1, <3>2
  <2> HIDE DEF l
  <2>9. ~scan.done => \A k \in DOMAIN scan.seen, j \in DOMAIN u :
                        scan.offset < j => scan.seen[k] < u[j]
    <3> SUFFICES ASSUME ~scan.done, NEW k \in DOMAIN scan.seen, NEW j \in DOMAIN u,
                        scan.offset < j
                 PROVE  scan.seen[k] < u[j]
      OBVIOUS
    <3>1. j \in DOMAIN s /\ s[j] \in Nat /\ u[j] \in Nat /\ s[j] <= u[j]
      BY <2>8
    <3>2. scan.seen[k] < s[j]
      BY <2>2, <3>1 DEF Scanning
    <3>3. scan.seen[k] \in Nat
      BY <1>3
    <3> QED BY <3>1, <3>2, <3>3
  <2>10. CASE gone = {}
    <3>1. T = F
      BY <2>1, <2>10
    <3>2. u = s
      BY <3>1 DEF u, s
    <3>3. scan'.pruned = scan.pruned
      BY <1>3, <1>4, <2>10
    <3>4. Scanning(scan', s, next_id)
      BY <1>4, <2>2, <3>3 DEF Scanning
    <3> QED BY <3>2, <3>4 DEF u, T
  <2>11. CASE gone # {}
    <3>1. scan'.pruned
      BY <1>4, <2>11
    <3>2. Scanning(scan', u, next_id)
      BY <1>4, <2>2, <2>9, <3>1 DEF Scanning
    <3> QED BY <3>2 DEF u, T
  <2> QED BY <2>10, <2>11
<1>9. Scanning(scan, InOrder(FoundIn(store, scan.query)), next_id)'
  BY <1>2, <1>4, <1>8
<1> QED BY <1>5, <1>6, <1>7, <1>9 DEF IdxInv

LEMMA StartKeeps ==
  ASSUME IdxInv, NEW q \in Queries, StartScan(q)
  PROVE  IdxInv'
<1> DEFINE s == InOrder(FoundIn(store, q))
           r == [query |-> q, offset |-> 0, seen |-> << >>, due |-> s, pruned |-> FALSE,
                 done |-> FALSE]
<1>1. s \in Seq(Nat)
  BY FoundFinite
<1>2. scan' = r
  BY FoundNow DEF StartScan
<1>3. UNCHANGED <<now, next_id, event_count, store, type_index, actor_index, all_ids>>
  BY DEF StartScan, indexVars
<1>4. FoundIn(store', scan'.query) = FoundIn(store, q)
  BY <1>2, <1>3
<1> HIDE DEF s
<1>5. r \in [query : Queries \cup {<< >>}, offset : Nat, seen : Seq(Nat), due : Seq(Nat),
             pruned : BOOLEAN, done : BOOLEAN]
  <2>1. << >> \in Seq(Nat) /\ 0 \in Nat
    OBVIOUS
  <2> QED BY <1>1, <2>1
<1>6. SubSeq(s, 1, 0) = << >> /\ 0 <= Len(s)
  BY <1>1, WholeSeq
<1>7. IsPrefix(s, s)
  BY <1>1 DEF IsPrefix
<1>8. Scanning(r, s, next_id)
  <2> DEFINE e == << >>
  <2>1. DOMAIN e = {}
    OBVIOUS
  <2>2. r.seen = e /\ r.offset = 0 /\ r.due = s /\ r.done = FALSE /\ r.pruned = FALSE
    OBVIOUS
  <2> HIDE DEF r, e
  <2>3. SubSeq(s, 1, 0) = e
    BY <1>6 DEF e
  <2> QED BY <1>6, <1>7, <2>1, <2>2, <2>3 DEF Scanning, Increasing
<1>9. Scanning(scan, InOrder(FoundIn(store, scan.query)), next_id)'
  BY <1>2, <1>3, <1>4, <1>8 DEF s
<1>10. IdxTypeOK'
  BY <1>2, <1>3, <1>5 DEF IdxInv, IdxTypeOK
<1>11. RecordsAgree' /\ IndexesInOrder'
  BY <1>3 DEF IdxInv, RecordsAgree, IndexesInOrder
<1> QED BY <1>9, <1>10, <1>11 DEF IdxInv

LEMMA ReadKeeps ==
  ASSUME IdxInv, NEW limit \in PageSizes, ReadPage(limit)
  PROVE  IdxInv'
<1> DEFINE F == FoundIn(store, scan.query)
           s == InOrder(F)
           n == scan.offset
           p == Page(s, n, limit)
           done == Len(p) < limit
           seen == scan.seen
           all == seen \o p
<1>1. /\ now \in 0 .. MaxTime /\ next_id \in Nat \ {0}
      /\ scan \in [query : Queries \cup {<< >>}, offset : Nat, seen : Seq(Nat), due : Seq(Nat),
                   pruned : BOOLEAN, done : BOOLEAN]
      /\ ~scan.done => scan.query \in Queries
  BY DEF IdxInv, IdxTypeOK
<1>2. scan.done = FALSE /\ scan.query \in Queries /\ n \in Nat /\ limit \in Nat \ {0}
  BY <1>1, IndexerAssumption DEF ReadPage
<1>3. GetEvents(scan.query, n, limit) = p
  BY <1>2, QueryIsPage
<1>4. scan' = [scan EXCEPT !.offset = n + limit, !.seen = all, !.done = done]
  BY <1>1, <1>3 DEF ReadPage
<1>5. UNCHANGED <<now, next_id, event_count, store, type_index, actor_index, all_ids>>
  BY DEF ReadPage, indexVars
<1>6. /\ F \in SUBSET (DOMAIN store) /\ F \in SUBSET Nat /\ IsFiniteSet(F)
      /\ s \in Seq(F) /\ s \in Seq(Nat)
  BY FoundFinite
<1>7. Scanning(scan, s, next_id)
  BY DEF IdxInv
<1>8. FoundIn(store', scan'.query) = F
  BY <1>1, <1>4, <1>5
<1> HIDE DEF F
<1>9. Increasing(s)
  BY <1>6, InOrderFacts
<1>10. DOMAIN s \subseteq Nat /\ Len(s) \in Nat /\ \A j \in DOMAIN s : s[j] \in F /\ s[j] \in Nat
  <2>1. DOMAIN s = 1 .. Len(s) /\ Len(s) \in Nat /\ \A j \in DOMAIN s : s[j] \in F
    BY <1>6
  <2> QED BY <1>6, <2>1
<1> HIDE DEF s, n
<1>11. /\ p \in Seq(Nat)
       /\ done <=> Len(s) < n + limit
       /\ \A k \in DOMAIN p : n + k \in DOMAIN s /\ k <= limit /\ p[k] = s[n + k]
       /\ n <= Len(s) => SubSeq(s, 1, n) \o p
                           = IF n + limit <= Len(s) THEN SubSeq(s, 1, n + limit) ELSE s
  <2>1. s \in Seq(Nat) /\ n \in Nat /\ limit \in Nat \ {0}
    BY <1>2, <1>6
  <2>2. p \in Seq(Nat) /\ PageOf(p, s, n, limit)
    BY <2>1, PageFacts
  <2> QED BY <2>2 DEF PageOf
<1>12. seen \in Seq(Nat)
  BY <1>1
<1> HIDE DEF p, seen
<1>13. /\ all \in Seq(Nat)
       /\ DOMAIN all = 1 .. (Len(seen) + Len(p))
       /\ \A k \in DOMAIN all :
            \/ k \in DOMAIN seen /\ all[k] = seen[k]
            \/ k - Len(seen) \in DOMAIN p /\ all[k] = p[k - Len(seen)]
  BY <1>11, <1>12, ReadMore
<1>14. /\ Increasing(seen)
       /\ \A k \in DOMAIN seen : seen[k] < next_id
       /\ \A k \in DOMAIN seen, j \in DOMAIN s : n < j => seen[k] < s[j]
       /\ ~scan.pruned => /\ n <= Len(s)
                          /\ seen = SubSeq(s, 1, n)
                          /\ IsPrefix(scan.due, s)
  BY <1>2, <1>7 DEF Scanning, seen, n
<1>15. /\ DOMAIN seen = 1 .. Len(seen) /\ Len(seen) \in Nat
       /\ DOMAIN p = 1 .. Len(p) /\ Len(p) \in Nat
  BY <1>11, <1>12
<1> HIDE DEF all, done
<1>16. \A k \in DOMAIN all :
         \/ k \in DOMAIN seen /\ all[k] = seen[k]
         \/ \E j \in DOMAIN s : /\ j = n + (k - Len(seen)) /\ n < j /\ j <= n + limit
                                /\ Len(seen) < k /\ all[k] = s[j]
  <2> SUFFICES ASSUME NEW k \in DOMAIN all,
                      k - Len(seen) \in DOMAIN p /\ all[k] = p[k - Len(seen)]
               PROVE  \E j \in DOMAIN s : /\ j = n + (k - Len(seen)) /\ n < j /\ j <= n + limit
                                          /\ Len(seen) < k /\ all[k] = s[j]
    BY <1>13
  <2> DEFINE i == k - Len(seen)
  <2>1. i \in DOMAIN p /\ all[k] = p[i] /\ i \in Nat \ {0} /\ k \in Int
    BY <1>13, <1>15
  <2>2. n + i \in DOMAIN s /\ i <= limit /\ all[k] = s[n + i]
    BY <1>11, <2>1
  <2>3. Len(seen) < k /\ n < n + i /\ n + i <= n + limit
    BY <1>2, <1>15, <2>1, <2>2 DEF n
  <2> QED BY <2>2, <2>3
<1>17. Increasing(all)
  <2> SUFFICES ASSUME NEW j \in DOMAIN all, NEW k \in DOMAIN all, j < k
               PROVE  all[j] < all[k]
    BY DEF Increasing
  <2>1. CASE k \in DOMAIN seen /\ all[k] = seen[k]
    <3>1. j \in DOMAIN seen
      BY <1>13, <1>15, <2>1
    <3>2. all[j] = seen[j]
      <4>1. ~ (Len(seen) < j)
        BY <1>15, <3>1
      <4> QED BY <1>16, <4>1
    <3> QED BY <1>14, <2>1, <3>1, <3>2 DEF Increasing
  <2>2. CASE ~ (k \in DOMAIN seen /\ all[k] = seen[k])
    <3>1. PICK y \in DOMAIN s : y = n + (k - Len(seen)) /\ n < y /\ all[k] = s[y]
      BY <1>16, <2>2
    <3>2. CASE j \in DOMAIN seen /\ all[j] = seen[j]
      BY <1>14, <3>1, <3>2
    <3>3. CASE ~ (j \in DOMAIN seen /\ all[j] = seen[j])
      <4>1. PICK x \in DOMAIN s : x = n + (j - Len(seen)) /\ all[j] = s[x]
        BY <1>16, <3>3
      <4>2. x < y
        BY <1>2, <1>13, <1>15, <3>1, <4>1
      <4> QED BY <1>9, <3>1, <4>1, <4>2 DEF Increasing
    <3> QED BY <3>2, <3>3
  <2> QED BY <2>1, <2>2
<1>18. \A k \in DOMAIN all : all[k] < next_id
  <2>1. \A j \in DOMAIN s : s[j] < next_id
    <3>1. \A x \in DOMAIN store : x < next_id
      <4>1. DOMAIN store \subseteq 1 .. next_id - 1
        BY DEF IdxInv, RecordsAgree
      <4>2. \A x \in 1 .. next_id - 1 : x < next_id
        BY <1>1
      <4> QED BY <4>1, <4>2
    <3> QED BY <1>6, <1>10, <3>1
  <2> QED BY <1>14, <1>16, <2>1
<1>19. \A k \in DOMAIN all, j \in DOMAIN s : n + limit < j => all[k] < s[j]
  <2> SUFFICES ASSUME NEW k \in DOMAIN all, NEW j \in DOMAIN s, n + limit < j
               PROVE  all[k] < s[j]
    OBVIOUS
  <2>1. j \in Nat /\ n \in Nat /\ limit \in Nat
    BY <1>2, <1>10
  <2>2. CASE k \in DOMAIN seen /\ all[k] = seen[k]
    <3>1. n < j
      BY <2>1
    <3> QED BY <1>14, <2>2, <3>1
  <2>3. CASE ~ (k \in DOMAIN seen /\ all[k] = seen[k])
    <3>1. PICK y \in DOMAIN s : y <= n + limit /\ all[k] = s[y]
      BY <1>16, <2>3
    <3>2. y < j
      BY <1>10, <2>1, <3>1
    <3> QED BY <1>9, <3>1, <3>2 DEF Increasing
  <2> QED BY <2>2, <2>3
<1>20. ~scan.pruned => all = IF n + limit <= Len(s) THEN SubSeq(s, 1, n + limit) ELSE s
  BY <1>11, <1>14 DEF all
<1>21. done <=> ~ (n + limit <= Len(s))
  BY <1>2, <1>10, <1>11
<1>22. done \in BOOLEAN
  BY DEF done
<1>23. /\ scan'.query = scan.query /\ scan'.offset = n + limit /\ scan'.seen = all
       /\ scan'.due = scan.due /\ scan'.done = done /\ scan'.pruned = scan.pruned
       /\ scan' \in [query : Queries \cup {<< >>}, offset : Nat, seen : Seq(Nat), due : Seq(Nat),
                     pruned : BOOLEAN, done : BOOLEAN]
  <2>1. n + limit \in Nat
    BY <1>2
  <2> QED BY <1>1, <1>4, <1>13, <1>22, <2>1
<1>24. Scanning(scan', s, next_id)
  <2>1. ~scan'.done /\ ~scan'.pruned => /\ scan'.offset <= Len(s)
                                        /\ scan'.seen = SubSeq(s, 1, scan'.offset)
                                        /\ IsPrefix(scan'.due, s)
    BY <1>14, <1>20, <1>21, <1>23
  <2>2. scan'.done /\ ~scan'.pruned => IsPrefix(scan'.due, scan'.seen)
    BY <1>14, <1>20, <1>21, <1>23
  <2> QED BY <1>17, <1>18, <1>19, <1>23, <2>1, <2>2 DEF Scanning
<1>25. Scanning(scan, InOrder(FoundIn(store, scan.query)), next_id)'
  BY <1>5, <1>8, <1>24 DEF s
<1>26. IdxTypeOK'
  BY <1>1, <1>2, <1>5, <1>23 DEF IdxTypeOK
<1>27. RecordsAgree' /\ IndexesInOrder'
  BY <1>5 DEF IdxInv, RecordsAgree, IndexesInOrder
<1> QED BY <1>25, <1>26, <1>27 DEF IdxInv

(* Steps that leave the records and the client alone.                      *)
LEMMA IdleKeeps ==
  ASSUME IdxInv, UNCHANGED <<indexVars, scan>>, now' \in 0 .. MaxTime, now <= now'
  PROVE  IdxInv'
<1>1. UNCHANGED <<next_id, event_count, store, type_index, actor_index, all_ids, scan>>
  BY DEF indexVars
<1>2. IdxTypeOK'
  BY <1>1 DEF IdxInv, IdxTypeOK
<1>3. RecordsAgree'
  <2>1. \A id \in DOMAIN store : store[id] \in EventRecord /\ store[id].timestamp <= now
    BY DEF IdxInv, RecordsAgree
  <2>2. \A id \in DOMAIN store : store[id].timestamp <= now'
    <3>1. \A id \in DOMAIN store : store[id].timestamp \in 0 .. MaxTime
      BY <2>1 DEF EventRecord
    <3>2. now \in 0 .. MaxTime
      BY DEF IdxInv, IdxTypeOK
    <3>3. \A x \in 0 .. MaxTime : x <= now => x <= now'
      BY <3>2
    <3> QED BY <2>1, <3>1, <3>3
  <2> QED BY <1>1, <2>1, <2>2 DEF IdxInv, RecordsAgree
<1>4. IndexesInOrder'
  BY <1>1 DEF IdxInv, IndexesInOrder
<1>5. Scanning(scan, InOrder(FoundIn(store, scan.query)), next_id)'
  BY <1>1 DEF IdxInv
<1> QED BY <1>2, <1>3, <1>4, <1>5 DEF IdxInv

LEMMA IdxStep ==
  ASSUME IdxInv, IdxNext \/ UNCHANGED idxVars
  PROVE  IdxInv'
<1>1. now \in 0 .. MaxTime
  BY DEF IdxInv, IdxTypeOK
<1>2. CASE Tick
  <2>1. UNCHANGED <<indexVars, scan>> /\ now' = now + 1 /\ now < MaxTime
    BY <1>2 DEF Tick
  <2>2. now' \in 0 .. MaxTime /\ now <= now'
    BY <1>1, <2>1, IndexerAssumption
  <2> QED BY <2>1, <2>2, IdleKeeps
<1>3. ASSUME UNCHANGED <<now, indexVars, scan>>
      PROVE  IdxInv'
  <2>1. now' \in 0 .. MaxTime /\ now <= now'
    BY <1>1, <1>3
  <2> QED BY <1>3, <2>1, IdleKeeps
<1>4. ASSUME NEW a \in Admins, NEW b \in Admins, TransferAdmin(a, b)
      PROVE  IdxInv'
  BY <1>3, <1>4 DEF TransferAdmin
<1>5. ASSUME NEW a \in Admins, NEW r \in Callers, AddRecorder(a, r)
      PROVE  IdxInv'
  BY <1>3, <1>5 DEF AddRecorder
<1>6. CASE UNCHANGED idxVars
  BY <1>3, <1>6 DEF idxVars
<1>7. CASE IdxNext
  BY <1>2, <1>4, <1>5, <1>7, RecordKeeps, PruneKeeps, StartKeeps, ReadKeeps DEF IdxNext
<1> QED BY <1>6, <1>7

LEMMA IdxKeeps ==
  ASSUME IdxInv
  PROVE  IndexesAgree /\ PagingIsComplete
<1> DEFINE D == DOMAIN store
           c == Cardinality(D)
           s == InOrder(D)
<1>1. D \in SUBSET Nat /\ IsFiniteSet(D) /\ c \in Nat
  BY RecordsFinite DEF IdxInv, IdxTypeOK, RecordsAgree
<1>2. all_ids = s /\ event_count = c
  BY DEF IdxInv, IndexesInOrder
<1>3. /\ D \subseteq 1 .. next_id - 1
      /\ \A id \in D : store[id] \in EventRecord /\ store[id].timestamp <= now
      /\ \A id, other \in D : id < other => store[id].timestamp <= store[other].timestamp
  BY DEF IdxInv, RecordsAgree
<1> HIDE DEF D, c
<1>4. /\ Len(s) = c /\ DOMAIN s = 1 .. c /\ Increasing(s)
      /\ \A n \in 1 .. c : s[n] \in D
  BY <1>1, InOrderFacts DEF c
<1> HIDE DEF s
<1>5. ASSUME NEW k \in 1 .. Len(all_ids) - 1
      PROVE  store[all_ids[k]].timestamp <= store[all_ids[k + 1]].timestamp
  <2>1. k \in 1 .. c /\ k + 1 \in 1 .. c /\ k < k + 1
    BY <1>1, <1>2, <1>4
  <2>2. s[k] \in D /\ s[k + 1] \in D /\ s[k] < s[k + 1]
    BY <1>4, <2>1 DEF Increasing
  <2> QED BY <1>2, <1>3, <2>2
<1>6. /\ \A t \in EventTypes : type_index[t] = MatchesInOrder(<<"type", t>>)
      /\ \A a \in Actors : actor_index[a] = MatchesInOrder(<<"actor", a>>)
  BY FoundNow DEF IdxInv, IndexesInOrder
<1>7. IndexesAgree
  BY <1>2, <1>3, <1>4, <1>5, <1>6 DEF IndexesAgree, D, s
<1>8. PagingIsComplete
  <2>1. Increasing(scan.seen) /\ (scan.done /\ ~scan.pruned => IsPrefix(scan.due, scan.seen))
    BY DEF IdxInv, Scanning
  <2>2. scan.seen \in Seq(Nat)
    BY DEF IdxInv, IdxTypeOK
  <2>3. ASSUME NEW k \in 1 .. Len(scan.seen) - 1 PROVE scan.seen[k] < scan.seen[k + 1]
    <3>1. k \in DOMAIN scan.seen /\ k + 1 \in DOMAIN scan.seen /\ k < k + 1
      BY <2>2
    <3> QED BY <2>1, <3>1 DEF Increasing
  <2> QED BY <2>1, <2>3 DEF PagingIsComplete
<1> QED BY <1>7, <1>8

-----------------------------------------------------------------------------
(* The theorems: neither contract disturbs the listing of the other.       *)

LEMMA ListingsKeep == ListingsSpec => [](IdxInv /\ OriInv)
<1>1. ListingsInit => IdxInv /\ OriInv
  BY IdxInitInv, OriInitInv DEF ListingsInit
<1>2. IdxInv /\ OriInv /\ [ListingsNext]_<<idxVars, oriVars>> => (IdxInv /\ OriInv)'
  <2> SUFFICES ASSUME IdxInv, OriInv, [ListingsNext]_<<idxVars, oriVars>>
               PROVE  IdxInv' /\ OriInv'
    OBVIOUS
  <2>1. (IdxNext \/ UNCHANGED idxVars) /\ (OriNext \/ UNCHANGED oriVars)
    BY DEF ListingsNext
  <2> QED BY <2>1, IdxStep, OriStep, OriStutter
<1> QED BY <1>1, <1>2, PTL DEF ListingsSpec

(***************************************************************************)
(* Whatever is recorded and pruned, the storage entries of the event       *)
(* index describe the same events: every index holds exactly the ids of    *)
(* the records it is about, in the order of recording and of time          *)
(* (record_event and prune_events write six entries each).                 *)
(***************************************************************************)
THEOREM EntriesAgree == ListingsSpec => []IndexesAgree
<1>1. IdxInv => IndexesAgree
  BY IdxKeeps
<1> QED BY <1>1, ListingsKeep, PTL

(***************************************************************************)
(* A client that pages through a query of the event index reads no event   *)
(* twice, and without a prune between its calls none is missing, whatever  *)
(* sizes of pages it asks for and whatever is recorded in between          *)
(* (get_events_by_type, get_events_by_actor, get_events_by_time).          *)
(***************************************************************************)
THEOREM QueriesReadAll == ListingsSpec => []PagingIsComplete
<1>1. IdxInv => PagingIsComplete
  BY IdxKeeps
<1> QED BY <1>1, ListingsKeep, PTL

(***************************************************************************)
(* A client that pages through an account's invoices by the number of the  *)
(* page misses none of those listed when it began, though others are       *)
(* inserted before its place (get_originator_page, insert_sorted_id).      *)
(***************************************************************************)
THEOREM PagesReadAll == ListingsSpec => []PagesMissNothing
<1>1. OriInv => PagesMissNothing
  BY OriKeeps
<1> QED BY <1>1, ListingsKeep, PTL

(***************************************************************************)
(* The lists of invoices stay in order through registration, sale, upgrade *)
(* and rollback, and after the hook of the upgrade every invoice is on the *)
(* list of its holder, unless a registration overtook the hook or a        *)
(* rollback let the earlier release register beside the index              *)
(* (index_invoice_originator, backfill_originator_index).                  *)
(***************************************************************************)
THEOREM ListsHoldInvoices == ListingsSpec => []ListedUnlessOvertaken
<1>1. OriInv => ListedUnlessOvertaken
  BY OriKeeps
<1> QED BY <1>1, ListingsKeep, PTL
=============================================================================
