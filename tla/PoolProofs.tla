----------------------------- MODULE PoolProofs -----------------------------
(***************************************************************************)
(* Proofs about the insurance contract, for any number of stakers, offers  *)
(* and tiers and any amounts: the flat pool and the risk tiers keep their  *)
(* books, and a payout spreads a loss over the stakes it is taken from.    *)
(***************************************************************************)
EXTENDS RiskTiers, FiniteSums

-----------------------------------------------------------------------------
(* The loop of a payout *)

(* What the key k adds to what was taken from the keys before it.          *)
ShareOf(b, total, payout, last, k, before) ==
  IF k = last THEN payout - before
  ELSE AtMost(Quot(b[k] * payout, total), payout - before)

(* t is what the loop has taken up to each of the first n keys.            *)
Takes(t, n, b, total, payout, last) ==
  t = [k \in 0 .. n |->
         IF k = 0 THEN 0 ELSE t[k - 1] + ShareOf(b, total, payout, last, k, t[k - 1])]

LEMMA LoopRuns ==
  ASSUME NEW b, NEW total, NEW payout, NEW last, NEW n \in Nat
  PROVE  \E t : Takes(t, n, b, total, payout, last)
<1> DEFINE S == {m \in Nat : ~ \E t : Takes(t, m, b, total, payout, last)}
<1>1. SUFFICES ASSUME S # {} PROVE FALSE
  <2>1. n \notin S => \E t : Takes(t, n, b, total, payout, last)
    OBVIOUS
  <2> QED BY <2>1
<1>2. PICK m \in S : \A l \in S : m <= l
  <2>1. S \in SUBSET Nat
    OBVIOUS
  <2> HIDE DEF S
  <2> QED BY <1>1, <2>1, LeastNatural
<1>3. m \in Nat /\ ~ \E t : Takes(t, m, b, total, payout, last)
  OBVIOUS
<1>4. CASE m = 0
  <2>1. Takes([k \in 0 .. 0 |-> 0], 0, b, total, payout, last)
    BY DEF Takes
  <2> QED BY <1>3, <1>4, <2>1
<1>5. CASE m # 0
  <2>1. m - 1 \in Nat /\ m - 1 \notin S
    BY <1>2, <1>3, <1>5
  <2>2. PICK h : Takes(h, m - 1, b, total, payout, last)
    BY <2>1
  <2> DEFINE t == [k \in 0 .. m |->
                     IF k = m THEN h[m - 1] + ShareOf(b, total, payout, last, m, h[m - 1])
                     ELSE h[k]]
  <2>3. ASSUME NEW k \in 0 .. m
        PROVE  t[k] = IF k = 0 THEN 0
                      ELSE t[k - 1] + ShareOf(b, total, payout, last, k, t[k - 1])
    <3>1. CASE k = m
      BY <1>3, <1>5, <3>1
    <3>2. CASE k # m
      <4>1. k \in 0 .. (m - 1)
        BY <1>3, <3>2
      <4>2. h[k] = IF k = 0 THEN 0
                   ELSE h[k - 1] + ShareOf(b, total, payout, last, k, h[k - 1])
        BY <2>2, <4>1 DEF Takes
      <4>3. t[k] = h[k] /\ (k # 0 => t[k - 1] = h[k - 1])
        BY <1>3, <3>2, <4>1
      <4> QED BY <4>2, <4>3
    <3> QED BY <3>1, <3>2
  <2>4. t = [k \in 0 .. m |-> t[k]]
    OBVIOUS
  <2> HIDE DEF t
  <2>5. Takes(t, m, b, total, payout, last)
    BY <2>3, <2>4 DEF Takes
  <2> QED BY <1>3, <2>5
<1> QED BY <1>4, <1>5

(* ProRata takes from each key what the loop takes at it.                  *)
LEMMA ProRataByLoop ==
  ASSUME NEW b, NEW total, NEW payout, {k \in Stakers : b[k] # 0} # {}
  PROVE  \E t : /\ Takes(t, NStakers, b, total, payout, Max({k \in Stakers : b[k] # 0}))
                /\ ProRata(b, total, payout) = [k \in Stakers |-> b[k] - (t[k] - t[k - 1])]
<1> DEFINE held == {k \in Stakers : b[k] # 0}
           t == CHOOSE t : Takes(t, NStakers, b, total, payout, Max(held))
<1>1. Takes(t, NStakers, b, total, payout, Max(held))
  BY LoopRuns, PoolAssumption
<1>2. ProRata(b, total, payout) = [k \in Stakers |-> b[k] - (t[k] - t[k - 1])]
  BY DEF ProRata, Takes, ShareOf
<1> QED BY <1>1, <1>2

LEMMA QuotType ==
  ASSUME NEW a \in Int, NEW d \in Nat \ {0}
  PROVE  Quot(a, d) \in Int /\ Quot(0, d) = 0
BY DEF Quot

(* The division loses less than one unit.                                  *)
LEMMA QuotFloor ==
  ASSUME NEW a \in Nat, NEW d \in Nat \ {0}
  PROVE  /\ Quot(a, d) \in Nat
         /\ Quot(a, d) * d <= a
         /\ a < Quot(a, d) * d + d
<1>1. Quot(a, d) = a \div d
  BY DEF Quot
<1>2. a \div d \in Nat /\ (a \div d) * d <= a /\ a < (a \div d) * d + d
  OBVIOUS
<1> QED BY <1>1, <1>2

LEMMA MaxOf ==
  ASSUME NEW S \in SUBSET Stakers, S # {}
  PROVE  Max(S) \in S /\ \A k \in S : k <= Max(S)
<1> DEFINE beyond == {NStakers - k : k \in S}
<1>1. NStakers \in Nat
  BY PoolAssumption
<1>2. beyond \in SUBSET Nat /\ beyond # {}
  <2>1. \A k \in S : NStakers - k \in Nat
    BY <1>1 DEF Stakers
  <2>2. PICK k \in S : TRUE
    OBVIOUS
  <2>3. NStakers - k \in beyond
    OBVIOUS
  <2> QED BY <2>1, <2>3
<1>3. PICK m \in beyond : \A l \in beyond : m <= l
  <2> HIDE DEF beyond
  <2> QED BY <1>2, LeastNatural
<1>4. PICK n \in S : m = NStakers - n
  OBVIOUS
<1>5. \A k \in S : k <= n
  <2> SUFFICES ASSUME NEW k \in S PROVE k <= n
    OBVIOUS
  <2>1. NStakers - n <= NStakers - k
    BY <1>3, <1>4
  <2>2. k \in Int /\ n \in Int
    BY DEF Stakers
  <2> QED BY <1>1, <2>1, <2>2
<1>6. \E x \in S : \A y \in S : x >= y
  BY <1>5 DEF Stakers
<1>7. Max(S) \in S /\ \A y \in S : Max(S) >= y
  BY <1>6 DEF Max
<1> QED BY <1>7 DEF Stakers

(* The loop takes the payout, all of it, whatever the divisions lose.      *)
LEMMA LoopTakesPayout ==
  ASSUME NEW b \in [Stakers -> Int], NEW total \in Nat \ {0}, NEW payout \in Int,
         NEW last \in Stakers, \A k \in Stakers : k > last => b[k] = 0,
         NEW t, Takes(t, NStakers, b, total, payout, last)
  PROVE  /\ t \in [0 .. NStakers -> Int]
         /\ t[0] = 0
         /\ \A k \in last .. NStakers : t[k] = payout
<1>0. NStakers \in Nat /\ last \in 1 .. NStakers
  BY PoolAssumption DEF Stakers
<1>1. \A k \in 0 .. NStakers :
        t[k] = IF k = 0 THEN 0 ELSE t[k - 1] + ShareOf(b, total, payout, last, k, t[k - 1])
  BY DEF Takes
<1>2. t[0] = 0
  BY <1>0, <1>1
<1>3. \A k \in 0 .. NStakers : t[k] \in Int
  <2> DEFINE S == {k \in 0 .. NStakers : t[k] \notin Int}
  <2>1. SUFFICES ASSUME S # {} PROVE FALSE
    OBVIOUS
  <2>2. PICK k \in S : \A l \in S : k <= l
    <3>1. S \in SUBSET Nat
      OBVIOUS
    <3> HIDE DEF S
    <3> QED BY <2>1, <3>1, LeastNatural
  <2>3. k \in 1 .. NStakers /\ k - 1 \in 0 .. NStakers /\ k - 1 \notin S
    BY <1>0, <1>2, <2>2
  <2>4. t[k - 1] \in Int /\ b[k] \in Int
    BY <2>3 DEF Stakers
  <2>5. Quot(b[k] * payout, total) \in Int
    BY <2>4, QuotType
  <2>6. ShareOf(b, total, payout, last, k, t[k - 1]) \in Int
    BY <2>4, <2>5 DEF ShareOf, AtMost
  <2>7. t[k] \in Int
    BY <1>1, <2>3, <2>4, <2>6
  <2> QED BY <2>7
<1>4. \A k \in last .. NStakers : t[k] = payout
  <2> DEFINE S == {k \in last .. NStakers : t[k] # payout}
  <2>1. SUFFICES ASSUME S # {} PROVE FALSE
    OBVIOUS
  <2>2. PICK k \in S : \A l \in S : k <= l
    <3>1. S \in SUBSET Nat
      BY <1>0
    <3> HIDE DEF S
    <3> QED BY <2>1, <3>1, LeastNatural
  <2>3. k \in 1 .. NStakers /\ k - 1 \in 0 .. NStakers /\ k \in last .. NStakers
    BY <1>0
  <2>4. t[k] = t[k - 1] + ShareOf(b, total, payout, last, k, t[k - 1])
    BY <1>1, <2>3
  <2>5. t[k - 1] \in Int
    BY <1>3, <2>3
  <2>6. CASE k = last
    BY <2>4, <2>5, <2>6 DEF ShareOf
  <2>7. CASE k # last
    <3>1. k - 1 \in last .. NStakers /\ k - 1 \notin S
      BY <1>0, <2>2, <2>3, <2>7
    <3>2. t[k - 1] = payout
      BY <3>1
    <3>3. b[k] = 0
      BY <1>0, <2>3, <2>7 DEF Stakers
    <3>4. Quot(b[k] * payout, total) = 0
      BY <3>3, QuotType
    <3>5. ShareOf(b, total, payout, last, k, t[k - 1]) = 0
      BY <2>7, <3>2, <3>4 DEF ShareOf, AtMost
    <3> QED BY <2>4, <2>5, <3>2, <3>5
  <2> QED BY <2>6, <2>7
<1>5. t = [k \in 0 .. NStakers |-> t[k]]
  BY DEF Takes
<1> QED BY <1>2, <1>3, <1>4, <1>5

(* The stakes lose together what the loop takes.                           *)
LEMMA LoopReducesSum ==
  ASSUME NEW b \in [Stakers -> Int], NEW t \in [0 .. NStakers -> Int], t[0] = 0,
         NEW n \in 0 .. NStakers
  PROVE  SumOver([k \in Stakers |-> b[k] - (t[k] - t[k - 1])], 1 .. n)
           = SumOver(b, 1 .. n) - t[n]
<1> DEFINE r == [k \in Stakers |-> b[k] - (t[k] - t[k - 1])]
           S == {m \in 0 .. NStakers : SumOver(r, 1 .. m) # SumOver(b, 1 .. m) - t[m]}
<1>0. NStakers \in Nat
  BY PoolAssumption
<1>1. SUFFICES ASSUME S # {} PROVE FALSE
  OBVIOUS
<1>2. PICK m \in S : \A l \in S : m <= l
  <2>1. S \in SUBSET Nat
    OBVIOUS
  <2> HIDE DEF S
  <2> QED BY <1>1, <2>1, LeastNatural
<1>3. m \in 0 .. NStakers /\ SumOver(r, 1 .. m) # SumOver(b, 1 .. m) - t[m]
  BY <1>2
<1> DEFINE upto == 1 .. m
           before == 1 .. (m - 1)
<1>4. CASE m = 0
  <2>1. upto = {}
    BY <1>4
  <2>2. SumOver(r, {}) = 0 /\ SumOver(b, {}) = 0
    BY SumEmpty
  <2> HIDE DEF upto, r
  <2>3. SumOver(r, upto) = SumOver(b, upto) - t[m]
    BY <1>4, <2>1, <2>2
  <2> QED BY <1>3, <2>3 DEF upto
<1>5. CASE m # 0
  <2>1. m - 1 \in 0 .. NStakers /\ m - 1 \notin S /\ m \in 1 .. NStakers
    BY <1>0, <1>2, <1>3, <1>5
  <2>2. SumOver(r, before) = SumOver(b, before) - t[m - 1]
    BY <2>1
  <2>3. IsFiniteSet(upto) /\ IsFiniteSet(before)
    BY <1>3, <2>1, FS_Interval
  <2>4. \A k \in upto : b[k] \in Int /\ r[k] \in Int
    <3> SUFFICES ASSUME NEW k \in upto PROVE b[k] \in Int /\ r[k] \in Int
      OBVIOUS
    <3>1. k \in Stakers /\ k \in 0 .. NStakers /\ k - 1 \in 0 .. NStakers
      BY <1>0, <1>3 DEF Stakers
    <3>2. b[k] \in Int /\ t[k] \in Int /\ t[k - 1] \in Int
      BY <3>1
    <3>3. r[k] = b[k] - (t[k] - t[k - 1])
      BY <3>1
    <3> QED BY <3>2, <3>3
  <2>5. upto \ {m} = before /\ m \in upto /\ \A k \in before : k \in upto
    BY <1>3, <1>5
  <2>6. r[m] = b[m] - (t[m] - t[m - 1]) /\ b[m] \in Int /\ t[m] \in Int /\ t[m - 1] \in Int
    BY <2>1 DEF Stakers
  <2>7. ~ (SumOver(r, upto) = SumOver(b, upto) - t[m])
    BY <1>3
  <2> HIDE DEF upto, before, r, S
  <2>8. SumOver(r, upto) = r[m] + SumOver(r, before)
    BY <2>3, <2>4, <2>5, SumTakeOff
  <2>9. SumOver(b, upto) = b[m] + SumOver(b, before)
    BY <2>3, <2>4, <2>5, SumTakeOff
  <2>10. SumOver(b, before) \in Int
    BY <2>3, <2>4, <2>5, SumType
  <2> QED BY <2>2, <2>6, <2>7, <2>8, <2>9, <2>10
<1> QED BY <1>4, <1>5

(* What the loop of a payout does, with the last key it comes to.          *)
PayoutLoop(b, total, payout, last, t) ==
  /\ last \in Stakers
  /\ \A k \in Stakers : k > last => b[k] = 0
  /\ t \in [0 .. NStakers -> Int]
  /\ t[0] = 0
  /\ \A k \in last .. NStakers : t[k] = payout
  /\ Takes(t, NStakers, b, total, payout, last)
  /\ ProRata(b, total, payout) = [k \in Stakers |-> b[k] - (t[k] - t[k - 1])]

LEMMA ProRataLoop ==
  ASSUME NEW b \in [Stakers -> Int], NEW total \in Nat \ {0}, NEW payout \in Int,
         {k \in Stakers : b[k] # 0} # {}
  PROVE  \E last, t : PayoutLoop(b, total, payout, last, t)
<1> DEFINE held == {k \in Stakers : b[k] # 0}
           last == Max(held)
<1>1. PICK t : /\ Takes(t, NStakers, b, total, payout, last)
               /\ ProRata(b, total, payout) = [k \in Stakers |-> b[k] - (t[k] - t[k - 1])]
  BY ProRataByLoop
<1>2. last \in held /\ \A k \in held : k <= last
  <2> HIDE DEF held
  <2>1. held \in SUBSET Stakers /\ held # {}
    BY DEF held
  <2> QED BY <2>1, MaxOf
<1> HIDE DEF last
<1>3. last \in Stakers /\ \A k \in Stakers : k > last => b[k] = 0
  <2>1. ASSUME NEW k \in Stakers, k > last PROVE b[k] = 0
    <3>1. ~ (k <= last)
      BY <1>2, <2>1 DEF Stakers
    <3> QED BY <1>2, <3>1
  <2> QED BY <1>2, <2>1
<1>4. /\ t \in [0 .. NStakers -> Int]
      /\ t[0] = 0
      /\ \A k \in last .. NStakers : t[k] = payout
  BY <1>1, <1>3, LoopTakesPayout
<1>5. PayoutLoop(b, total, payout, last, t)
  BY <1>1, <1>3, <1>4 DEF PayoutLoop
<1> QED BY <1>5

(* A payout leaves stakes that add up to what the pool then holds.         *)
LEMMA ProRataTakesPayout ==
  ASSUME NEW b \in [Stakers -> Int], NEW total \in Nat \ {0}, NEW payout \in Int,
         {k \in Stakers : b[k] # 0} # {}
  PROVE  /\ ProRata(b, total, payout) \in [Stakers -> Int]
         /\ SumOver(ProRata(b, total, payout), Stakers) = SumOver(b, Stakers) - payout
<1>1. PICK last, t : PayoutLoop(b, total, payout, last, t)
  BY ProRataLoop
<1>2. NStakers \in 0 .. NStakers /\ t[NStakers] = payout
  BY <1>1, PoolAssumption DEF Stakers, PayoutLoop
<1>3. [k \in Stakers |-> b[k] - (t[k] - t[k - 1])] \in [Stakers -> Int]
  <2>1. t \in [0 .. NStakers -> Int]
    BY <1>1 DEF PayoutLoop
  <2> QED BY <2>1, PoolAssumption DEF Stakers
<1>4. SumOver([k \in Stakers |-> b[k] - (t[k] - t[k - 1])], 1 .. NStakers)
        = SumOver(b, 1 .. NStakers) - t[NStakers]
  BY <1>1, <1>2, LoopReducesSum DEF PayoutLoop
<1> QED BY <1>1, <1>2, <1>3, <1>4 DEF Stakers, PayoutLoop

(* The first n keys hold no more than all of them.                         *)
LEMMA PartOfTotal ==
  ASSUME NEW b \in [Stakers -> Nat], NEW n \in 0 .. NStakers
  PROVE  /\ SumOver(b, 1 .. n) \in Nat
         /\ SumOver(b, 1 .. n) <= SumOver(b, Stakers)
         /\ (\A k \in Stakers : k > n => b[k] = 0) => SumOver(b, 1 .. n) = SumOver(b, Stakers)
<1> DEFINE part == 1 .. n
           rest == Stakers \ part
<1>0. NStakers \in Nat
  BY PoolAssumption
<1>1. IsFiniteSet(Stakers) /\ part \in SUBSET Stakers
  BY <1>0, FS_Interval DEF Stakers
<1>2. IsFiniteSet(part) /\ IsFiniteSet(rest)
  BY <1>1, FS_Subset
<1>3. (\A x \in Stakers : b[x] \in Int) /\ (\A x \in part : b[x] \in Nat)
        /\ (\A x \in rest : b[x] \in Nat)
  BY <1>1
<1>4. (\A k \in Stakers : k > n => b[k] = 0) => \A x \in rest : b[x] = 0
  BY <1>0 DEF Stakers
<1>5. SumOver(b, Stakers) = SumOver(b, part) + SumOver(b, rest)
  BY <1>1, <1>3, SumSplit
<1> HIDE DEF part, rest
<1>6. SumOver(b, part) \in Nat /\ SumOver(b, rest) \in Nat
  BY <1>2, <1>3, SumNat
<1>7. (\A x \in rest : b[x] = 0) => SumOver(b, rest) = 0
  BY <1>2, SumZeros
<1> QED BY <1>4, <1>5, <1>6, <1>7 DEF part

(* Up to the last key, the loop falls short of the exact shares by less    *)
(* than a unit for each key it has passed, so that the share of a key is   *)
(* never cut by what is left of the payout.                                *)
Shortfall(b, t, total, payout, n) == SumOver(b, 1 .. n) * payout - t[n] * total

FairUpTo(b, t, total, payout, n) ==
  /\ 0 <= Shortfall(b, t, total, payout, n)
  /\ Shortfall(b, t, total, payout, n) <= n * (total - 1)
  /\ n # 0 => t[n] = t[n - 1] + Quot(b[n] * payout, total)

LEMMA LoopFallsShort ==
  ASSUME NEW b \in [Stakers -> Nat], NEW total \in Nat \ {0}, total = SumOver(b, Stakers),
         NEW payout \in Nat, NEW last \in Stakers,
         NEW t \in [0 .. NStakers -> Int], t[0] = 0,
         Takes(t, NStakers, b, total, payout, last),
         NEW n \in 0 .. (last - 1)
  PROVE  FairUpTo(b, t, total, payout, n)
<1> DEFINE Fair(m) == FairUpTo(b, t, total, payout, m)
           S == {m \in 0 .. (last - 1) : ~ Fair(m)}
<1>0. NStakers \in Nat /\ last \in 1 .. NStakers
  BY PoolAssumption DEF Stakers
<1>1. SUFFICES ASSUME S # {} PROVE FALSE
  OBVIOUS
<1>2. PICK m \in S : \A l \in S : m <= l
  <2>1. S \in SUBSET Nat
    BY <1>0
  <2> HIDE DEF S
  <2> QED BY <1>1, <2>1, LeastNatural
<1>3. m \in 0 .. (last - 1) /\ ~ Fair(m) /\ m \in 0 .. NStakers
  BY <1>0, <1>2
<1>4. m # 0
  <2> SUFFICES ASSUME m = 0 PROVE FALSE
    OBVIOUS
  <2>1. 1 .. m = {}
    OBVIOUS
  <2>2. SumOver(b, 1 .. m) = 0
    BY <2>1, SumEmpty
  <2>3. Shortfall(b, t, total, payout, m) = 0
    BY <2>2 DEF Shortfall
  <2> QED BY <1>3, <2>3 DEF FairUpTo
<1>5. m - 1 \in 0 .. (last - 1) /\ m - 1 \in 0 .. NStakers /\ m \in 1 .. NStakers
  BY <1>0, <1>3, <1>4
<1>6. Fair(m - 1)
  <2>1. m - 1 \notin S
    BY <1>2, <1>3, <1>5
  <2> HIDE DEF Fair
  <2> QED BY <1>5, <2>1
<1> DEFINE before == SumOver(b, 1 .. (m - 1))
           upto == SumOver(b, 1 .. m)
           q == Quot(b[m] * payout, total)
           had == t[m - 1]
           has == t[m]
<1>7. upto = before + b[m] /\ before \in Nat /\ upto \in Nat /\ upto <= total
  <2> DEFINE first == 1 .. m
             less == 1 .. (m - 1)
  <2>1. IsFiniteSet(first)
    BY <1>3, FS_Interval
  <2>7. first \ {m} = less /\ m \in first
    BY <1>3, <1>4
  <2>2. \A k \in first : b[k] \in Int
    BY <1>0, <1>5 DEF Stakers
  <2> HIDE DEF first, less
  <2>3. SumOver(b, first) = b[m] + SumOver(b, less)
    BY <2>1, <2>2, <2>7, SumTakeOff
  <2>4. SumOver(b, 1 .. (m - 1)) \in Nat
    BY <1>5, PartOfTotal
  <2>5. SumOver(b, 1 .. m) \in Nat /\ SumOver(b, 1 .. m) <= total
    BY <1>3, PartOfTotal
  <2>6. b[m] \in Nat
    BY <1>5 DEF Stakers
  <2> QED BY <2>3, <2>4, <2>5, <2>6 DEF first, less
<1>8. b[m] \in Nat /\ had \in Int /\ has \in Int
  BY <1>3, <1>5 DEF Stakers
<1>9. b[m] * payout \in Nat
  BY <1>8
<1>10. q \in Nat /\ q * total <= b[m] * payout /\ b[m] * payout < q * total + total
  BY <1>9, QuotFloor
<1>11. has = had + AtMost(q, payout - had)
  <2>1. t[m] = t[m - 1] + ShareOf(b, total, payout, last, m, t[m - 1])
    BY <1>3, <1>4 DEF Takes
  <2>2. m # last
    BY <1>0, <1>3
  <2> QED BY <2>1, <2>2 DEF ShareOf
<1>12. 0 <= before * payout - had * total /\ before * payout - had * total <= (m - 1) * (total - 1)
  BY <1>6 DEF Shortfall, FairUpTo
<1>13. upto * payout - has * total < 0 \/ upto * payout - has * total > m * (total - 1)
         \/ has # had + q
  <2>1. upto * payout - has * total \in Int /\ m * (total - 1) \in Int
    <3>1. \A x, y, z, w \in Int : x * y - z * w \in Int /\ x * (y - 1) \in Int
      OBVIOUS
    <3> QED BY <1>3, <1>7, <1>8, <3>1
  <2>2. Shortfall(b, t, total, payout, m) = upto * payout - has * total
    BY DEF Shortfall
  <2> HIDE DEF upto, has
  <2> QED BY <1>3, <1>4, <2>1, <2>2 DEF has, FairUpTo
<1> HIDE DEF before, upto, q, had, has
<1> DEFINE bp == before * payout
           up == upto * payout
           xp == b[m] * payout
           ht == had * total
           at == has * total
           qt == q * total
<1>25. before \in Int /\ upto \in Int /\ q \in Int /\ had \in Int /\ has \in Int
         /\ b[m] \in Int /\ payout \in Int /\ total \in Int
  BY <1>7, <1>8, <1>10
<1>26. bp \in Int /\ up \in Int /\ xp \in Int /\ ht \in Int /\ at \in Int /\ qt \in Int
  <2>1. \A x, y \in Int : x * y \in Int
    OBVIOUS
  <2> QED BY <1>25, <2>1
<1>14. up = bp + xp
  <2>1. \A x, y, z \in Int : (x + y) * z = x * z + y * z
    OBVIOUS
  <2> QED BY <1>7, <1>25, <2>1
<1>15. (had + q) * total = ht + qt
  <2>1. \A x, y, z \in Int : (x + y) * z = x * z + y * z
    OBVIOUS
  <2> QED BY <1>25, <2>1
<1>16. had + q <= payout
  <2> DEFINE tp == total * payout
  <2>1. up <= tp /\ tp \in Int
    <3>1. \A x, y \in Int : \A z \in Nat : x <= y => x * z <= y * z /\ y * z \in Int
      OBVIOUS
    <3> QED BY <1>7, <1>25, <3>1
  <2>2. had + q > payout => (had + q) * total > tp
    <3>1. \A x, y \in Int : \A z \in Nat \ {0} : x > y => x * z > z * y
      OBVIOUS
    <3> QED BY <1>25, <3>1
  <2>3. 0 <= bp - ht /\ qt <= xp
    BY <1>10, <1>12
  <2> HIDE DEF tp, bp, up, xp, ht, qt
  <2>4. ht + qt <= tp
    BY <1>14, <1>26, <2>1, <2>3
  <2> QED BY <1>15, <1>25, <1>26, <2>1, <2>2, <2>4
<1>17. has = had + q
  BY <1>8, <1>10, <1>11, <1>16 DEF AtMost
<1>18. at = ht + qt
  BY <1>15, <1>17
<1>19. /\ 0 <= bp - ht /\ bp - ht <= (m - 1) * (total - 1)
       /\ qt <= xp /\ xp < qt + total
  BY <1>10, <1>12
<1>20. m * (total - 1) = (m - 1) * (total - 1) + (total - 1) /\ (m - 1) * (total - 1) \in Int
  <2>1. \A x, y \in Int : x * y = (x - 1) * y + y /\ (x - 1) * y \in Int
    OBVIOUS
  <2> QED BY <1>3, <1>25, <2>1
<1>21. up - at < 0 \/ up - at > m * (total - 1)
  BY <1>13, <1>17
<1> DEFINE short == (m - 1) * (total - 1)
<1>27. bp - ht <= short /\ short \in Int
  BY <1>19, <1>20
<1>28. 0 <= bp - ht /\ qt <= xp /\ xp < qt + total
  BY <1>19
<1>29. total \in Int
  BY <1>25
<1> HIDE DEF bp, up, xp, ht, at, qt, short
<1>22. 0 <= up - at /\ up - at <= short + (total - 1) /\ short \in Int
  BY <1>14, <1>18, <1>26, <1>27, <1>28, <1>29
<1>23. ~ (up - at < 0) /\ ~ (up - at > short + (total - 1))
  BY <1>22, <1>26, <1>29
<1> QED BY <1>20, <1>21, <1>23 DEF short

(* More than one unit below, and less than one per further staker above.   *)
LEMMA WithinUnits ==
  ASSUME NEW n \in Nat \ {0}, NEW d \in Nat \ {0}, NEW m \in 0 .. (n - 1),
         NEW x \in Int, -d < x, x <= m * (d - 1)
  PROVE  -n * d < x /\ x < n * d
<1>1. \A i, j \in Nat \ {0} : j <= i * j /\ i * j \in Int /\ -i * j = -(i * j)
  OBVIOUS
<1>2. \A i, k \in Nat : \A j \in Nat \ {0} : k < i => k * (j - 1) < i * j /\ k * (j - 1) \in Int
  OBVIOUS
<1>3. m \in Nat /\ m < n
  OBVIOUS
<1> DEFINE nd == n * d
           md == m * (d - 1)
<1>4. d <= nd /\ nd \in Int /\ -n * d = -nd /\ md < nd /\ md \in Int /\ x <= md
  BY <1>1, <1>2, <1>3
<1> HIDE DEF nd, md
<1>5. -nd < x /\ x < nd
  BY <1>4
<1> QED BY <1>4, <1>5 DEF nd

LEMMA LastShare ==
  ASSUME NEW p \in Int, NEW x \in Int, NEW o \in Int, NEW c \in Int
  PROVE  (p - x) * (o + c) - c * p = o * p - x * (o + c)
OBVIOUS

(* Every stake bears its share of a payout, to within a unit per staker,   *)
(* the one that absorbs the remainder included.                            *)
LEMMA ProRataIsFair ==
  ASSUME NEW b \in [Stakers -> Nat], NEW total \in Nat \ {0}, total = SumOver(b, Stakers),
         NEW payout \in Nat, {k \in Stakers : b[k] # 0} # {}, NEW a \in Stakers
  PROVE  LET off == (b[a] - ProRata(b, total, payout)[a]) * total - b[a] * payout
         IN -NStakers * total < off /\ off < NStakers * total
<1>0. NStakers \in Nat /\ a \in 1 .. NStakers /\ b[a] \in Nat
  BY PoolAssumption DEF Stakers
<1>1. PICK last, t : PayoutLoop(b, total, payout, last, t)
  <2>1. b \in [Stakers -> Int]
    OBVIOUS
  <2> QED BY <2>1, ProRataLoop
<1>2. Takes(t, NStakers, b, total, payout, last)
  BY <1>1 DEF PayoutLoop
<1>3. last \in Stakers /\ last \in 1 .. NStakers /\ \A k \in Stakers : k > last => b[k] = 0
  BY <1>1 DEF Stakers, PayoutLoop
<1>4. /\ t \in [0 .. NStakers -> Int]
      /\ t[0] = 0
      /\ \A k \in last .. NStakers : t[k] = payout
  BY <1>1 DEF PayoutLoop
<1>5. ProRata(b, total, payout)[a] = b[a] - (t[a] - t[a - 1])
  BY <1>1 DEF PayoutLoop
<1>6. t[a] \in Int /\ t[a - 1] \in Int
  BY <1>0, <1>4
<1> DEFINE lost == t[a] - t[a - 1]
           off == lost * total - b[a] * payout
<1>7. NStakers \in Nat \ {0} /\ lost \in Int /\ off \in Int /\ b[a] * payout \in Nat
  <2>1. \A w, x, y, z \in Int : w * x - y * z \in Int
    OBVIOUS
  <2>2. \A x, y \in Nat : x * y \in Nat
    OBVIOUS
  <2> QED BY <1>0, <1>6, <2>1, <2>2, PoolAssumption
<1>8. SUFFICES \E m \in 0 .. (NStakers - 1) : -total < off /\ off <= m * (total - 1)
  <2> HIDE DEF off
  <2>1. -NStakers * total < off /\ off < NStakers * total
    BY <1>7, <1>8, WithinUnits
  <2>2. b[a] - ProRata(b, total, payout)[a] = lost
    BY <1>0, <1>5, <1>6
  <2> QED BY <2>1, <2>2 DEF off
<1>11. CASE a < last
  <2>1. a \in 0 .. (last - 1) /\ a # 0
    BY <1>0, <1>3, <1>11
  <2>2. FairUpTo(b, t, total, payout, a)
    BY <1>2, <1>3, <1>4, <2>1, LoopFallsShort
  <2>3. lost = Quot(b[a] * payout, total)
    <3>1. Quot(b[a] * payout, total) \in Int
      BY <1>7, QuotType
    <3> QED BY <1>6, <2>1, <2>2, <3>1 DEF FairUpTo
  <2> DEFINE bp == b[a] * payout
  <2>4. bp \in Nat
    BY <1>7
  <2> HIDE DEF lost, bp
  <2>5. lost * total <= bp /\ bp < lost * total + total
    BY <2>3, <2>4, QuotFloor DEF bp
  <2> DEFINE lt == lost * total
  <2>6. lt \in Int
    BY <1>7
  <2>7. off = lt - bp /\ lt <= bp /\ bp < lt + total
    BY <2>5 DEF bp
  <2> HIDE DEF lt, off
  <2>8. -total < off /\ off <= 0
    BY <2>4, <2>6, <2>7
  <2>9. 0 * (total - 1) = 0 /\ 0 \in 0 .. (NStakers - 1)
    BY <1>7
  <2> QED BY <2>8, <2>9
<1>12. CASE a > last
  <2>1. t[a] = payout /\ t[a - 1] = payout
    BY <1>0, <1>3, <1>4, <1>12
  <2>2. lost = 0 /\ b[a] = 0
    BY <1>0, <1>3, <1>12, <2>1
  <2>3. off = 0
    BY <2>2
  <2>4. 0 * (total - 1) = 0 /\ 0 \in 0 .. (NStakers - 1)
    BY <1>7
  <2> HIDE DEF off
  <2> QED BY <2>3, <2>4
<1>13. CASE a = last
  <2> DEFINE n == last - 1
             others == SumOver(b, 1 .. n)
             taken == t[n]
  <2>1. n \in 0 .. (last - 1) /\ n \in 0 .. NStakers /\ last \in 0 .. NStakers
           /\ n \in 0 .. (NStakers - 1)
    BY <1>0, <1>3
  <2>2. t[a] = payout /\ lost = payout - taken /\ taken \in Int
    BY <1>3, <1>4, <1>13, <2>1
  <2>3. FairUpTo(b, t, total, payout, n)
    <3> HIDE DEF n
    <3> QED BY <1>2, <1>3, <1>4, <2>1, LoopFallsShort
  <2>4. others \in Nat
    BY <2>1, PartOfTotal
  <2>5. total = others + b[a]
    <3> DEFINE upto == 1 .. last
               before == 1 .. n
    <3>1. SumOver(b, upto) = total
      BY <1>3, <2>1, PartOfTotal
    <3>2. IsFiniteSet(upto)
      BY <1>3, FS_Interval
    <3>3. upto \ {last} = before /\ last \in upto
      BY <1>3
    <3>4. \A k \in upto : b[k] \in Int
      BY <1>0, <1>3 DEF Stakers
    <3> HIDE DEF upto, before
    <3>5. SumOver(b, upto) = b[last] + SumOver(b, before)
      BY <3>2, <3>3, <3>4, SumTakeOff
    <3>6. others = SumOver(b, before)
      BY DEF before
    <3> HIDE DEF others
    <3> QED BY <1>0, <1>13, <2>4, <3>1, <3>5, <3>6
  <2> DEFINE excess == others * payout - taken * total
  <2>6. 0 <= excess /\ excess <= n * (total - 1)
    BY <2>3 DEF Shortfall, FairUpTo
  <2>7. off = excess
    <3> HIDE DEF others, taken
    <3>1. (payout - taken) * (others + b[a]) - b[a] * payout
            = others * payout - taken * (others + b[a])
      BY <1>0, <2>2, <2>4, LastShare
    <3> QED BY <2>2, <2>5, <3>1
  <2> HIDE DEF excess, off, n
  <2>8. -total < off
    BY <1>7, <2>6, <2>7
  <2> QED BY <2>1, <2>6, <2>7, <2>8
<1> QED BY <1>0, <1>3, <1>11, <1>12, <1>13

-----------------------------------------------------------------------------
(* The books of one pool, whichever it is *)

LEMMA StakersFinite == IsFiniteSet(Stakers) /\ IsFiniteSet(OfferIds)
BY PoolAssumption, FS_Interval DEF Stakers

(* One entry of a table changes.                                           *)
LEMMA SumOfChange ==
  ASSUME NEW S, IsFiniteSet(S), NEW w \in [S -> Int], NEW v \in [S -> Int],
         NEW x \in S, \A y \in S : y # x => v[y] = w[y]
  PROVE  /\ SumOver(w, S) \in Int
         /\ SumOver(v, S) = SumOver(w, S) + v[x] - w[x]
<1>1. SumOver(w, S) \in Int
  BY SumType
<1>2. SumOver(v, S) = SumOver(w, S) + (IF x \in S THEN v[x] ELSE 0)
                                    - (IF x \in S THEN w[x] ELSE 0)
  BY SumStep
<1> QED BY <1>1, <1>2

(* A payout within the balance leaves a pool whose balance is the sum of   *)
(* its stakes: without a stake there is no balance to pay from.            *)
LEMMA PayoutKeepsBalance ==
  ASSUME NEW b \in [Stakers -> Int], NEW total \in Int, total = SumOver(b, Stakers),
         NEW payout \in Int, 0 < payout, payout <= total
  PROVE  /\ {k \in Stakers : b[k] # 0} # {}
         /\ ProRata(b, total, payout) \in [Stakers -> Int]
         /\ total - payout = SumOver(ProRata(b, total, payout), Stakers)
<1>1. {k \in Stakers : b[k] # 0} # {}
  <2> SUFFICES ASSUME \A k \in Stakers : b[k] = 0 PROVE FALSE
    OBVIOUS
  <2>1. total = 0
    BY SumZeros, StakersFinite
  <2> QED BY <2>1
<1>2. total \in Nat \ {0}
  OBVIOUS
<1>3. /\ ProRata(b, total, payout) \in [Stakers -> Int]
      /\ SumOver(ProRata(b, total, payout), Stakers) = SumOver(b, Stakers) - payout
  BY <1>1, <1>2, ProRataTakesPayout
<1> QED BY <1>1, <1>3

(* What is reserved and not paid, offer by offer.                          *)
Owed(r, p) == [f \in OfferIds |-> r[f] - p[f]]

(* The ledger of the reservations: one offer reserves or claims.           *)
LEMMA LedgerMoves ==
  ASSUME NEW r \in [OfferIds -> Nat], NEW p \in [OfferIds -> Nat],
         NEW r2 \in [OfferIds -> Nat], NEW p2 \in [OfferIds -> Nat],
         \A g \in OfferIds : p[g] <= r[g],
         \A g \in OfferIds : p2[g] <= r2[g],
         NEW f \in OfferIds,
         \A g \in OfferIds : g # f => r2[g] = r[g] /\ p2[g] = p[g]
  PROVE  /\ SumOver(Owed(r, p), OfferIds) \in Nat
         /\ r[f] - p[f] <= SumOver(Owed(r, p), OfferIds)
         /\ SumOver(Owed(r2, p2), OfferIds)
              = SumOver(Owed(r, p), OfferIds) + (r2[f] - p2[f]) - (r[f] - p[f])
<1> DEFINE w == Owed(r, p)
           v == Owed(r2, p2)
           others == OfferIds \ {f}
<1>1. w \in [OfferIds -> Nat] /\ v \in [OfferIds -> Nat] /\ w \in [OfferIds -> Int]
        /\ v \in [OfferIds -> Int]
  BY DEF Owed
<1>2. w[f] = r[f] - p[f] /\ v[f] = r2[f] - p2[f] /\ \A g \in OfferIds : g # f => v[g] = w[g]
  BY DEF Owed
<1>3. IsFiniteSet(OfferIds) /\ IsFiniteSet(others)
  BY StakersFinite, FS_RemoveElement
<1> HIDE DEF w, v, others
<1>4. SumOver(w, OfferIds) \in Nat
  BY <1>1, <1>3, SumNat
<1>5. SumOver(w, others) \in Nat
  BY <1>1, <1>3, SumNat DEF others
<1>6. SumOver(w, OfferIds) = w[f] + SumOver(w, others)
  BY <1>1, <1>3, SumTakeOff DEF others
<1>7. SumOver(v, OfferIds) = SumOver(w, OfferIds) + v[f] - w[f]
  <2>1. w \in [OfferIds -> Int] /\ v \in [OfferIds -> Int]
    BY <1>1
  <2>2. (\A g \in OfferIds : g # f => v[g] = w[g]) /\ IsFiniteSet(OfferIds)
    BY <1>2, <1>3
  <2> QED BY <2>1, <2>2, SumOfChange
<1>8. w[f] \in Nat /\ v[f] \in Nat
  BY <1>1
<1> QED BY <1>2, <1>4, <1>5, <1>6, <1>7, <1>8 DEF w, v

-----------------------------------------------------------------------------
(* The flat pool *)

PoolInv == PoolTypeOK /\ TotalIsSumOfStakes /\ ReservationsAddUp

LEMMA PoolInvInit == PoolInit => PoolInv
<1> SUFFICES ASSUME PoolInit PROVE PoolInv
  OBVIOUS
<1>1. PoolTypeOK
  <2>1. 0 \in 0 .. MaxTime /\ 0 \in 0 .. 0
    BY PoolAssumption
  <2>2. /\ stakes \in [Stakers -> Int] /\ stake_ts \in [Stakers -> 0 .. now]
        /\ yield_acc \in [Stakers -> Nat]
    BY <2>1 DEF PoolInit
  <2>3. reserved \in [OfferIds -> Nat] /\ paid \in [OfferIds -> Nat]
    BY DEF PoolInit
  <2>4. paused \in BOOLEAN /\ defaulted \subseteq InvoiceIds /\ yield_rate \in YieldRates \cup {0}
    BY DEF PoolInit
  <2>5. now \in 0 .. MaxTime /\ pool_total \in Int /\ outstanding \in Nat /\ tokens \in Nat
    <3>1. now = 0 /\ pool_total = 0 /\ outstanding = 0 /\ tokens = 0
      BY DEF PoolInit
    <3> QED BY <2>1, <3>1
  <2> QED BY <2>2, <2>3, <2>4, <2>5 DEF PoolTypeOK
<1>2. TotalIsSumOfStakes
  <2>1. \A k \in Stakers : stakes[k] = 0
    BY DEF PoolInit
  <2>2. SumOver(stakes, Stakers) = 0
    BY <2>1, SumZeros, StakersFinite
  <2> QED BY <2>2 DEF PoolInit, TotalIsSumOfStakes
<1>3. ReservationsAddUp
  <2> DEFINE w == [f \in OfferIds |-> reserved[f] - paid[f]]
  <2>1. \A f \in OfferIds : reserved[f] = 0 /\ paid[f] = 0 /\ w[f] = 0
    BY DEF PoolInit
  <2> HIDE DEF w
  <2>2. SumOver(w, OfferIds) = 0
    BY <2>1, SumZeros, StakersFinite
  <2> QED BY <2>1, <2>2 DEF PoolInit, ReservationsAddUp, w
<1> QED BY <1>1, <1>2, <1>3 DEF PoolInv

LEMMA YieldType ==
  ASSUME PoolTypeOK, NEW k \in Stakers
  PROVE  /\ ComputeYield(k) \in Int
         /\ stakes[k] >= 0 => ComputeYield(k) \in Nat
         /\ stakes[k] = 0 => ComputeYield(k) = 0
         /\ stake_ts[k] = now => ComputeYield(k) = 0
         /\ AccruedYield(k) \in Int
         /\ stakes[k] >= 0 => AccruedYield(k) \in Nat
<1> DEFINE earned == stakes[k] * (now - stake_ts[k]) * yield_rate
<1>1. /\ stakes[k] \in Int /\ now - stake_ts[k] \in Nat /\ yield_rate \in Nat
      /\ yield_acc[k] \in Nat
  BY PoolAssumption DEF PoolTypeOK
<1>2. earned \in Int /\ (stakes[k] = 0 => earned = 0) /\ (now - stake_ts[k] = 0 => earned = 0)
  <2>1. \A x, y, z \in Int : x * y * z \in Int /\ 0 * y * z = 0 /\ x * 0 * z = 0
    OBVIOUS
  <2> QED BY <1>1, <2>1
<1>3. stakes[k] >= 0 => earned \in Nat
  <2>1. \A x, y, z \in Nat : x * y * z \in Nat
    OBVIOUS
  <2> QED BY <1>1, <2>1
<1>4. ComputeYield(k) = Quot(earned, YieldUnit)
  BY DEF ComputeYield
<1>5. stake_ts[k] = now => now - stake_ts[k] = 0
  BY PoolAssumption DEF PoolTypeOK
<1> HIDE DEF earned
<1>6. YieldUnit \in Nat \ {0}
  BY PoolAssumption
<1>7. Quot(earned, YieldUnit) \in Int /\ (earned = 0 => Quot(earned, YieldUnit) = 0)
  BY <1>2, <1>6, QuotType
<1>8. earned \in Nat => Quot(earned, YieldUnit) \in Nat
  BY <1>6, QuotFloor
<1> QED BY <1>1, <1>2, <1>3, <1>4, <1>5, <1>7, <1>8 DEF AccruedYield

(* Banking keeps the entries a staker's yield is computed from in type.    *)
LEMMA BankType ==
  ASSUME PoolTypeOK, NEW S, BankAccruedYield(S)
  PROVE  /\ yield_acc' \in [Stakers -> Nat]
         /\ stake_ts' \in [Stakers -> 0 .. now]
<1>1. ASSUME NEW k \in Stakers
      PROVE  (IF k \in S /\ ComputeYield(k) > 0 THEN AccruedYield(k) ELSE yield_acc[k]) \in Nat
  <2>1. ComputeYield(k) \in Int /\ yield_acc[k] \in Nat
    BY YieldType DEF PoolTypeOK
  <2> QED BY <2>1 DEF AccruedYield
<1>2. now \in 0 .. now /\ stake_ts \in [Stakers -> 0 .. now]
  BY PoolAssumption DEF PoolTypeOK
<1> QED BY <1>1, <1>2 DEF BankAccruedYield

(* What the two payouts of the flat pool have in common.                   *)
LEMMA PayFromPoolStep ==
  ASSUME PoolTypeOK, TotalIsSumOfStakes, NEW amount \in Int, amount <= pool_total,
         PayFromPool(amount)
  PROVE  /\ stakes' \in [Stakers -> Int]
         /\ pool_total' \in Int
         /\ pool_total' = pool_total - amount
         /\ TotalIsSumOfStakes'
         /\ tokens' \in Nat
         /\ UNCHANGED <<envVars, stake_ts, yield_acc, yield_rate>>
<1>1. /\ stakes \in [Stakers -> Int] /\ pool_total \in Int /\ tokens \in Nat
      /\ pool_total = SumOver(stakes, Stakers)
      /\ 0 < amount
  BY DEF PoolTypeOK, TotalIsSumOfStakes, PayFromPool
<1>2. /\ ProRata(stakes, pool_total, amount) \in [Stakers -> Int]
      /\ pool_total - amount = SumOver(ProRata(stakes, pool_total, amount), Stakers)
  BY <1>1, PayoutKeepsBalance
<1>3. stakes' = ProRata(stakes, pool_total, amount) /\ pool_total' = pool_total - amount
        /\ tokens' = tokens - amount /\ tokens >= amount
  BY DEF PayFromPool, ReduceStakes
<1>4. stakes' \in [Stakers -> Int] /\ pool_total' = SumOver(stakes', Stakers)
  BY <1>2, <1>3
<1> QED BY <1>1, <1>3, <1>4 DEF TotalIsSumOfStakes, PayFromPool

(* What a claim finds: its reservation is part of what is outstanding.     *)
LEMMA ClaimWithin ==
  ASSUME PoolTypeOK, ReservationsAddUp, NEW f \in OfferIds
  PROVE  reserved[f] - paid[f] \in Nat /\ reserved[f] - paid[f] <= outstanding
<1>1. /\ reserved \in [OfferIds -> Nat] /\ paid \in [OfferIds -> Nat]
      /\ \A g \in OfferIds : paid[g] <= reserved[g]
      /\ outstanding = SumOver(Owed(reserved, paid), OfferIds)
  BY DEF PoolTypeOK, ReservationsAddUp, Owed
<1>2. reserved[f] - paid[f] <= SumOver(Owed(reserved, paid), OfferIds)
  BY <1>1, LedgerMoves
<1> QED BY <1>1, <1>2

LEMMA FlatStakeSteps ==
  ASSUME PoolInv, NEW k \in Stakers, NEW amount \in Int,
         Stake(k, amount) \/ Unstake(k, amount)
  PROVE  PoolInv'
<1>1. /\ PoolTypeOK /\ TotalIsSumOfStakes /\ ReservationsAddUp
      /\ stakes \in [Stakers -> Int] /\ pool_total \in Int /\ now \in 0 .. now
  BY PoolAssumption DEF PoolInv, PoolTypeOK
<1>2. /\ stakes' \in [Stakers -> Int]
      /\ \A a \in Stakers : a # k => stakes'[a] = stakes[a]
      /\ pool_total' = pool_total + stakes'[k] - stakes[k]
      /\ pool_total' \in Int
      /\ UNCHANGED <<now, paused, defaulted, yield_rate, outstanding, reserved, paid>>
  <2>1. CASE Stake(k, amount)
    BY <1>1, <2>1 DEF Stake, envVars, reserveVars
  <2>2. CASE Unstake(k, amount)
    BY <1>1, <2>2 DEF Unstake, envVars, reserveVars
  <2> QED BY <2>1, <2>2
<1>3. TotalIsSumOfStakes'
  <2>1. pool_total = SumOver(stakes, Stakers)
    BY <1>1 DEF TotalIsSumOfStakes
  <2>2. SumOver(stakes', Stakers) = SumOver(stakes, Stakers) + stakes'[k] - stakes[k]
    BY <1>1, <1>2, StakersFinite, SumOfChange
  <2> QED BY <1>2, <2>1, <2>2 DEF TotalIsSumOfStakes
<1>4. ReservationsAddUp'
  BY <1>1, <1>2 DEF ReservationsAddUp
<1>5. yield_acc' \in [Stakers -> Nat] /\ stake_ts' \in [Stakers -> 0 .. now] /\ tokens' \in Nat
  <2>1. CASE Stake(k, amount)
    <3>1. CASE stakes[k] > 0
      BY <1>1, <2>1, <3>1, BankType DEF Stake, PoolTypeOK
    <3>2. CASE ~ (stakes[k] > 0)
      BY <1>1, <2>1, <3>2 DEF Stake, PoolTypeOK
    <3> QED BY <3>1, <3>2
  <2>2. CASE Unstake(k, amount)
    <3>1. AccruedYield(k) \in Nat
      <4>1. stakes[k] >= 0
        BY <1>1, <2>2 DEF Unstake
      <4> QED BY <1>1, <4>1, YieldType
    <3>2. tokens \in Nat /\ tokens >= amount + AccruedYield(k)
             /\ tokens' = tokens - amount - AccruedYield(k)
      BY <1>1, <2>2 DEF Unstake, PoolTypeOK
    <3>3. tokens' \in Nat
      BY <3>1, <3>2
    <3>4. 0 \in 0 .. now
      BY <1>1, PoolAssumption DEF PoolTypeOK
    <3> QED BY <1>1, <2>2, <3>3, <3>4 DEF Unstake, PoolTypeOK
  <2> QED BY <2>1, <2>2
<1>6. PoolTypeOK'
  BY <1>1, <1>2, <1>5 DEF PoolTypeOK
<1> QED BY <1>3, <1>4, <1>6 DEF PoolInv

LEMMA FlatPayOutStep ==
  ASSUME PoolInv, NEW i, NEW amount \in Int, PayOut(i, amount)
  PROVE  PoolInv'
<1> DEFINE payout == AtMost(amount, pool_total)
<1>1. PoolTypeOK /\ TotalIsSumOfStakes /\ ReservationsAddUp
  BY DEF PoolInv
<1>2. payout \in Int /\ payout <= pool_total /\ PayFromPool(payout)
  BY <1>1 DEF AtMost, PayOut, PoolTypeOK
<1> HIDE DEF payout
<1>3. /\ stakes' \in [Stakers -> Int] /\ pool_total' \in Int
      /\ TotalIsSumOfStakes'
      /\ tokens' \in Nat
      /\ UNCHANGED <<envVars, stake_ts, yield_acc, yield_rate>>
  BY <1>1, <1>2, PayFromPoolStep
<1>4. UNCHANGED <<outstanding, reserved, paid>>
  BY DEF PayOut, reserveVars
<1>5. ReservationsAddUp'
  BY <1>1, <1>4 DEF ReservationsAddUp
<1>6. PoolTypeOK'
  BY <1>1, <1>3, <1>4 DEF PoolTypeOK, envVars
<1> QED BY <1>3, <1>5, <1>6 DEF PoolInv

LEMMA FlatReserveStep ==
  ASSUME PoolInv, NEW f \in OfferIds, NEW amount \in Int, ReservePayout(f, amount)
  PROVE  /\ PoolInv'
         /\ outstanding' <= pool_total'
<1> DEFINE granted == AtMost(amount, pool_total - outstanding)
<1>1. /\ PoolTypeOK /\ TotalIsSumOfStakes /\ ReservationsAddUp
      /\ reserved \in [OfferIds -> Nat] /\ paid \in [OfferIds -> Nat]
      /\ outstanding \in Nat /\ pool_total \in Int
      /\ \A g \in OfferIds : paid[g] <= reserved[g]
      /\ outstanding = SumOver(Owed(reserved, paid), OfferIds)
  BY DEF PoolInv, PoolTypeOK, ReservationsAddUp, Owed
<1>2. granted \in Nat /\ granted <= pool_total - outstanding
  BY <1>1 DEF ReservePayout, AtMost
<1>3. /\ reserved' = [reserved EXCEPT ![f] = @ + granted]
      /\ outstanding' = outstanding + granted
      /\ UNCHANGED <<envVars, stakeVars, yield_rate, pool_total, paid, tokens>>
  BY DEF ReservePayout
<1> HIDE DEF granted
<1>4. /\ reserved' \in [OfferIds -> Nat] /\ paid' \in [OfferIds -> Nat]
      /\ reserved'[f] = reserved[f] + granted /\ paid' = paid
      /\ \A g \in OfferIds : g # f => reserved'[g] = reserved[g] /\ paid'[g] = paid[g]
  BY <1>1, <1>2, <1>3
<1>5. \A g \in OfferIds : paid'[g] <= reserved'[g]
  BY <1>1, <1>2, <1>3, <1>4
<1>6. SumOver(Owed(reserved', paid'), OfferIds)
        = SumOver(Owed(reserved, paid), OfferIds) + (reserved'[f] - paid'[f]) - (reserved[f] - paid[f])
  BY <1>1, <1>4, <1>5, LedgerMoves
<1>7. outstanding' = SumOver(Owed(reserved', paid'), OfferIds)
  BY <1>1, <1>2, <1>3, <1>4, <1>6
<1>8. ReservationsAddUp'
  BY <1>5, <1>7 DEF ReservationsAddUp, Owed
<1>9. TotalIsSumOfStakes'
  BY <1>1, <1>3 DEF TotalIsSumOfStakes, stakeVars
<1>10. PoolTypeOK'
  BY <1>1, <1>2, <1>3, <1>4 DEF PoolTypeOK, stakeVars, envVars
<1>11. outstanding' <= pool_total'
  BY <1>1, <1>2, <1>3
<1> QED BY <1>8, <1>9, <1>10, <1>11 DEF PoolInv

LEMMA FlatClaimStep ==
  ASSUME PoolInv, NEW f \in OfferIds, NEW amount \in Int, ClaimPayout(f, amount)
  PROVE  /\ PoolInv'
         /\ outstanding <= pool_total => outstanding' <= pool_total'
<1> DEFINE remaining == reserved[f] - paid[f]
           payable == AtMost(AtMost(amount, remaining),
                             pool_total - (outstanding - remaining))
<1>1. /\ PoolTypeOK /\ TotalIsSumOfStakes /\ ReservationsAddUp
      /\ reserved \in [OfferIds -> Nat] /\ paid \in [OfferIds -> Nat]
      /\ outstanding \in Nat /\ pool_total \in Int
      /\ \A g \in OfferIds : paid[g] <= reserved[g]
      /\ outstanding = SumOver(Owed(reserved, paid), OfferIds)
  BY DEF PoolInv, PoolTypeOK, ReservationsAddUp, Owed
<1>2. remaining \in Nat /\ remaining <= outstanding
  BY <1>1, ClaimWithin
<1>3. payable \in Int /\ payable <= remaining /\ payable <= pool_total
  BY <1>1, <1>2 DEF AtMost
<1>4. /\ PayFromPool(payable)
      /\ paid' = [paid EXCEPT ![f] = @ + payable]
      /\ outstanding' = outstanding - payable
      /\ UNCHANGED reserved
  BY DEF ClaimPayout
<1>5. 0 < payable
  BY <1>4 DEF PayFromPool
<1>6. payable <= reserved[f] - paid[f]
  BY <1>3
<1>7. payable <= outstanding
  BY <1>1, <1>2, <1>3
<1> HIDE DEF payable, remaining
<1>8. /\ stakes' \in [Stakers -> Int] /\ pool_total' \in Int /\ pool_total' = pool_total - payable
      /\ TotalIsSumOfStakes'
      /\ tokens' \in Nat
      /\ UNCHANGED <<envVars, stake_ts, yield_acc, yield_rate>>
  BY <1>1, <1>3, <1>4, PayFromPoolStep
<1>9. /\ paid' \in [OfferIds -> Nat] /\ reserved' \in [OfferIds -> Nat]
      /\ paid'[f] = paid[f] + payable /\ reserved' = reserved
      /\ \A g \in OfferIds : g # f => reserved'[g] = reserved[g] /\ paid'[g] = paid[g]
  BY <1>1, <1>3, <1>4, <1>5
<1>10. \A g \in OfferIds : paid'[g] <= reserved'[g]
  BY <1>1, <1>3, <1>6, <1>9
<1>11. SumOver(Owed(reserved', paid'), OfferIds)
         = SumOver(Owed(reserved, paid), OfferIds) + (reserved'[f] - paid'[f]) - (reserved[f] - paid[f])
  BY <1>1, <1>9, <1>10, LedgerMoves
<1>12. outstanding' = SumOver(Owed(reserved', paid'), OfferIds)
  BY <1>1, <1>3, <1>4, <1>9, <1>11
<1>13. ReservationsAddUp'
  BY <1>10, <1>12 DEF ReservationsAddUp, Owed
<1>14. outstanding' \in Nat
  BY <1>1, <1>3, <1>4, <1>7
<1>15. PoolTypeOK'
  BY <1>1, <1>8, <1>9, <1>14 DEF PoolTypeOK, envVars
<1>16. outstanding <= pool_total => outstanding' <= pool_total'
  BY <1>1, <1>3, <1>4, <1>8
<1> QED BY <1>8, <1>13, <1>15, <1>16 DEF PoolInv

LEMMA FlatStep == PoolInv /\ PoolNext => PoolInv'
<1> SUFFICES ASSUME PoolInv, PoolNext PROVE PoolInv'
  OBVIOUS
<1>0. \A amount \in Deposits \cup Withdrawals \cup Claims : amount \in Int
  BY PoolAssumption
<1>1. ASSUME NEW k \in Stakers, NEW amount \in Deposits, Stake(k, amount) PROVE PoolInv'
  BY <1>0, <1>1, FlatStakeSteps
<1>2. ASSUME NEW k \in Stakers, NEW amount \in Withdrawals, Unstake(k, amount) PROVE PoolInv'
  BY <1>0, <1>2, FlatStakeSteps
<1>3. ASSUME NEW i \in InvoiceIds, NEW amount \in Claims, PayOut(i, amount) PROVE PoolInv'
  BY <1>0, <1>3, FlatPayOutStep
<1>4. ASSUME NEW f \in OfferIds, NEW amount \in Claims, ReservePayout(f, amount) PROVE PoolInv'
  BY <1>0, <1>4, FlatReserveStep
<1>5. ASSUME NEW f \in OfferIds, NEW amount \in Claims, ClaimPayout(f, amount) PROVE PoolInv'
  BY <1>0, <1>5, FlatClaimStep
<1>6. CASE \/ \E rate \in YieldRates : SetYieldRate(rate)
           \/ \E flag \in BOOLEAN : SetPaused(flag)
           \/ \E i \in InvoiceIds : InvoiceDefaults(i)
           \/ Fund
           \/ Tick
  <2>1. PoolTypeOK
    BY DEF PoolInv
  <2>2. UNCHANGED <<stakes, pool_total, outstanding, reserved, paid>>
    BY <1>6 DEF SetYieldRate, SetPaused, InvoiceDefaults, Fund, Tick, envVars, stakeVars,
                reserveVars
  <2>3. (TotalIsSumOfStakes /\ ReservationsAddUp)'
    BY <2>2 DEF PoolInv, TotalIsSumOfStakes, ReservationsAddUp
  <2>4. PoolTypeOK'
    <3>1. ASSUME NEW rate \in YieldRates, SetYieldRate(rate) PROVE PoolTypeOK'
      <4>1. yield_acc' \in [Stakers -> Nat] /\ stake_ts' \in [Stakers -> 0 .. now]
        BY <2>1, <3>1, BankType DEF SetYieldRate
      <4> QED BY <2>1, <2>2, <3>1, <4>1 DEF SetYieldRate, PoolTypeOK, envVars
    <3>2. ASSUME NEW flag \in BOOLEAN, SetPaused(flag) PROVE PoolTypeOK'
      BY <2>1, <2>2, <3>2 DEF SetPaused, PoolTypeOK, stakeVars
    <3>3. ASSUME NEW i \in InvoiceIds, InvoiceDefaults(i) PROVE PoolTypeOK'
      BY <2>1, <2>2, <3>3 DEF InvoiceDefaults, PoolTypeOK, stakeVars
    <3>4. CASE Fund
      BY <2>1, <2>2, <3>4 DEF Fund, PoolTypeOK, stakeVars, envVars
    <3>5. CASE Tick
      <4>1. now' \in 0 .. MaxTime /\ 0 .. now \subseteq 0 .. now'
        BY <2>1, <3>5, PoolAssumption DEF Tick, PoolTypeOK
      <4>2. stake_ts' \in [Stakers -> 0 .. now']
        BY <2>1, <3>5, <4>1 DEF Tick, PoolTypeOK, stakeVars
      <4> QED BY <2>1, <2>2, <3>5, <4>1, <4>2 DEF Tick, PoolTypeOK, stakeVars
    <3> QED BY <1>6, <3>1, <3>2, <3>3, <3>4, <3>5
  <2> QED BY <2>3, <2>4 DEF PoolInv
<1> QED BY <1>1, <1>2, <1>3, <1>4, <1>5, <1>6 DEF PoolNext

-----------------------------------------------------------------------------
(* The risk tiers *)

TierTypeOK ==
  /\ tstakes \in [Tiers -> [Stakers -> Int]]
  /\ tstake_ts \in [Tiers -> [Stakers -> 0 .. now]]
  /\ tyield_acc \in [Tiers -> [Stakers -> Nat]]
  /\ tbalance \in [Tiers -> Int]
  /\ toutstanding \in [Tiers -> Int]
  /\ treserved \in [Tiers -> [OfferIds -> Nat]]
  /\ tpaid \in [Tiers -> [OfferIds -> Nat]]
  /\ asked \in [Tiers -> [OfferIds -> Nat]]

(* The books of one tier.                                                  *)
Book(balance, held, out, r, p, ask, cap) ==
  /\ balance = SumOver(held, Stakers)
  /\ out = SumOver(Owed(r, p), OfferIds)
  /\ \A f \in OfferIds : p[f] <= r[f] /\ r[f] <= (ask[f] * cap) \div CapUnit

BookOf(t) == Book(tbalance[t], tstakes[t], toutstanding[t], treserved[t], tpaid[t], asked[t],
                  PayoutCap[t])

LEMMA BooksTierByTier == TierBooksAgree <=> \A t \in Tiers : BookOf(t)
BY DEF TierBooksAgree, BookOf, Book, Owed, Covered

(* A larger claim is covered to a larger part.                             *)
LEMMA CoveredGrows ==
  ASSUME NEW a \in Nat, NEW c \in Nat, a <= c, NEW cap \in Nat, NEW unit \in Nat \ {0}
  PROVE  /\ (a * cap) \div unit \in Nat
         /\ (a * cap) \div unit <= (c * cap) \div unit
<1>1. a * cap \in Nat /\ c * cap \in Nat /\ a * cap <= c * cap
  <2>1. \A x, y, z \in Nat : x <= y => x * z \in Nat /\ y * z \in Nat /\ x * z <= y * z
    OBVIOUS
  <2> QED BY <2>1
<1>2. \A x, y \in Nat : x <= y => x \div unit \in Nat /\ x \div unit <= y \div unit
  <2> SUFFICES ASSUME NEW x \in Nat, NEW y \in Nat, x <= y
               PROVE  x \div unit \in Nat /\ x \div unit <= y \div unit
    OBVIOUS
  <2> DEFINE u == x \div unit
             v == y \div unit
  <2>1. u \in Nat /\ v \in Nat /\ u * unit <= x /\ y < v * unit + unit
    OBVIOUS
  <2> HIDE DEF u, v
  <2>2. u * unit < v * unit + unit
    <3> DEFINE l == u * unit
               g == v * unit + unit
    <3>1. l \in Int /\ g \in Int /\ l <= x /\ y < g
      BY <2>1
    <3> HIDE DEF l, g
    <3>2. l < g
      BY <3>1
    <3> QED BY <3>2 DEF l, g
  <2>3. v < u => v * unit + unit <= u * unit
    <3>1. \A i, j \in Nat : \A k \in Nat \ {0} : i < j => i * k + k <= j * k
      OBVIOUS
    <3> QED BY <2>1, <3>1
  <2>4. u <= v
    <3>1. u * unit \in Int /\ v * unit + unit \in Int
      BY <2>1
    <3> QED BY <2>1, <2>2, <2>3, <3>1
  <2> QED BY <2>1, <2>4 DEF u, v
<1> QED BY <1>1, <1>2

LEMMA MaxOfTwo ==
  ASSUME NEW a \in Int, NEW c \in Int
  PROVE  Max({a, c}) \in {a, c} /\ a <= Max({a, c}) /\ c <= Max({a, c})
<1>1. \E x \in {a, c} : \A y \in {a, c} : x >= y
  OBVIOUS
<1>2. Max({a, c}) \in {a, c} /\ \A y \in {a, c} : Max({a, c}) >= y
  BY <1>1 DEF Max
<1> QED BY <1>2

LEMMA TierYieldType ==
  ASSUME PoolTypeOK, TierTypeOK, NEW t \in Tiers, NEW k \in Stakers
  PROVE  TierYield(t, k) \in Nat
<1> DEFINE earned == tstakes[t][k] * Apy[t] * (now - tstake_ts[t][k])
<1>1. tstakes[t][k] \in Int /\ Apy[t] \in Int /\ now - tstake_ts[t][k] \in Int /\ tyield_acc[t][k] \in Nat
  BY TierAssumption DEF PoolTypeOK, TierTypeOK
<1>2. earned \in Int
  <2>1. \A x, y, z \in Int : x * y * z \in Int
    OBVIOUS
  <2> QED BY <1>1, <2>1
<1> HIDE DEF earned
<1>3. Quot(earned, YieldUnit) \in Int
  BY <1>2, QuotType, PoolAssumption
<1>4. TierYield(t, k) = tyield_acc[t][k]
                          + (IF Quot(earned, YieldUnit) > 0 THEN Quot(earned, YieldUnit) ELSE 0)
  BY DEF TierYield, earned
<1> QED BY <1>1, <1>3, <1>4

(* A call that works on one tier leaves the others their books.            *)
LEMMA OneTierMoves ==
  ASSUME TierTypeOK, TierTypeOK', TierBooksAgree, NEW t \in Tiers, BookOf(t)',
         \A u \in Tiers : u # t =>
           /\ tbalance'[u] = tbalance[u] /\ tstakes'[u] = tstakes[u]
           /\ toutstanding'[u] = toutstanding[u] /\ treserved'[u] = treserved[u]
           /\ tpaid'[u] = tpaid[u] /\ asked'[u] = asked[u]
  PROVE  TierBooksAgree'
<1>1. \A u \in Tiers : BookOf(u)
  BY BooksTierByTier
<1>2. \A u \in Tiers : u # t => BookOf(u)'
  BY <1>1 DEF BookOf
<1>3. \A u \in Tiers : BookOf(u)'
  BY <1>2
<1> QED BY <1>3 DEF TierBooksAgree, BookOf, Book, Owed, Covered

(* The flat pool when a call works on the tiers.                           *)
LEMMA FlatUntouched ==
  ASSUME PoolInv, UNCHANGED flatVars, tokens' \in Nat
  PROVE  PoolInv'
BY DEF PoolInv, PoolTypeOK, TotalIsSumOfStakes, ReservationsAddUp, flatVars, envVars, stakeVars,
       reserveVars

TierInv == PoolInv /\ TierTypeOK /\ TierBooksAgree

LEMMA TierStakeSteps ==
  ASSUME TierInv, NEW t \in Tiers, NEW k \in Stakers, NEW amount \in Int,
         StakeTier(t, k, amount) \/ UnstakeTier(t, k, amount)
  PROVE  TierInv'
<1>1. /\ PoolInv /\ PoolTypeOK /\ TierTypeOK /\ TierBooksAgree
      /\ tstakes \in [Tiers -> [Stakers -> Int]] /\ tbalance \in [Tiers -> Int]
      /\ tokens \in Nat /\ now \in 0 .. now /\ 0 \in 0 .. now
      /\ TierYield(t, k) \in Nat
  <2>1. PoolInv /\ PoolTypeOK /\ TierTypeOK /\ TierBooksAgree
    BY DEF TierInv, PoolInv
  <2>2. TierYield(t, k) \in Nat
    BY <2>1, TierYieldType
  <2>3. now \in 0 .. now /\ 0 \in 0 .. now /\ tokens \in Nat
    BY <2>1, PoolAssumption DEF PoolTypeOK
  <2> QED BY <2>1, <2>2, <2>3 DEF TierTypeOK
<1>2. UNCHANGED <<flatVars, tierReserveVars>>
  BY DEF StakeTier, UnstakeTier
<1>3. /\ tstakes' \in [Tiers -> [Stakers -> Int]] /\ tbalance' \in [Tiers -> Int]
      /\ tbalance'[t] = tbalance[t] + tstakes'[t][k] - tstakes[t][k]
      /\ \A a \in Stakers : a # k => tstakes'[t][a] = tstakes[t][a]
      /\ \A u \in Tiers : u # t => tstakes'[u] = tstakes[u] /\ tbalance'[u] = tbalance[u]
      /\ tokens' \in Nat
  <2>1. CASE StakeTier(t, k, amount)
    BY <1>1, <2>1 DEF StakeTier
  <2>2. CASE UnstakeTier(t, k, amount)
    BY <1>1, <2>2 DEF UnstakeTier
  <2> QED BY <2>1, <2>2
<1>4. /\ tstake_ts' \in [Tiers -> [Stakers -> 0 .. now]]
      /\ tyield_acc' \in [Tiers -> [Stakers -> Nat]]
  <2>1. CASE StakeTier(t, k, amount)
    BY <1>1, <2>1 DEF StakeTier, TierTypeOK
  <2>2. CASE UnstakeTier(t, k, amount)
    BY <1>1, <2>2 DEF UnstakeTier, TierTypeOK
  <2> QED BY <2>1, <2>2
<1>5. PoolInv'
  BY <1>1, <1>2, <1>3, FlatUntouched
<1>6. TierTypeOK'
  BY <1>1, <1>2, <1>3, <1>4 DEF TierTypeOK, flatVars, envVars, tierReserveVars
<1>7. BookOf(t)'
  <2>1. BookOf(t)
    BY <1>1, BooksTierByTier
  <2>2. tstakes[t] \in [Stakers -> Int] /\ tstakes'[t] \in [Stakers -> Int] /\ tbalance[t] \in Int
    BY <1>1, <1>3
  <2>3. SumOver(tstakes'[t], Stakers) = SumOver(tstakes[t], Stakers) + tstakes'[t][k] - tstakes[t][k]
    BY <1>3, <2>2, StakersFinite, SumOfChange
  <2>4. tbalance'[t] = SumOver(tstakes'[t], Stakers)
    BY <1>3, <2>1, <2>3 DEF BookOf, Book
  <2> QED BY <1>2, <2>1, <2>4 DEF BookOf, Book, tierReserveVars
<1>8. TierBooksAgree'
  BY <1>1, <1>2, <1>3, <1>6, <1>7, OneTierMoves DEF tierReserveVars
<1> QED BY <1>5, <1>6, <1>8 DEF TierInv

LEMMA PayFromTierStep ==
  ASSUME TierInv, NEW t \in Tiers, NEW amount \in Int, amount <= tbalance[t],
         PayFromTier(t, amount)
  PROVE  /\ tstakes' \in [Tiers -> [Stakers -> Int]]
         /\ tbalance' \in [Tiers -> Int]
         /\ tbalance'[t] = tbalance[t] - amount
         /\ tbalance'[t] = SumOver(tstakes'[t], Stakers)
         /\ \A u \in Tiers : u # t => tstakes'[u] = tstakes[u] /\ tbalance'[u] = tbalance[u]
         /\ PoolInv'
         /\ UNCHANGED <<flatVars, tstake_ts, tyield_acc>>
<1>1. /\ PoolInv /\ PoolTypeOK /\ TierTypeOK /\ TierBooksAgree
      /\ tstakes \in [Tiers -> [Stakers -> Int]] /\ tbalance \in [Tiers -> Int]
      /\ tokens \in Nat
  BY DEF TierInv, PoolInv, PoolTypeOK, TierTypeOK
<1>2. /\ tstakes' = [tstakes EXCEPT ![t] = ProRata(tstakes[t], tbalance[t], amount)]
      /\ tbalance' = [tbalance EXCEPT ![t] = @ - amount]
      /\ tokens' = tokens - amount /\ tokens >= amount /\ 0 < amount
      /\ UNCHANGED <<flatVars, tstake_ts, tyield_acc>>
  BY DEF PayFromTier, ReduceTierStakes
<1>3. BookOf(t)
  BY <1>1, BooksTierByTier
<1>4. tstakes[t] \in [Stakers -> Int] /\ tbalance[t] \in Int /\ tbalance[t] = SumOver(tstakes[t], Stakers)
  BY <1>1, <1>3 DEF BookOf, Book
<1>5. /\ ProRata(tstakes[t], tbalance[t], amount) \in [Stakers -> Int]
      /\ tbalance[t] - amount = SumOver(ProRata(tstakes[t], tbalance[t], amount), Stakers)
  BY <1>2, <1>4, PayoutKeepsBalance
<1>6. tstakes'[t] = ProRata(tstakes[t], tbalance[t], amount) /\ tbalance'[t] = tbalance[t] - amount
  BY <1>1, <1>2
<1>7. tokens' \in Nat
  BY <1>1, <1>2
<1>8. PoolInv'
  BY <1>1, <1>2, <1>7, FlatUntouched
<1>9. tstakes' \in [Tiers -> [Stakers -> Int]] /\ tbalance' \in [Tiers -> Int]
  BY <1>1, <1>2, <1>5
<1>10. \A u \in Tiers : u # t => tstakes'[u] = tstakes[u] /\ tbalance'[u] = tbalance[u]
  BY <1>1, <1>2
<1> QED BY <1>2, <1>5, <1>6, <1>8, <1>9, <1>10

LEMMA TierPayOutStep ==
  ASSUME TierInv, NEW t \in Tiers, NEW i, NEW amount \in Int, PayOutTier(t, i, amount)
  PROVE  TierInv'
<1> DEFINE payout == AtMost(Covered(t, amount), tbalance[t])
<1>1. TierTypeOK /\ TierBooksAgree
  BY DEF TierInv
<1>2. payout \in Int /\ payout <= tbalance[t] /\ PayFromTier(t, payout)
  <2>1. tbalance[t] \in Int
    BY <1>1 DEF TierTypeOK
  <2>2. Covered(t, amount) \in Int
    <3>1. PayoutCap[t] \in Int /\ CapUnit \in Nat \ {0}
      BY TierAssumption
    <3>2. amount * PayoutCap[t] \in Int
      BY <3>1
    <3> QED BY <3>1, <3>2 DEF Covered
  <2> QED BY <2>1, <2>2 DEF AtMost, PayOutTier
<1> HIDE DEF payout
<1>3. /\ tstakes' \in [Tiers -> [Stakers -> Int]]
      /\ tbalance' \in [Tiers -> Int]
      /\ tbalance'[t] = SumOver(tstakes'[t], Stakers)
      /\ \A u \in Tiers : u # t => tstakes'[u] = tstakes[u] /\ tbalance'[u] = tbalance[u]
      /\ PoolInv'
      /\ UNCHANGED <<flatVars, tstake_ts, tyield_acc>>
  BY <1>2, PayFromTierStep
<1>4. UNCHANGED <<toutstanding, treserved, tpaid, asked>>
  BY DEF PayOutTier, tierReserveVars
<1>5. TierTypeOK'
  BY <1>1, <1>3, <1>4 DEF TierTypeOK, flatVars, envVars
<1>6. BookOf(t)'
  <2>1. BookOf(t)
    BY <1>1, BooksTierByTier
  <2> QED BY <1>3, <1>4, <2>1 DEF BookOf, Book
<1>7. TierBooksAgree'
  BY <1>1, <1>3, <1>4, <1>5, <1>6, OneTierMoves
<1> QED BY <1>3, <1>5, <1>7 DEF TierInv

LEMMA TierReserveStep ==
  ASSUME TierInv, NEW t \in Tiers, NEW f \in OfferIds, NEW amount \in Int,
         ReservePayoutTier(t, f, amount)
  PROVE  TierInv'
<1> DEFINE granted == AtMost(Covered(t, amount) - treserved[t][f],
                             tbalance[t] - toutstanding[t])
           claim == Max({asked[t][f], amount})
<1>1. TierTypeOK /\ TierBooksAgree /\ BookOf(t) /\ amount \in Nat
  BY BooksTierByTier DEF TierInv, ReservePayoutTier
<1>2. /\ treserved[t] \in [OfferIds -> Nat] /\ tpaid[t] \in [OfferIds -> Nat]
      /\ asked[t] \in [OfferIds -> Nat] /\ tbalance[t] \in Int /\ toutstanding[t] \in Int
      /\ PayoutCap[t] \in Nat /\ CapUnit \in Nat \ {0}
  BY <1>1, TierAssumption DEF TierTypeOK
<1>3. claim \in Nat /\ asked[t][f] <= claim /\ amount <= claim
  <2>1. asked[t][f] \in Nat
    BY <1>2
  <2> DEFINE had == asked[t][f]
  <2> HIDE DEF had
  <2>2. had \in Int /\ amount \in Int
    BY <2>1 DEF had
  <2>3. Max({had, amount}) \in {had, amount} /\ had <= Max({had, amount}) /\ amount <= Max({had, amount})
    BY <2>2, MaxOfTwo
  <2> QED BY <1>1, <2>1, <2>3 DEF had
<1>4. /\ Covered(t, amount) \in Nat
      /\ Covered(t, amount) <= (claim * PayoutCap[t]) \div CapUnit
      /\ (asked[t][f] * PayoutCap[t]) \div CapUnit <= (claim * PayoutCap[t]) \div CapUnit
      /\ (claim * PayoutCap[t]) \div CapUnit \in Nat
  <2> HIDE DEF claim
  <2>1. /\ (amount * PayoutCap[t]) \div CapUnit \in Nat
        /\ (amount * PayoutCap[t]) \div CapUnit <= (claim * PayoutCap[t]) \div CapUnit
    BY <1>1, <1>2, <1>3, CoveredGrows
  <2>2. (asked[t][f] * PayoutCap[t]) \div CapUnit <= (claim * PayoutCap[t]) \div CapUnit
    BY <1>2, <1>3, CoveredGrows
  <2>3. (claim * PayoutCap[t]) \div CapUnit \in Nat
    <3>1. claim <= claim
      BY <1>3
    <3>2. /\ (claim * PayoutCap[t]) \div CapUnit \in Nat
          /\ (claim * PayoutCap[t]) \div CapUnit <= (claim * PayoutCap[t]) \div CapUnit
      BY <1>2, <1>3, <3>1, CoveredGrows
    <3> QED BY <3>2
  <2> QED BY <2>1, <2>2, <2>3 DEF Covered
<1>5. granted \in Nat /\ granted <= Covered(t, amount) - treserved[t][f]
  BY <1>2, <1>4 DEF ReservePayoutTier, AtMost
<1>6. /\ treserved' = [treserved EXCEPT ![t][f] = @ + granted]
      /\ toutstanding' = [toutstanding EXCEPT ![t] = @ + granted]
      /\ asked' = [asked EXCEPT ![t][f] = claim]
      /\ UNCHANGED <<flatVars, tokens, tierStakeVars, tbalance, tpaid>>
  BY DEF ReservePayoutTier
<1> HIDE DEF granted, claim
<1>7. /\ treserved' \in [Tiers -> [OfferIds -> Nat]] /\ asked' \in [Tiers -> [OfferIds -> Nat]]
      /\ toutstanding' \in [Tiers -> Int]
  BY <1>1, <1>2, <1>3, <1>5, <1>6 DEF TierTypeOK
<1>8. /\ treserved'[t][f] = treserved[t][f] + granted
      /\ asked'[t][f] = claim
      /\ toutstanding'[t] = toutstanding[t] + granted
      /\ \A g \in OfferIds : g # f => treserved'[t][g] = treserved[t][g] /\ asked'[t][g] = asked[t][g]
      /\ \A u \in Tiers : u # t => /\ treserved'[u] = treserved[u] /\ asked'[u] = asked[u]
                                  /\ toutstanding'[u] = toutstanding[u]
      /\ UNCHANGED <<tstakes, tstake_ts, tyield_acc, tbalance, tpaid, tokens>>
  BY <1>1, <1>6 DEF TierTypeOK, tierStakeVars
<1>9. PoolInv'
  BY <1>6, FlatUntouched DEF TierInv, PoolInv, PoolTypeOK
<1>10. TierTypeOK'
  BY <1>1, <1>6, <1>7, <1>8 DEF TierTypeOK, flatVars, envVars
<1>11. BookOf(t)'
  <2>1. /\ \A g \in OfferIds : tpaid[t][g] <= treserved[t][g]
        /\ \A g \in OfferIds : treserved[t][g] <= (asked[t][g] * PayoutCap[t]) \div CapUnit
        /\ tbalance[t] = SumOver(tstakes[t], Stakers)
        /\ toutstanding[t] = SumOver(Owed(treserved[t], tpaid[t]), OfferIds)
    BY <1>1 DEF BookOf, Book
  <2>2. treserved'[t] \in [OfferIds -> Nat] /\ tpaid'[t] = tpaid[t]
    BY <1>7, <1>8
  <2>3. \A g \in OfferIds : tpaid'[t][g] <= treserved'[t][g]
    BY <1>2, <1>5, <1>8, <2>1, <2>2
  <2>4. SumOver(Owed(treserved'[t], tpaid'[t]), OfferIds)
          = SumOver(Owed(treserved[t], tpaid[t]), OfferIds)
              + (treserved'[t][f] - tpaid'[t][f]) - (treserved[t][f] - tpaid[t][f])
    BY SMTT(20), <1>2, <1>8, <2>1, <2>2, <2>3, LedgerMoves
  <2>5. toutstanding'[t] = SumOver(Owed(treserved'[t], tpaid'[t]), OfferIds)
    BY <1>2, <1>5, <1>8, <2>1, <2>2, <2>4
  <2>6. treserved'[t][f] <= (asked'[t][f] * PayoutCap[t]) \div CapUnit
    BY <1>2, <1>4, <1>5, <1>8
  <2>7. \A g \in OfferIds : treserved'[t][g] <= (asked'[t][g] * PayoutCap[t]) \div CapUnit
    BY <1>8, <2>1, <2>6
  <2>8. tbalance'[t] = SumOver(tstakes'[t], Stakers)
    BY <1>8, <2>1
  <2> QED BY <2>3, <2>5, <2>7, <2>8 DEF BookOf, Book
<1>12. TierBooksAgree'
  BY <1>1, <1>8, <1>10, <1>11, OneTierMoves
<1> QED BY <1>9, <1>10, <1>12 DEF TierInv

LEMMA TierClaimStep ==
  ASSUME TierInv, NEW t \in Tiers, NEW f \in OfferIds, NEW amount \in Int,
         ClaimPayoutTier(t, f, amount)
  PROVE  TierInv'
<1> DEFINE paying == AtMost(AtMost(amount, treserved[t][f] - tpaid[t][f]), tbalance[t])
<1>1. TierTypeOK /\ TierBooksAgree /\ BookOf(t)
  BY BooksTierByTier DEF TierInv
<1>2. /\ treserved[t] \in [OfferIds -> Nat] /\ tpaid[t] \in [OfferIds -> Nat]
      /\ tbalance[t] \in Int /\ toutstanding[t] \in Int
  BY <1>1 DEF TierTypeOK
<1>3. /\ paying \in Int /\ paying <= tbalance[t]
      /\ paying <= treserved[t][f] - tpaid[t][f]
  BY <1>2 DEF AtMost
<1>4. /\ PayFromTier(t, paying)
      /\ tpaid' = [tpaid EXCEPT ![t][f] = @ + paying]
      /\ toutstanding' = [toutstanding EXCEPT ![t] = @ - paying]
      /\ UNCHANGED <<treserved, asked>>
  BY DEF ClaimPayoutTier
<1>5. 0 < paying
  BY <1>4 DEF PayFromTier
<1> HIDE DEF paying
<1>6. /\ tstakes' \in [Tiers -> [Stakers -> Int]]
      /\ tbalance' \in [Tiers -> Int]
      /\ tbalance'[t] = SumOver(tstakes'[t], Stakers)
      /\ \A u \in Tiers : u # t => tstakes'[u] = tstakes[u] /\ tbalance'[u] = tbalance[u]
      /\ PoolInv'
      /\ UNCHANGED <<flatVars, tstake_ts, tyield_acc>>
  BY <1>3, <1>4, PayFromTierStep
<1>7. tpaid' \in [Tiers -> [OfferIds -> Nat]] /\ toutstanding' \in [Tiers -> Int]
  BY <1>1, <1>2, <1>3, <1>4, <1>5 DEF TierTypeOK
<1>8. /\ tpaid'[t][f] = tpaid[t][f] + paying
      /\ toutstanding'[t] = toutstanding[t] - paying
      /\ \A g \in OfferIds : g # f => tpaid'[t][g] = tpaid[t][g]
      /\ \A u \in Tiers : u # t => tpaid'[u] = tpaid[u] /\ toutstanding'[u] = toutstanding[u]
      /\ treserved' = treserved /\ asked' = asked
  BY <1>1, <1>4 DEF TierTypeOK
<1>9. TierTypeOK'
  BY <1>1, <1>6, <1>7, <1>8 DEF TierTypeOK, flatVars, envVars
<1>10. BookOf(t)'
  <2>1. /\ \A g \in OfferIds : tpaid[t][g] <= treserved[t][g]
        /\ \A g \in OfferIds : treserved[t][g] <= (asked[t][g] * PayoutCap[t]) \div CapUnit
        /\ toutstanding[t] = SumOver(Owed(treserved[t], tpaid[t]), OfferIds)
    BY <1>1 DEF BookOf, Book
  <2>2. treserved'[t] = treserved[t] /\ asked'[t] = asked[t] /\ tpaid'[t] \in [OfferIds -> Nat]
          /\ treserved'[t] \in [OfferIds -> Nat]
    BY <1>2, <1>7, <1>8
  <2>3. \A g \in OfferIds : tpaid'[t][g] <= treserved'[t][g]
    BY <1>2, <1>3, <1>8, <2>1, <2>2
  <2>6. \A g \in OfferIds :
          g # f => treserved'[t][g] = treserved[t][g] /\ tpaid'[t][g] = tpaid[t][g]
    BY <1>8
  <2>4. SumOver(Owed(treserved'[t], tpaid'[t]), OfferIds)
          = SumOver(Owed(treserved[t], tpaid[t]), OfferIds)
              + (treserved'[t][f] - tpaid'[t][f]) - (treserved[t][f] - tpaid[t][f])
    BY <1>2, <2>1, <2>2, <2>3, <2>6, LedgerMoves
  <2>5. toutstanding'[t] = SumOver(Owed(treserved'[t], tpaid'[t]), OfferIds)
    BY <1>2, <1>3, <1>8, <2>1, <2>2, <2>4
  <2> QED BY <1>6, <2>1, <2>2, <2>3, <2>5 DEF BookOf, Book
<1>11. TierBooksAgree'
  BY <1>1, <1>6, <1>8, <1>9, <1>10, OneTierMoves
<1> QED BY <1>6, <1>9, <1>11 DEF TierInv

-----------------------------------------------------------------------------
(* The whole contract *)

LEMMA TierInvInit == TierInit => TierInv
<1> SUFFICES ASSUME TierInit PROVE TierInv
  OBVIOUS
<1>1. PoolInv
  BY PoolInvInit DEF TierInit
<1>2. TierTypeOK
  <2>1. now = 0 /\ 0 \in 0 .. 0
    BY DEF TierInit, PoolInit
  <2> QED BY <2>1 DEF TierInit, TierTypeOK, PerTier
<1>3. ASSUME NEW t \in Tiers PROVE BookOf(t)
  <2>1. /\ tbalance[t] = 0 /\ toutstanding[t] = 0
        /\ tstakes[t] = [k \in Stakers |-> 0]
        /\ treserved[t] = [f \in OfferIds |-> 0]
        /\ tpaid[t] = [f \in OfferIds |-> 0]
        /\ asked[t] = [f \in OfferIds |-> 0]
    BY DEF TierInit, PerTier
  <2>2. SumOver([k \in Stakers |-> 0], Stakers) = 0
    BY SumZeros, StakersFinite
  <2> DEFINE w == Owed(treserved[t], tpaid[t])
  <2>3. \A f \in OfferIds : w[f] = 0
    BY <2>1 DEF Owed
  <2> HIDE DEF w
  <2>4. SumOver(w, OfferIds) = 0
    BY <2>3, SumZeros, StakersFinite
  <2>5. ASSUME NEW f \in OfferIds
        PROVE  tpaid[t][f] <= treserved[t][f]
                 /\ treserved[t][f] <= (asked[t][f] * PayoutCap[t]) \div CapUnit
    <3>1. tpaid[t][f] = 0 /\ treserved[t][f] = 0 /\ asked[t][f] = 0
      BY <2>1
    <3>2. PayoutCap[t] \in Nat /\ CapUnit \in Nat \ {0}
      BY TierAssumption
    <3>3. 0 * PayoutCap[t] = 0 /\ 0 \div CapUnit = 0
      BY <3>2
    <3> QED BY <3>1, <3>3
  <2> QED BY <2>1, <2>2, <2>4, <2>5 DEF BookOf, Book, w
<1>4. TierBooksAgree
  BY <1>3, BooksTierByTier
<1> QED BY <1>1, <1>2, <1>4 DEF TierInv

LEMMA TierInvStep == TierInv /\ [TierNext]_<<poolVars, tierVars>> => TierInv'
<1> SUFFICES ASSUME TierInv, [TierNext]_<<poolVars, tierVars>> PROVE TierInv'
  OBVIOUS
<1>0. \A amount \in Deposits \cup Withdrawals \cup Claims : amount \in Int
  BY PoolAssumption
<1>1. ASSUME NEW t \in Tiers, NEW k \in Stakers, NEW amount \in Deposits,
             StakeTier(t, k, amount)
      PROVE  TierInv'
  BY <1>0, <1>1, TierStakeSteps
<1>2. ASSUME NEW t \in Tiers, NEW k \in Stakers, NEW amount \in Withdrawals,
             UnstakeTier(t, k, amount)
      PROVE  TierInv'
  BY <1>0, <1>2, TierStakeSteps
<1>3. ASSUME NEW t \in Tiers, NEW i \in InvoiceIds, NEW amount \in Claims,
             PayOutTier(t, i, amount)
      PROVE  TierInv'
  BY <1>0, <1>3, TierPayOutStep
<1>4. ASSUME NEW t \in Tiers, NEW f \in OfferIds, NEW amount \in Claims,
             ReservePayoutTier(t, f, amount)
      PROVE  TierInv'
  BY <1>0, <1>4, TierReserveStep
<1>5. ASSUME NEW t \in Tiers, NEW f \in OfferIds, NEW amount \in Claims,
             ClaimPayoutTier(t, f, amount)
      PROVE  TierInv'
  BY <1>0, <1>5, TierClaimStep
<1>6. ASSUME PoolInv', 0 .. now \subseteq 0 .. now', UNCHANGED tierVars PROVE TierInv'
  <2>1. TierTypeOK'
    BY <1>6 DEF TierInv, TierTypeOK, tierVars, tierStakeVars, tierReserveVars
  <2>2. TierBooksAgree'
    BY <1>6 DEF TierInv, TierBooksAgree, Covered, tierVars, tierStakeVars, tierReserveVars
  <2> QED BY <1>6, <2>1, <2>2 DEF TierInv
<1>7. CASE PoolNext /\ UNCHANGED tierVars
  <2>1. PoolInv'
    BY <1>7, FlatStep DEF TierInv
  <2>2. now' = now \/ now' = now + 1
    BY <1>7 DEF PoolNext, Stake, Unstake, PayOut, PayFromPool, ReservePayout, ClaimPayout,
                SetYieldRate, SetPaused, InvoiceDefaults, Fund, Tick, envVars
  <2>3. 0 .. now \subseteq 0 .. now'
    BY <2>2, PoolAssumption DEF TierInv, PoolInv, PoolTypeOK
  <2> QED BY <1>6, <1>7, <2>1, <2>3
<1>8. CASE UNCHANGED <<poolVars, tierVars>>
  <2>1. PoolInv'
    BY <1>8 DEF TierInv, PoolInv, PoolTypeOK, TotalIsSumOfStakes, ReservationsAddUp, poolVars
  <2> QED BY <1>6, <1>8, <2>1 DEF poolVars
<1> QED BY <1>1, <1>2, <1>3, <1>4, <1>5, <1>7, <1>8 DEF TierNext

LEMMA TierSpecInv == TierSpec => []TierInv
BY TierInvInit, TierInvStep, PTL DEF TierSpec

(***************************************************************************)
(* The stakes of the flat pool add up to its total in every state, for any *)
(* number of stakers and any amounts: a payout is taken from them to the   *)
(* last unit whatever its divisions lose, and one that would find no stake *)
(* finds no balance either.                                                *)
(***************************************************************************)
THEOREM PoolTotalIsSumOfStakes == TierSpec => []TotalIsSumOfStakes
<1>1. TierInv => TotalIsSumOfStakes
  BY DEF TierInv, PoolInv
<1> QED BY <1>1, TierSpecInv, PTL

(***************************************************************************)
(* What is outstanding is what was reserved and not paid, over any number  *)
(* of offers, and no offer is paid beyond its reservation, in whatever     *)
(* order reserve_payout, claim_payout, pay_out and unstake are called.     *)
(***************************************************************************)
THEOREM PoolReservationsAddUp == TierSpec => []ReservationsAddUp
<1>1. TierInv => ReservationsAddUp
  BY DEF TierInv, PoolInv
<1> QED BY <1>1, TierSpecInv, PTL

(***************************************************************************)
(* The books of every tier agree in every state, for any tiers and any     *)
(* caps: its balance is the sum of its stakes, what is outstanding is what *)
(* its offers have reserved and not been paid, and the partial claims of   *)
(* an offer stay together within what the tier covers of the largest one.  *)
(***************************************************************************)
THEOREM TiersBooksAgree == TierSpec => []TierBooksAgree
<1>1. TierInv => TierBooksAgree
  BY DEF TierInv
<1> QED BY <1>1, TierSpecInv, PTL

(* The calls on the tiers leave the flat pool alone.                       *)
LEMMA TierCallsLeaveFlat ==
  ASSUME [TierNext]_<<poolVars, tierVars>>
  PROVE  PoolNext \/ UNCHANGED flatVars
<1>1. \A t \in Tiers, k \in Stakers, amount \in Deposits :
        StakeTier(t, k, amount) => UNCHANGED flatVars
  BY DEF StakeTier
<1>2. \A t \in Tiers, k \in Stakers, amount \in Withdrawals :
        UnstakeTier(t, k, amount) => UNCHANGED flatVars
  BY DEF UnstakeTier
<1>3. \A t \in Tiers, i \in InvoiceIds, amount \in Claims :
        PayOutTier(t, i, amount) => UNCHANGED flatVars
  BY DEF PayOutTier, PayFromTier
<1>4. \A t \in Tiers, f \in OfferIds, amount \in Claims :
        ReservePayoutTier(t, f, amount) => UNCHANGED flatVars
  BY DEF ReservePayoutTier
<1>5. \A t \in Tiers, f \in OfferIds, amount \in Claims :
        ClaimPayoutTier(t, f, amount) => UNCHANGED flatVars
  BY DEF ClaimPayoutTier, PayFromTier
<1>6. UNCHANGED <<poolVars, tierVars>> => UNCHANGED flatVars
  BY DEF poolVars, flatVars, envVars, stakeVars, reserveVars
<1> QED BY <1>1, <1>2, <1>3, <1>4, <1>5, <1>6 DEF TierNext

(***************************************************************************)
(* Nothing an offer reserves or claims takes from what another one has:    *)
(* reserve_payout grants from what is not outstanding, and claim_payout    *)
(* takes the same amount off the pool and off what is outstanding.         *)
(***************************************************************************)
THEOREM PoolReservationsStayCovered == TierSpec => ReservationsStayCovered
<1> DEFINE A == outstanding <= pool_total /\ <<reserved, paid>>' # <<reserved, paid>> =>
                  outstanding' <= pool_total'
<1>1. TierInv /\ [TierNext]_<<poolVars, tierVars>> => [A]_poolVars
  <2> SUFFICES ASSUME TierInv, [TierNext]_<<poolVars, tierVars>>,
                      outstanding <= pool_total, <<reserved, paid>>' # <<reserved, paid>>
               PROVE  outstanding' <= pool_total'
    OBVIOUS
  <2>0. PoolInv /\ \A amount \in Claims : amount \in Int
    BY PoolAssumption DEF TierInv
  <2>1. PoolNext
    BY TierCallsLeaveFlat DEF flatVars, reserveVars
  <2>2. \/ \E f \in OfferIds, amount \in Claims : ReservePayout(f, amount)
        \/ \E f \in OfferIds, amount \in Claims : ClaimPayout(f, amount)
    BY <2>1 DEF PoolNext, Stake, Unstake, PayOut, SetYieldRate, SetPaused, InvoiceDefaults, Fund,
                Tick, reserveVars
  <2> QED BY <2>0, <2>2, FlatReserveStep, FlatClaimStep
<1> QED BY <1>1, TierSpecInv, PTL DEF TierSpec, ReservationsStayCovered

(* No stake or no time earns nothing.                                      *)
LEMMA NothingEarned ==
  ASSUME NEW b \in Int, NEW d \in Int, NEW r \in Int, b = 0 \/ d = 0
  PROVE  Quot(b * d * r, YieldUnit) = 0
<1>1. b * d * r = 0
  <2>1. \A x, y \in Int : 0 * x * y = 0 /\ x * 0 * y = 0
    OBVIOUS
  <2> QED BY <2>1
<1>2. YieldUnit \in Nat \ {0}
  BY PoolAssumption
<1>3. Quot(0, YieldUnit) = 0
  BY <1>2, QuotType
<1> QED BY <1>1, <1>3

LEMMA NothingEarnedNext ==
  ASSUME PoolTypeOK', NEW k \in Stakers, stakes'[k] = 0 \/ stake_ts'[k] = now'
  PROVE  ComputeYield(k)' = 0
<1>1. stakes'[k] \in Int /\ now' - stake_ts'[k] \in Int /\ yield_rate' \in Int
        /\ (stake_ts'[k] = now' => now' - stake_ts'[k] = 0)
  BY PoolAssumption DEF PoolTypeOK
<1>2. Quot(stakes'[k] * (now' - stake_ts'[k]) * yield_rate', YieldUnit) = 0
  BY <1>1, NothingEarned
<1> QED BY <1>2 DEF ComputeYield

(* The gain is banked and the clock restarts: what is accrued is the same. *)
LEMMA BankKeepsYield ==
  ASSUME PoolTypeOK, PoolTypeOK', NEW S, BankAccruedYield(S), now' = now,
         NEW k \in S, k \in Stakers, stakes[k] > 0
  PROVE  AccruedYield(k)' = AccruedYield(k)
<1>1. ComputeYield(k) \in Nat /\ yield_acc[k] \in Nat
  <2>1. stakes[k] >= 0
    BY DEF PoolTypeOK
  <2> QED BY <2>1, YieldType DEF PoolTypeOK
<1>2. yield_acc'[k] = yield_acc[k] + ComputeYield(k)
  BY <1>1 DEF BankAccruedYield, AccruedYield
<1>3. stake_ts'[k] = now'
  BY DEF BankAccruedYield, PoolTypeOK
<1>4. ComputeYield(k)' = 0
  BY <1>3, NothingEarnedNext
<1> QED BY <1>1, <1>2, <1>4 DEF AccruedYield

(***************************************************************************)
(* A new rate and a top-up never change what a staker has accrued so far,  *)
(* for any rates, times and amounts: set_yield_rate banks the yield of all *)
(* stakers and stake that of the one before the rate or the balance it     *)
(* would be computed from changes.                                         *)
(***************************************************************************)
THEOREM PoolYieldIsProspective == TierSpec => YieldIsProspective
<1> DEFINE A == yield_rate' # yield_rate
                  \/ (\E k \in Stakers, amount \in Deposits : Stake(k, amount)) =>
                \A k \in Stakers : stakes[k] >= 0 => AccruedYield(k)' = AccruedYield(k)
<1>1. TierInv /\ TierInv' /\ [TierNext]_<<poolVars, tierVars>> => [A]_poolVars
  <2> SUFFICES ASSUME TierInv, TierInv', [TierNext]_<<poolVars, tierVars>>,
                      yield_rate' # yield_rate
                        \/ \E k \in Stakers, amount \in Deposits : Stake(k, amount),
                      NEW k \in Stakers, stakes[k] >= 0
               PROVE  AccruedYield(k)' = AccruedYield(k)
    BY Zenon
  <2>0. PoolTypeOK /\ PoolTypeOK'
    BY DEF TierInv, PoolInv
  <2>1. CASE \E rate \in YieldRates : SetYieldRate(rate)
    <3>1. BankAccruedYield(Stakers) /\ now' = now /\ stakes' = stakes
      BY <2>1 DEF SetYieldRate, envVars
    <3>2. CASE stakes[k] > 0
      BY <2>0, <3>1, <3>2, BankKeepsYield
    <3>3. CASE stakes[k] = 0
      <4>1. ComputeYield(k) = 0 /\ ComputeYield(k)' = 0
        BY <2>0, <3>1, <3>3, YieldType, NothingEarnedNext
      <4>2. yield_acc'[k] = yield_acc[k]
        BY <3>1, <4>1 DEF BankAccruedYield
      <4> QED BY <4>1, <4>2 DEF AccruedYield
    <3> QED BY <2>0, <3>2, <3>3 DEF PoolTypeOK
  <2>2. CASE \E j \in Stakers, amount \in Deposits : Stake(j, amount)
    <3>0. PICK j \in Stakers, amount \in Deposits : Stake(j, amount)
      BY <2>2
    <3>1. now' = now /\ yield_rate' = yield_rate
      BY <3>0 DEF Stake, envVars
    <3>2. CASE k # j
      <4>1. stakes'[k] = stakes[k]
        BY <2>0, <3>0, <3>2 DEF Stake, PoolTypeOK
      <4>2. stake_ts'[k] = stake_ts[k] /\ yield_acc'[k] = yield_acc[k]
        BY <2>0, <3>0, <3>2 DEF Stake, BankAccruedYield, PoolTypeOK
      <4> QED BY <3>1, <4>1, <4>2 DEF AccruedYield, ComputeYield
    <3>3. CASE k = j /\ stakes[j] > 0
      <4>1. BankAccruedYield({j})
        BY <3>0, <3>3 DEF Stake
      <4> QED BY <2>0, <3>1, <3>3, <4>1, BankKeepsYield
    <3>4. CASE k = j /\ stakes[j] = 0
      <4>1. stake_ts'[k] = now' /\ yield_acc' = yield_acc
        BY <2>0, <3>0, <3>1, <3>4 DEF Stake, PoolTypeOK
      <4>2. ComputeYield(k) = 0 /\ ComputeYield(k)' = 0
        BY <2>0, <3>4, <4>1, YieldType, NothingEarnedNext
      <4> QED BY <4>1, <4>2 DEF AccruedYield
    <3> QED BY <2>0, <3>2, <3>3, <3>4 DEF PoolTypeOK
  <2>3. CASE yield_rate' # yield_rate
    <3>1. PoolNext
      BY <2>3, TierCallsLeaveFlat DEF flatVars
    <3>2. \E rate \in YieldRates : SetYieldRate(rate)
      BY <2>3, <3>1 DEF PoolNext, Stake, Unstake, PayOut, PayFromPool, ReservePayout, ClaimPayout,
                      SetPaused, InvoiceDefaults, Fund, Tick
    <3> QED BY <2>1, <3>2
  <2> QED BY <2>2, <2>3
<1>2. TierSpec => [][TierNext]_<<poolVars, tierVars>>
  BY DEF TierSpec
<1> QED BY <1>1, <1>2, TierSpecInv, PTL DEF YieldIsProspective

-----------------------------------------------------------------------------
(* Losses *)

(***************************************************************************)
(* Each staker of the flat pool bears its share of a payout to within one  *)
(* unit per staker, for any number of them and any amounts: before the     *)
(* last key the loop never takes more than was left to take, so no share   *)
(* is cut, and what the last one absorbs is less than a unit per staker.   *)
(***************************************************************************)
THEOREM PoolLossIsProRata == TierSpec => LossIsProRata
<1> DEFINE A == pool_total' < pool_total
                  /\ (\E amount \in Claims : \/ \E i \in InvoiceIds : PayOut(i, amount)
                                            \/ \E f \in OfferIds : ClaimPayout(f, amount))
                  /\ (\A k \in Stakers : stakes[k] >= 0) =>
                LET payout == pool_total - pool_total'
                IN \A k \in Stakers :
                     LET off == (stakes[k] - stakes'[k]) * pool_total - stakes[k] * payout
                     IN -NStakers * pool_total < off /\ off < NStakers * pool_total
<1>1. TierInv /\ [TierNext]_<<poolVars, tierVars>> => [A]_poolVars
  <2> SUFFICES ASSUME TierInv, NEW amount \in Claims,
                      \/ \E i \in InvoiceIds : PayOut(i, amount)
                      \/ \E f \in OfferIds : ClaimPayout(f, amount),
                      \A k \in Stakers : stakes[k] >= 0,
                      NEW k \in Stakers
               PROVE  LET off == (stakes[k] - stakes'[k]) * pool_total
                                   - stakes[k] * (pool_total - pool_total')
                      IN -NStakers * pool_total < off /\ off < NStakers * pool_total
    BY Zenon
  <2>0. /\ PoolTypeOK /\ ReservationsAddUp /\ amount \in Int
        /\ stakes \in [Stakers -> Int] /\ pool_total \in Int /\ outstanding \in Nat
        /\ pool_total = SumOver(stakes, Stakers)
    BY PoolAssumption DEF TierInv, PoolInv, PoolTypeOK, TotalIsSumOfStakes
  <2>1. PICK p \in Int : p <= pool_total /\ PayFromPool(p)
    <3>1. CASE \E i \in InvoiceIds : PayOut(i, amount)
      <4>1. AtMost(amount, pool_total) \in Int /\ AtMost(amount, pool_total) <= pool_total
        BY <2>0 DEF AtMost
      <4> QED BY <3>1, <4>1 DEF PayOut
    <3>2. CASE \E f \in OfferIds : ClaimPayout(f, amount)
      <4>0. PICK f \in OfferIds : ClaimPayout(f, amount)
        BY <3>2
      <4> DEFINE remaining == reserved[f] - paid[f]
                 payable == AtMost(AtMost(amount, remaining),
                                   pool_total - (outstanding - remaining))
      <4>1. remaining \in Nat /\ remaining <= outstanding
        BY <2>0, ClaimWithin
      <4>2. payable \in Int /\ payable <= pool_total
        BY <2>0, <4>1 DEF AtMost
      <4>3. PayFromPool(payable)
        BY <4>0 DEF ClaimPayout
      <4> HIDE DEF payable
      <4> QED BY <4>2, <4>3
    <3> QED BY <3>1, <3>2
  <2>2. /\ 0 < p /\ stakes' = ProRata(stakes, pool_total, p) /\ pool_total' = pool_total - p
    BY <2>1 DEF PayFromPool, ReduceStakes
  <2>3. {j \in Stakers : stakes[j] # 0} # {}
    BY <2>0, <2>1, <2>2, PayoutKeepsBalance
  <2>4. stakes \in [Stakers -> Nat] /\ p \in Nat /\ pool_total \in Nat \ {0}
    BY <2>0, <2>1, <2>2
  <2>5. LET off == (stakes[k] - ProRata(stakes, pool_total, p)[k]) * pool_total - stakes[k] * p
        IN -NStakers * pool_total < off /\ off < NStakers * pool_total
    BY <2>0, <2>3, <2>4, ProRataIsFair
  <2>6. pool_total - pool_total' = p
    BY <2>0, <2>2
  <2> QED BY <2>2, <2>5, <2>6
<1> QED BY <1>1, TierSpecInv, PTL DEF TierSpec, LossIsProRata

(***************************************************************************)
(* What a payout of a tier sends away is taken from the stakes of that     *)
(* tier alone, from each its share to within one unit per staker, for any  *)
(* number of tiers, stakers and any amounts: the flat stakes and the other *)
(* tiers neither fund nor absorb the loss.                                 *)
(***************************************************************************)
THEOREM TierLossStaysInTier == TierSpec => TierLossIsItsOwn
<1> DEFINE Fair(t) ==
             LET payout == tokens - tokens'
             IN /\ UNCHANGED <<stakes, pool_total>>
                /\ \A u \in Tiers \ {t} : tstakes'[u] = tstakes[u]
                /\ (\A k \in Stakers : tstakes[t][k] >= 0) =>
                   \A k \in Stakers :
                     LET off == (tstakes[t][k] - tstakes'[t][k]) * tbalance[t]
                                  - tstakes[t][k] * payout
                     IN -NStakers * tbalance[t] < off /\ off < NStakers * tbalance[t]
           A == \A t \in Tiers :
                  tbalance'[t] < tbalance[t]
                    /\ (\E amount \in Claims : \/ \E i \in InvoiceIds : PayOutTier(t, i, amount)
                                              \/ \E f \in OfferIds : ClaimPayoutTier(t, f, amount)) =>
                  Fair(t)
<1>1. ASSUME TierInv, NEW t \in Tiers, NEW amount \in Claims,
             \/ \E i \in InvoiceIds : PayOutTier(t, i, amount)
             \/ \E f \in OfferIds : ClaimPayoutTier(t, f, amount)
      PROVE  Fair(t)
  <2>0. /\ TierTypeOK /\ TierBooksAgree /\ amount \in Int /\ tokens \in Nat
        /\ tstakes \in [Tiers -> [Stakers -> Int]]
    BY <1>1, PoolAssumption DEF TierInv, PoolInv, PoolTypeOK, TierTypeOK
  <2>1. /\ tstakes[t] \in [Stakers -> Int] /\ tbalance[t] \in Int
        /\ tbalance[t] = SumOver(tstakes[t], Stakers)
        /\ treserved[t] \in [OfferIds -> Nat] /\ tpaid[t] \in [OfferIds -> Nat]
    BY <2>0 DEF TierTypeOK, TierBooksAgree
  <2>2. PICK p \in Int : p <= tbalance[t] /\ PayFromTier(t, p)
    <3>1. CASE \E i \in InvoiceIds : PayOutTier(t, i, amount)
      <4>1. Covered(t, amount) \in Int
        <5>1. PayoutCap[t] \in Int /\ CapUnit \in Nat \ {0}
          BY TierAssumption
        <5>2. amount * PayoutCap[t] \in Int
          BY <2>0, <5>1
        <5> QED BY <5>1, <5>2 DEF Covered
      <4>2. AtMost(Covered(t, amount), tbalance[t]) \in Int
              /\ AtMost(Covered(t, amount), tbalance[t]) <= tbalance[t]
        BY <2>1, <4>1 DEF AtMost
      <4> QED BY <3>1, <4>2 DEF PayOutTier
    <3>2. CASE \E f \in OfferIds : ClaimPayoutTier(t, f, amount)
      <4>0. PICK f \in OfferIds : ClaimPayoutTier(t, f, amount)
        BY <3>2
      <4> DEFINE paying == AtMost(AtMost(amount, treserved[t][f] - tpaid[t][f]), tbalance[t])
      <4>1. paying \in Int /\ paying <= tbalance[t]
        BY <2>0, <2>1 DEF AtMost
      <4>2. PayFromTier(t, paying)
        BY <4>0 DEF ClaimPayoutTier
      <4> HIDE DEF paying
      <4> QED BY <4>1, <4>2
    <3> QED BY <1>1, <3>1, <3>2
  <2>3. /\ 0 < p /\ tokens' = tokens - p
        /\ tstakes' = [tstakes EXCEPT ![t] = ProRata(tstakes[t], tbalance[t], p)]
        /\ UNCHANGED flatVars
    BY <2>2 DEF PayFromTier, ReduceTierStakes
  <2>4. tokens - tokens' = p
    BY <2>0, <2>3
  <2>5. UNCHANGED <<stakes, pool_total>>
    BY <2>3 DEF flatVars, stakeVars
  <2>6. /\ \A u \in Tiers \ {t} : tstakes'[u] = tstakes[u]
        /\ tstakes'[t] = ProRata(tstakes[t], tbalance[t], p)
    BY <2>0, <2>3
  <2>7. ASSUME \A k \in Stakers : tstakes[t][k] >= 0, NEW k \in Stakers
        PROVE  LET off == (tstakes[t][k] - tstakes'[t][k]) * tbalance[t] - tstakes[t][k] * p
               IN -NStakers * tbalance[t] < off /\ off < NStakers * tbalance[t]
    <3> DEFINE b == tstakes[t]
               total == tbalance[t]
    <3>1. b \in [Stakers -> Nat] /\ p \in Nat /\ total \in Nat \ {0} /\ total = SumOver(b, Stakers)
      <4>1. \A j \in Stakers : tstakes[t][j] \in Nat
        BY <2>1, <2>7
      <4> QED BY <2>1, <2>2, <2>3, <4>1
    <3>2. {j \in Stakers : b[j] # 0} # {}
      BY <2>1, <2>2, <2>3, PayoutKeepsBalance
    <3> HIDE DEF b, total
    <3>3. LET off == (b[k] - ProRata(b, total, p)[k]) * total - b[k] * p
          IN -NStakers * total < off /\ off < NStakers * total
      BY <3>1, <3>2, ProRataIsFair
    <3> QED BY <2>6, <3>3 DEF b, total
  <2> QED BY <2>4, <2>5, <2>6, <2>7
<1> HIDE DEF Fair
<1>2. TierInv /\ [TierNext]_<<poolVars, tierVars>> => [A]_<<poolVars, tierVars>>
  BY <1>1
<1>3. TierSpec => [][A]_<<poolVars, tierVars>>
  BY <1>2, TierSpecInv, PTL DEF TierSpec
<1> QED BY <1>3 DEF TierLossIsItsOwn, Fair
=============================================================================
