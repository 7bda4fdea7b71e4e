------------------------- MODULE VerificationProofs -------------------------
(***************************************************************************)
(* Proofs about the verification oracle, for any verifiers, facts, limits  *)
(* and times.  A list holds one statement of each verifier about each      *)
(* fact; then the records of a status are as many as the verifiers who     *)
(* hold it, a full list has a record nobody hears any more, and taking it  *)
(* out costs no vote.                                                      *)
(***************************************************************************)
EXTENDS Verification, FiniteSums, SequenceTheorems

-----------------------------------------------------------------------------
(* Lists of statements *)

SameFact(r, s) == r.verifier = s.verifier /\ r.v_type = s.v_type

(* No verifier is on the list twice about the same fact.                   *)
NoRepeat(l) == \A j, k \in DOMAIN l : SameFact(l[j], l[k]) => j = k

Said(l) == {l[k] : k \in DOMAIN l}

(* Appending adds one record.                                              *)
LEMMA AppendSays ==
  ASSUME NEW l \in Seq(Attestation), NEW r \in Attestation
  PROVE  /\ Append(l, r) \in Seq(Attestation)
         /\ Len(Append(l, r)) = Len(l) + 1
         /\ Said(Append(l, r)) = Said(l) \cup {r}
<1>1. /\ Append(l, r) \in Seq(Attestation)
      /\ Len(Append(l, r)) = Len(l) + 1
      /\ \A i \in 1 .. Len(l) : Append(l, r)[i] = l[i]
      /\ Append(l, r)[Len(l) + 1] = r
  BY AppendProperties
<1>2. DOMAIN l = 1 .. Len(l) /\ Len(l) \in Nat
  OBVIOUS
<1>3. DOMAIN Append(l, r) = 1 .. (Len(l) + 1)
  BY <1>1
<1>4. Said(Append(l, r)) \subseteq Said(l) \cup {r}
  <2> SUFFICES ASSUME NEW k \in 1 .. (Len(l) + 1)
               PROVE  Append(l, r)[k] \in Said(l) \cup {r}
    BY <1>3 DEF Said
  <2> QED BY <1>1, <1>2 DEF Said
<1>5. \A k \in DOMAIN l : l[k] \in Said(Append(l, r))
  BY <1>1, <1>2, <1>3 DEF Said
<1>6. r \in Said(Append(l, r))
  <2>1. Len(l) + 1 \in DOMAIN Append(l, r)
    BY <1>2, <1>3
  <2> QED BY <1>1, <2>1 DEF Said
<1> QED BY <1>1, <1>4, <1>5, <1>6 DEF Said

(* A record about a new fact repeats nothing.                              *)
LEMMA AppendKeepsApart ==
  ASSUME NEW l \in Seq(Attestation), NEW r \in Attestation, NoRepeat(l),
         \A s \in Said(l) : ~ SameFact(s, r)
  PROVE  NoRepeat(Append(l, r))
<1>1. /\ \A i \in 1 .. Len(l) : Append(l, r)[i] = l[i]
      /\ Append(l, r)[Len(l) + 1] = r
      /\ Append(l, r) \in Seq(Attestation)
      /\ Len(Append(l, r)) = Len(l) + 1
  BY AppendProperties
<1>2. DOMAIN l = 1 .. Len(l) /\ Len(l) \in Nat
  OBVIOUS
<1>3. DOMAIN Append(l, r) = 1 .. (Len(l) + 1)
  BY <1>1
<1> SUFFICES ASSUME NEW j \in 1 .. (Len(l) + 1), NEW k \in 1 .. (Len(l) + 1),
                    SameFact(Append(l, r)[j], Append(l, r)[k])
             PROVE  j = k
  BY <1>3 DEF NoRepeat
<1>4. CASE j \in 1 .. Len(l) /\ k \in 1 .. Len(l)
  BY <1>1, <1>2, <1>4 DEF NoRepeat
<1>5. CASE j = Len(l) + 1 /\ k \in 1 .. Len(l)
  <2>1. l[k] \in Said(l) /\ SameFact(l[k], r)
    BY <1>1, <1>2, <1>5 DEF Said, SameFact
  <2> QED BY <2>1
<1>6. CASE j \in 1 .. Len(l) /\ k = Len(l) + 1
  <2>1. l[j] \in Said(l) /\ SameFact(l[j], r)
    BY <1>1, <1>2, <1>6 DEF Said, SameFact
  <2> QED BY <2>1
<1>7. CASE j = Len(l) + 1 /\ k = Len(l) + 1
  BY <1>7
<1> QED BY <1>2, <1>4, <1>5, <1>6, <1>7

(* Taking out a record removes that one and closes the gap.                *)
LEMMA RemoveAtSays ==
  ASSUME NEW l \in Seq(Attestation), NEW i \in DOMAIN l, NoRepeat(l)
  PROVE  /\ RemoveAt(l, i) \in Seq(Attestation)
         /\ Len(RemoveAt(l, i)) = Len(l) - 1
         /\ Said(RemoveAt(l, i)) = Said(l) \ {l[i]}
         /\ NoRepeat(RemoveAt(l, i))
<1> DEFINE before == SubSeq(l, 1, i - 1)
           after == SubSeq(l, i + 1, Len(l))
           rest == RemoveAt(l, i)
<1>1. DOMAIN l = 1 .. Len(l) /\ Len(l) \in Nat /\ i \in 1 .. Len(l)
  OBVIOUS
<1>2. \A k \in 1 .. Len(l) : l[k] \in Attestation
  OBVIOUS
<1>3. /\ before \in Seq(Attestation)
      /\ Len(before) = i - 1
      /\ \A k \in 1 .. (i - 1) : before[k] = l[k]
  <2>1. 1 \in Int /\ i - 1 \in Int /\ \A k \in 1 .. (i - 1) : l[k] \in Attestation
    BY <1>1, <1>2
  <2>2. /\ SubSeq(l, 1, i - 1) \in Seq(Attestation)
        /\ Len(SubSeq(l, 1, i - 1)) = IF 1 <= i - 1 THEN (i - 1) - 1 + 1 ELSE 0
        /\ \A k \in 1 .. (i - 1) - 1 + 1 : SubSeq(l, 1, i - 1)[k] = l[1 + k - 1]
    BY <2>1, SubSeqProperties
  <2> QED BY <1>1, <2>2
<1>4. /\ after \in Seq(Attestation)
      /\ Len(after) = Len(l) - i
      /\ \A k \in 1 .. (Len(l) - i) : after[k] = l[i + k]
  <2>1. i + 1 \in Int /\ Len(l) \in Int /\ \A k \in (i + 1) .. Len(l) : l[k] \in Attestation
    BY <1>1, <1>2
  <2>2. /\ SubSeq(l, i + 1, Len(l)) \in Seq(Attestation)
        /\ Len(SubSeq(l, i + 1, Len(l))) =
             IF i + 1 <= Len(l) THEN Len(l) - (i + 1) + 1 ELSE 0
        /\ \A k \in 1 .. Len(l) - (i + 1) + 1 :
             SubSeq(l, i + 1, Len(l))[k] = l[(i + 1) + k - 1]
    BY <2>1, SubSeqProperties
  <2> QED BY <1>1, <2>2
<1>5. rest = before \o after
  BY DEF RemoveAt
<1> HIDE DEF before, after, rest
<1>6. /\ rest \in Seq(Attestation)
      /\ Len(rest) = Len(l) - 1
      /\ DOMAIN rest = 1 .. (Len(l) - 1)
  <2>1. /\ before \o after \in Seq(Attestation)
        /\ Len(before \o after) = Len(before) + Len(after)
    BY <1>3, <1>4, ConcatProperties
  <2>2. Len(rest) = Len(l) - 1 /\ rest \in Seq(Attestation)
    BY <1>1, <1>3, <1>4, <1>5, <2>1
  <2> QED BY <2>2
<1>7. \A k \in 1 .. (Len(l) - 1) : rest[k] = IF k < i THEN l[k] ELSE l[k + 1]
  <2> SUFFICES ASSUME NEW k \in 1 .. (Len(l) - 1)
               PROVE  rest[k] = IF k < i THEN l[k] ELSE l[k + 1]
    OBVIOUS
  <2>1. \A x \in 1 .. Len(before) + Len(after) : (before \o after)[x] =
          IF x <= Len(before) THEN before[x] ELSE after[x - Len(before)]
    BY <1>3, <1>4, ConcatProperties
  <2>2. rest[k] = IF k <= i - 1 THEN before[k] ELSE after[k - (i - 1)]
    BY <1>1, <1>3, <1>4, <1>5, <2>1
  <2>3. CASE k < i
    BY <1>1, <1>3, <2>2, <2>3
  <2>4. CASE ~ (k < i)
    <3>1. k - (i - 1) \in 1 .. (Len(l) - i) /\ i + (k - (i - 1)) = k + 1
      BY <1>1, <2>4
    <3>2. rest[k] = after[k - (i - 1)]
      BY <1>1, <2>2, <2>4
    <3> QED BY <1>4, <2>4, <3>1, <3>2
  <2> QED BY <2>3, <2>4
<1>8. NoRepeat(rest)
  <2> SUFFICES ASSUME NEW j \in 1 .. (Len(l) - 1), NEW k \in 1 .. (Len(l) - 1),
                      SameFact(rest[j], rest[k])
               PROVE  j = k
    BY <1>6 DEF NoRepeat
  <2> DEFINE at(x) == IF x < i THEN x ELSE x + 1
  <2>1. at(j) \in DOMAIN l /\ at(k) \in DOMAIN l
    BY <1>1
  <2>2. rest[j] = l[at(j)] /\ rest[k] = l[at(k)]
    BY <1>7
  <2>3. at(j) = at(k)
    BY <2>1, <2>2 DEF NoRepeat
  <2> QED BY <1>1, <2>3
<1>9. Said(rest) \subseteq Said(l) \ {l[i]}
  <2> SUFFICES ASSUME NEW k \in 1 .. (Len(l) - 1)
               PROVE  rest[k] \in Said(l) /\ rest[k] # l[i]
    BY <1>6 DEF Said
  <2> DEFINE at == IF k < i THEN k ELSE k + 1
  <2>1. at \in DOMAIN l /\ rest[k] = l[at] /\ at # i
    BY <1>1, <1>7
  <2> HIDE DEF at
  <2>2. ~ SameFact(l[at], l[i])
    BY <1>1, <2>1 DEF NoRepeat
  <2> QED BY <2>1, <2>2 DEF Said, SameFact
<1>10. Said(l) \ {l[i]} \subseteq Said(rest)
  <2> SUFFICES ASSUME NEW k \in DOMAIN l, l[k] # l[i]
               PROVE  l[k] \in Said(rest)
    BY DEF Said
  <2> DEFINE at == IF k < i THEN k ELSE k - 1
  <2>1. k # i /\ at \in 1 .. (Len(l) - 1)
    BY <1>1
  <2>2. rest[at] = l[k]
    BY <1>1, <1>7, <2>1
  <2> HIDE DEF at
  <2> QED BY <1>6, <2>1, <2>2 DEF Said
<1> QED BY <1>6, <1>8, <1>9, <1>10 DEF rest

-----------------------------------------------------------------------------
(* The list without what a verifier said before about a fact *)

Matches(r, v, t) == r.verifier = v /\ r.v_type = t

(* u is what is left of the first records, up to each of the first n.      *)
Keeps(u, n, l, v, t) ==
  u = [k \in 0 .. n |->
         IF k = 0 THEN << >>
         ELSE IF l[k].verifier = v /\ l[k].v_type = t THEN u[k - 1]
         ELSE Append(u[k - 1], l[k])]

LEMMA KeepsExists ==
  ASSUME NEW l, NEW v, NEW t, NEW n \in Nat
  PROVE  \E u : Keeps(u, n, l, v, t)
<1> DEFINE S == {m \in Nat : ~ \E u : Keeps(u, m, l, v, t)}
<1>1. SUFFICES ASSUME S # {} PROVE FALSE
  <2>1. n \notin S => \E u : Keeps(u, n, l, v, t)
    OBVIOUS
  <2> QED BY <2>1
<1>2. PICK m \in S : \A i \in S : m <= i
  <2>1. S \in SUBSET Nat
    OBVIOUS
  <2> HIDE DEF S
  <2> QED BY <1>1, <2>1, LeastNatural
<1>3. m \in Nat /\ ~ \E u : Keeps(u, m, l, v, t)
  OBVIOUS
<1>4. CASE m = 0
  <2>1. Keeps([k \in 0 .. 0 |-> << >>], 0, l, v, t)
    BY DEF Keeps
  <2> QED BY <1>3, <1>4, <2>1
<1>5. CASE m # 0
  <2>1. m - 1 \in Nat /\ m - 1 \notin S
    BY <1>2, <1>3, <1>5
  <2>2. PICK h : Keeps(h, m - 1, l, v, t)
    BY <2>1
  <2> DEFINE next(before, k) == IF k = 0 THEN << >>
                                ELSE IF l[k].verifier = v /\ l[k].v_type = t THEN before
                                ELSE Append(before, l[k])
             u == [k \in 0 .. m |-> IF k = m THEN next(h[m - 1], m) ELSE h[k]]
  <2>3. ASSUME NEW k \in 0 .. m
        PROVE  u[k] = next(u[k - 1], k)
    <3>1. CASE k = m
      <4>1. u[k - 1] = h[m - 1] /\ u[k] = next(h[m - 1], m)
        BY <1>3, <1>5, <3>1
      <4> QED BY <3>1, <4>1
    <3>2. CASE k # m
      <4>1. k \in 0 .. (m - 1)
        BY <1>3, <3>2
      <4>2. h[k] = next(h[k - 1], k)
        BY <2>2, <4>1 DEF Keeps
      <4>3. u[k] = h[k]
        BY <1>3, <3>2, <4>1
      <4>4. k # 0 => u[k - 1] = h[k - 1]
        BY <1>3, <3>2, <4>1
      <4> QED BY <4>2, <4>3, <4>4
    <3> QED BY <3>1, <3>2
  <2>4. u = [k \in 0 .. m |-> u[k]]
    OBVIOUS
  <2> HIDE DEF u
  <2>5. Keeps(u, m, l, v, t)
    BY <2>3, <2>4 DEF Keeps
  <2> QED BY <1>3, <2>5
<1> QED BY <1>4, <1>5

(* What the loop leaves of a list: every other record, each still once.    *)
Leaves(o, n, l, v, t) ==
  /\ o \in Seq(Attestation)
  /\ Len(o) <= n
  /\ NoRepeat(o)
  /\ Said(o) = {r \in {l[k] : k \in 1 .. n} : ~ Matches(r, v, t)}

LEMMA KeepsLeaves ==
  ASSUME NEW l \in Seq(Attestation), NoRepeat(l), NEW v, NEW t,
         NEW u, Keeps(u, Len(l), l, v, t)
  PROVE  Leaves(u[Len(l)], Len(l), l, v, t)
<1> DEFINE S == {m \in 0 .. Len(l) : ~ Leaves(u[m], m, l, v, t)}
<1>1. Len(l) \in Nat /\ DOMAIN l = 1 .. Len(l) /\ \A k \in 1 .. Len(l) : l[k] \in Attestation
  OBVIOUS
<1>2. SUFFICES ASSUME S # {} PROVE FALSE
  <2>1. Len(l) \notin S => Leaves(u[Len(l)], Len(l), l, v, t)
    BY <1>1
  <2> QED BY <2>1
<1>3. PICK m \in S : \A i \in S : m <= i
  <2>1. S \in SUBSET Nat
    BY <1>1
  <2> HIDE DEF S
  <2> QED BY <1>2, <2>1, LeastNatural
<1>4. m \in 0 .. Len(l) /\ ~ Leaves(u[m], m, l, v, t)
  OBVIOUS
<1>5. CASE m = 0
  <2>1. u[m] = << >>
    BY <1>1, <1>5 DEF Keeps
  <2>2. Said(u[m]) = {}
    BY <2>1 DEF Said
  <2>3. NoRepeat(u[m])
    BY <2>1 DEF NoRepeat
  <2>4. u[m] \in Seq(Attestation) /\ Len(u[m]) = 0
    BY <2>1, EmptySeq
  <2>5. {l[k] : k \in 1 .. m} = {}
    BY <1>5
  <2> QED BY <1>4, <1>5, <2>2, <2>3, <2>4, <2>5 DEF Leaves
<1>6. CASE m # 0
  <2> DEFINE o == u[m - 1]
  <2>1. m - 1 \in 0 .. Len(l) /\ m - 1 \notin S /\ m \in 1 .. Len(l)
    BY <1>1, <1>3, <1>4, <1>6
  <2>2. Leaves(o, m - 1, l, v, t)
    BY <2>1
  <2>3. u[m] = IF Matches(l[m], v, t) THEN o ELSE Append(o, l[m])
    BY <1>4, <1>6 DEF Keeps, Matches
  <2> HIDE DEF o, S
  <2>4. {l[k] : k \in 1 .. m} = {l[k] : k \in 1 .. (m - 1)} \cup {l[m]}
    <3>1. 1 .. m = (1 .. (m - 1)) \cup {m}
      BY <1>1, <2>1
    <3> QED BY <3>1
  <2>5. CASE Matches(l[m], v, t)
    <3>1. {r \in {l[k] : k \in 1 .. m} : ~ Matches(r, v, t)}
            = {r \in {l[k] : k \in 1 .. (m - 1)} : ~ Matches(r, v, t)}
      BY <2>4, <2>5
    <3>2. Leaves(o, m, l, v, t)
      BY <1>1, <2>1, <2>2, <3>1 DEF Leaves
    <3> QED BY <1>4, <2>3, <2>5, <3>2
  <2>6. CASE ~ Matches(l[m], v, t)
    <3>1. {r \in {l[k] : k \in 1 .. m} : ~ Matches(r, v, t)}
            = {r \in {l[k] : k \in 1 .. (m - 1)} : ~ Matches(r, v, t)} \cup {l[m]}
      BY <2>4, <2>6
    <3>2. o \in Seq(Attestation) /\ l[m] \in Attestation /\ NoRepeat(o)
      BY <1>1, <2>1, <2>2 DEF Leaves
    <3>3. \A s \in Said(o) : ~ SameFact(s, l[m])
      <4> SUFFICES ASSUME NEW s \in Said(o), SameFact(s, l[m]) PROVE FALSE
        OBVIOUS
      <4>1. PICK k \in 1 .. (m - 1) : s = l[k]
        BY <2>2 DEF Leaves
      <4>2. k \in DOMAIN l /\ m \in DOMAIN l /\ k # m
        BY <1>1, <2>1
      <4> QED BY <4>1, <4>2 DEF NoRepeat
    <3>4. /\ Append(o, l[m]) \in Seq(Attestation)
          /\ Len(Append(o, l[m])) = Len(o) + 1
          /\ Said(Append(o, l[m])) = Said(o) \cup {l[m]}
      BY <3>2, AppendSays
    <3>5. NoRepeat(Append(o, l[m]))
      BY <3>2, <3>3, AppendKeepsApart
    <3>6. Len(Append(o, l[m])) <= m
      BY <1>1, <2>1, <2>2, <3>2, <3>4 DEF Leaves
    <3>7. Said(Append(o, l[m])) = {r \in {l[k] : k \in 1 .. m} : ~ Matches(r, v, t)}
      BY <2>2, <3>1, <3>4 DEF Leaves
    <3>8. Leaves(Append(o, l[m]), m, l, v, t)
      BY <3>4, <3>5, <3>6, <3>7 DEF Leaves
    <3> QED BY <1>4, <2>3, <2>6, <3>8
  <2> QED BY <2>5, <2>6
<1> QED BY <1>5, <1>6

(* OthersThan leaves every record but those of the verifier and the fact.  *)
LEMMA OthersLeft ==
  ASSUME attestations \in Seq(Attestation), NoRepeat(attestations), NEW v, NEW t
  PROVE  Leaves(OthersThan(v, t), Len(attestations), attestations, v, t)
<1> DEFINE n == Len(attestations)
           u == CHOOSE u : Keeps(u, n, attestations, v, t)
<1>1. Keeps(u, n, attestations, v, t)
  <2>1. n \in Nat
    OBVIOUS
  <2>2. \E w : Keeps(w, n, attestations, v, t)
    BY <2>1, KeepsExists
  <2> QED BY <2>2
<1>2. OthersThan(v, t) = u[n]
  BY Zenon DEF OthersThan, Keeps
<1> HIDE DEF u
<1>3. Leaves(u[n], n, attestations, v, t)
  BY <1>1, KeepsLeaves
<1> QED BY <1>2, <1>3

-----------------------------------------------------------------------------
(* Records and the verifiers who made them *)

StatusAt(r, n) == IF n > r.valid_until THEN "Expired" ELSE r.status

(* The positions that type_status counts for a status.                     *)
Heard(l, V, n, t, s) ==
  {k \in {i \in DOMAIN l : l[i].v_type = t /\ l[i].verifier \in V} : StatusAt(l[k], n) = s}

(* The trusted verifiers of whom one of the records R has the status.      *)
Voters(R, V, n, t, s) ==
  {v \in V : \E r \in R : Matches(r, v, t) /\ StatusAt(r, n) = s}

(* The arms of type_status                                                 *)
Verdict(rejecting, approving, lapsed, m) ==
  IF rejecting # {} THEN "Rejected"
  ELSE IF Cardinality(approving) >= m THEN "Verified"
  ELSE IF approving = {} /\ lapsed # {} THEN "Expired"
  ELSE "Pending"

VerdictOn(R, V, n, m, t) ==
  Verdict(Voters(R, V, n, t, "Rejected"), Voters(R, V, n, t, "Verified"),
          Voters(R, V, n, t, "Expired"), m)

(* As many records are heard as verifiers hold the status.                 *)
LEMMA HeardAreVoters ==
  ASSUME NEW l \in Seq(Attestation), NoRepeat(l), NEW V, IsFiniteSet(V),
         NEW n, NEW t, NEW s
  PROVE  /\ Cardinality(Heard(l, V, n, t, s)) = Cardinality(Voters(Said(l), V, n, t, s))
         /\ Cardinality(Heard(l, V, n, t, s)) \in Nat
         /\ Heard(l, V, n, t, s) = {} <=> Voters(Said(l), V, n, t, s) = {}
<1> DEFINE H == Heard(l, V, n, t, s)
           W == Voters(Said(l), V, n, t, s)
           f == [k \in H |-> l[k].verifier]
<1>1. IsFiniteSet(H)
  <2>1. IsFiniteSet(1 .. Len(l)) /\ DOMAIN l = 1 .. Len(l)
    BY FS_Interval
  <2>2. H \in SUBSET (1 .. Len(l))
    BY <2>1 DEF Heard
  <2> QED BY <2>1, <2>2, FS_Subset
<1>2. \A k \in H : l[k].verifier \in W
  BY DEF Heard, Voters, Said, Matches
<1>3. \A j, k \in H : l[j].verifier = l[k].verifier => j = k
  BY DEF Heard, NoRepeat, SameFact
<1>4. \A v \in W : \E k \in H : l[k].verifier = v
  <2> SUFFICES ASSUME NEW v \in W PROVE \E k \in H : l[k].verifier = v
    OBVIOUS
  <2>1. PICK r \in Said(l) : Matches(r, v, t) /\ StatusAt(r, n) = s
    BY DEF Voters
  <2>2. PICK k \in DOMAIN l : r = l[k]
    BY DEF Said
  <2>3. v \in V
    BY DEF Voters
  <2>4. k \in H
    BY <2>1, <2>2, <2>3 DEF Heard, Matches
  <2> QED BY <2>1, <2>2, <2>4 DEF Matches
<1> HIDE DEF H, W
<1>5. f \in Bijection(H, W)
  <2>1. f \in Injection(H, W)
    BY <1>2, <1>3 DEF Injection, IsInjective
  <2>2. f \in Surjection(H, W)
    BY <1>2, <1>4 DEF Surjection
  <2> QED BY <2>1, <2>2 DEF Bijection
<1>6. ExistsBijection(H, W)
  BY <1>5 DEF ExistsBijection
<1>7. Cardinality(W) = Cardinality(H)
  BY <1>1, <1>6, FS_Bijection
<1>8. Cardinality(H) \in Nat
  BY <1>1, FS_CardinalityType
<1>9. H = {} <=> W = {}
  BY <1>2, <1>4
<1> QED BY <1>7, <1>8, <1>9 DEF H, W

LEMMA VerdictByVoters ==
  ASSUME NEW l \in Seq(Attestation), NoRepeat(l), NEW V, IsFiniteSet(V),
         NEW n, NEW m, NEW t
  PROVE  Verdict(Heard(l, V, n, t, "Rejected"), Heard(l, V, n, t, "Verified"),
                 Heard(l, V, n, t, "Expired"), m)
           = VerdictOn(Said(l), V, n, m, t)
<1>1. \A s : /\ Cardinality(Heard(l, V, n, t, s)) = Cardinality(Voters(Said(l), V, n, t, s))
             /\ Heard(l, V, n, t, s) = {} <=> Voters(Said(l), V, n, t, s) = {}
  BY HeardAreVoters
<1> QED BY <1>1 DEF Verdict, VerdictOn

(* With one statement of each verifier, type_status is a verdict on the    *)
(* verifiers, whatever the order of the list.                              *)
LEMMA TypeStatusIsVerdict ==
  ASSUME NEW l \in Seq(Attestation), NoRepeat(l), IsFiniteSet(verifiers),
         threshold \in Nat \ {0}, NEW t
  PROVE  TypeStatusOf(l, t) = VerdictOn(Said(l), verifiers, now, threshold, t)
<1>1. \A r : EffectiveStatus(r) = StatusAt(r, now)
  BY DEF EffectiveStatus, StatusAt
<1> DEFINE H(s) == Heard(l, verifiers, now, t, s)
<1>2. TypeStatusOf(l, t) =
        CASE H("Rejected") # {} -> "Rejected"
          [] H("Rejected") = {} /\ Cardinality(H("Verified")) >= threshold -> "Verified"
          [] H("Rejected") = {} /\ H("Verified") = {} /\ H("Expired") # {} -> "Expired"
          [] OTHER -> "Pending"
  BY <1>1 DEF TypeStatusOf, Heard
<1>3. \A S : S = {} => ~ (Cardinality(S) >= threshold)
  <2>1. Cardinality({}) = 0
    BY FS_EmptySet
  <2> QED BY <2>1
<1> HIDE DEF H
<1>4. TypeStatusOf(l, t) = Verdict(H("Rejected"), H("Verified"), H("Expired"), threshold)
  BY <1>2, <1>3 DEF Verdict
<1> QED BY <1>4, VerdictByVoters DEF H

LEMMA TypeStatusIsVerdictNext ==
  ASSUME NEW l \in Seq(Attestation), NoRepeat(l), IsFiniteSet(verifiers'),
         threshold' \in Nat \ {0}, attestations' = l, NEW t
  PROVE  TypeStatus(t)' = VerdictOn(Said(l), verifiers', now', threshold', t)
<1>1. \A r : EffectiveStatus(r)' = StatusAt(r, now')
  BY DEF EffectiveStatus, StatusAt
<1> DEFINE H(s) == Heard(l, verifiers', now', t, s)
<1>2. TypeStatus(t)' =
        CASE H("Rejected") # {} -> "Rejected"
          [] H("Rejected") = {} /\ Cardinality(H("Verified")) >= threshold' -> "Verified"
          [] H("Rejected") = {} /\ H("Verified") = {} /\ H("Expired") # {} -> "Expired"
          [] OTHER -> "Pending"
  BY <1>1 DEF TypeStatus, TypeStatusOf, Heard, EffectiveStatus, StatusAt
<1>3. \A S : S = {} => ~ (Cardinality(S) >= threshold')
  <2>1. Cardinality({}) = 0
    BY FS_EmptySet
  <2> QED BY <2>1
<1> HIDE DEF H
<1>4. TypeStatus(t)' = Verdict(H("Rejected"), H("Verified"), H("Expired"), threshold')
  BY <1>2, <1>3 DEF Verdict
<1> QED BY <1>4, VerdictByVoters DEF H

-----------------------------------------------------------------------------
(* The limit of the list *)

VerInv ==
  /\ VerTypeOK
  /\ OneStatementEach
  /\ Len(attestations) <= MaxAttestations

LEMMA OneStatementIsNoRepeat == OneStatementEach <=> NoRepeat(attestations)
BY DEF OneStatementEach, NoRepeat, SameFact

LEMMA TimesGrows ==
  ASSUME NEW a \in Nat, NEW b \in Nat, NEW c \in Nat, a <= b
  PROVE  a * c <= b * c
<1> DEFINE d == b - a
           x == a * c
           y == d * c
<1>1. d \in Nat /\ b = a + d
  OBVIOUS
<1>2. y \in Nat /\ x \in Nat
  <2>1. \A p, q \in Nat : p * q \in Nat
    OBVIOUS
  <2> HIDE DEF d
  <2> QED BY <1>1, <2>1
<1>3. b * c = x + y
  <2> HIDE DEF d
  <2> QED BY <1>1
<1> HIDE DEF d, x, y
<1>4. x <= x + y
  BY <1>2
<1> QED BY <1>3, <1>4 DEF x

(* Trusted verifiers alone never fill the list while one of them has not   *)
(* spoken to a fact: there are too few pairs of a verifier and a fact.     *)
LEMMA TrustedNeverFill ==
  ASSUME NEW o \in Seq(Attestation), NoRepeat(o),
         NEW V, IsFiniteSet(V), Cardinality(V) <= MaxVerifiers,
         NEW v \in V, NEW t \in Types,
         \A r \in Said(o) : r.verifier \in V /\ ~ Matches(r, v, t)
  PROVE  Len(o) < MaxAttestations
<1> DEFINE pairs == V \X Types
           free == pairs \ {<<v, t>>}
           places == 1 .. Len(o)
           f == [k \in places |-> <<o[k].verifier, o[k].v_type>>]
<1>1. Len(o) \in Nat /\ DOMAIN o = places /\ \A k \in places : o[k] \in Attestation
  OBVIOUS
<1>2. /\ IsFiniteSet(pairs)
      /\ Cardinality(pairs) = Cardinality(V) * Cardinality(Types)
  BY FS_Product, VerificationAssumption
<1>3. /\ IsFiniteSet(free)
      /\ Cardinality(free) = Cardinality(pairs) - 1
  <2>1. <<v, t>> \in pairs
    OBVIOUS
  <2> HIDE DEF pairs
  <2> QED BY <1>2, <2>1, FS_RemoveElement
<1>4. f \in Injection(places, free)
  <2>1. \A k \in places : o[k] \in Said(o)
    BY <1>1 DEF Said
  <2>2. \A k \in places : <<o[k].verifier, o[k].v_type>> \in free
    <3> SUFFICES ASSUME NEW k \in places
                 PROVE  <<o[k].verifier, o[k].v_type>> \in free
      OBVIOUS
    <3>1. o[k].verifier \in V /\ ~ Matches(o[k], v, t)
      BY <2>1
    <3>2. o[k].v_type \in Types
      BY <1>1 DEF Attestation
    <3> QED BY <3>1, <3>2 DEF Matches
  <2>3. \A j, k \in places :
          <<o[j].verifier, o[j].v_type>> = <<o[k].verifier, o[k].v_type>> => j = k
    BY <1>1 DEF NoRepeat, SameFact
  <2> HIDE DEF free, places
  <2> QED BY <2>2, <2>3 DEF Injection, IsInjective
<1>5. Cardinality(places) = Len(o)
  BY <1>1, FS_Interval
<1>6. Cardinality(places) <= Cardinality(free)
  <2> HIDE DEF places, free, f
  <2> QED BY <1>3, <1>4, FS_Injection
<1>7. Cardinality(V) \in Nat /\ Cardinality(Types) \in Nat
  BY FS_CardinalityType, VerificationAssumption
<1>8. Cardinality(V) * Cardinality(Types) <= MaxVerifiers * Cardinality(Types)
  BY <1>7, TimesGrows, VerificationAssumption
<1> DEFINE used == Cardinality(V) * Cardinality(Types)
           limit == MaxVerifiers * Cardinality(Types)
<1>9. used \in Nat /\ limit \in Nat
  <2>1. \A p, q \in Nat : p * q \in Nat
    OBVIOUS
  <2> QED BY <1>7, <2>1, VerificationAssumption
<1>10. used <= limit /\ limit <= MaxAttestations /\ Cardinality(pairs) = used
  BY <1>2, <1>8, VerificationAssumption
<1> HIDE DEF used, limit, pairs, free, places
<1> QED BY <1>1, <1>3, <1>5, <1>6, <1>9, <1>10, VerificationAssumption

LEMMA MinOf ==
  ASSUME NEW S \in SUBSET Nat, S # {}
  PROVE  Min(S) \in S
<1>1. \E x \in S : \A y \in S : x <= y
  BY LeastNatural
<1> QED BY <1>1 DEF Min

(* The record evict_one_slot takes out is of a verifier nobody hears, and  *)
(* there is one whenever the list is full.                                 *)
LEMMA FullHasDeparted ==
  ASSUME VerInv, NEW v \in verifiers, NEW t \in Types,
         Len(OthersThan(v, t)) >= MaxAttestations
  PROVE  /\ Evictable(OthersThan(v, t))
              = {k \in DOMAIN OthersThan(v, t) : OthersThan(v, t)[k].verifier \notin verifiers}
         /\ Evictable(OthersThan(v, t)) # {}
<1> DEFINE o == OthersThan(v, t)
           departed == {k \in DOMAIN o : o[k].verifier \notin verifiers}
<1>1. Leaves(o, Len(attestations), attestations, v, t)
  BY OthersLeft, OneStatementIsNoRepeat DEF VerInv, VerTypeOK
<1>2. o \in Seq(Attestation) /\ NoRepeat(o) /\ \A r \in Said(o) : ~ Matches(r, v, t)
  BY <1>1 DEF Leaves
<1>3. departed # {}
  <2> SUFFICES ASSUME departed = {} PROVE FALSE
    OBVIOUS
  <2>1. \A k \in DOMAIN o : o[k].verifier \in verifiers
    OBVIOUS
  <2>2. \A r \in Said(o) : r.verifier \in verifiers
    BY <2>1 DEF Said
  <2>3. IsFiniteSet(verifiers) /\ Cardinality(verifiers) <= MaxVerifiers
    BY DEF VerInv, VerTypeOK
  <2> HIDE DEF o
  <2>4. Len(o) < MaxAttestations
    BY <1>2, <2>2, <2>3, TrustedNeverFill
  <2> QED BY <1>2, <2>4, VerificationAssumption DEF o
<1> QED BY <1>3 DEF Evictable

(* What attest makes of the list: the other statements, less perhaps one   *)
(* that nobody hears, and the new one.                                     *)
Attested(kept, v, t, approved) ==
  /\ kept \in Seq(Attestation)
  /\ NoRepeat(kept)
  /\ Len(kept) < MaxAttestations
  /\ Said(kept) \subseteq Said(OthersThan(v, t))
  /\ \A r \in Said(OthersThan(v, t)) \ Said(kept) : r.verifier \notin verifiers
  /\ attestations' = Append(kept, NewAttestation(v, t, approved))

LEMMA AttestMakes ==
  ASSUME VerInv, NEW v \in Verifiers, NEW t \in Types, NEW approved \in BOOLEAN,
         Attest(v, t, approved)
  PROVE  \E kept : Attested(kept, v, t, approved)
<1> DEFINE o == OthersThan(v, t)
           i == Min(Evictable(o))
<1>1. Leaves(o, Len(attestations), attestations, v, t)
  BY OthersLeft, OneStatementIsNoRepeat DEF VerInv, VerTypeOK
<1>2. o \in Seq(Attestation) /\ NoRepeat(o) /\ Len(o) <= Len(attestations)
  BY <1>1 DEF Leaves
<1>3. Len(o) <= MaxAttestations /\ Len(o) \in Nat
  <2>1. Len(attestations) \in Nat /\ Len(attestations) <= MaxAttestations
    BY DEF VerInv, VerTypeOK
  <2> QED BY <1>2, <2>1, VerificationAssumption
<1>4. CASE Len(o) >= MaxAttestations
  <2>1. v \in verifiers
    BY DEF Attest
  <2>2. /\ Evictable(o) = {k \in DOMAIN o : o[k].verifier \notin verifiers}
        /\ Evictable(o) # {}
    BY <1>4, <2>1, FullHasDeparted
  <2>3. Evictable(o) \in SUBSET Nat
    BY <1>2, <2>2
  <2>4. i \in DOMAIN o /\ o[i].verifier \notin verifiers
    <3> HIDE DEF o
    <3>1. i \in Evictable(o)
      BY <2>2, <2>3, MinOf
    <3> QED BY <2>2, <3>1
  <2>5. attestations' = Append(RemoveAt(o, i), NewAttestation(v, t, approved))
    BY <1>4 DEF Attest, EvictOneSlot
  <2> HIDE DEF o, i
  <2>6. /\ RemoveAt(o, i) \in Seq(Attestation)
        /\ Len(RemoveAt(o, i)) = Len(o) - 1
        /\ Said(RemoveAt(o, i)) = Said(o) \ {o[i]}
        /\ NoRepeat(RemoveAt(o, i))
    BY <1>2, <2>4, RemoveAtSays
  <2>7. Len(RemoveAt(o, i)) < MaxAttestations
    BY <1>3, <2>6, VerificationAssumption
  <2>8. Attested(RemoveAt(o, i), v, t, approved)
    BY <2>4, <2>5, <2>6, <2>7 DEF Attested, o
  <2> QED BY <2>8
<1>5. CASE ~ (Len(o) >= MaxAttestations)
  <2>1. attestations' = Append(o, NewAttestation(v, t, approved))
    BY <1>5 DEF Attest
  <2>2. Len(o) < MaxAttestations
    BY <1>3, <1>5, VerificationAssumption
  <2>3. Attested(o, v, t, approved)
    BY <1>2, <2>1, <2>2 DEF Attested
  <2> QED BY <2>3
<1> QED BY <1>4, <1>5

LEMMA NewIsAttestation ==
  ASSUME VerTypeOK, NEW v \in Verifiers, NEW t \in Types, NEW approved \in BOOLEAN
  PROVE  /\ NewAttestation(v, t, approved) \in Attestation
         /\ NewAttestation(v, t, approved).verifier = v
         /\ NewAttestation(v, t, approved).v_type = t
<1>1. now + validity \in Nat
  BY VerificationAssumption DEF VerTypeOK
<1> QED BY <1>1 DEF NewAttestation, Attestation, VerificationStatuses

(* No statement of the verifier about the fact is among the others.        *)
LEMMA OthersAreOther ==
  ASSUME VerInv, NEW v \in Verifiers, NEW t \in Types, NEW approved \in BOOLEAN
  PROVE  \A s \in Said(OthersThan(v, t)) : ~ SameFact(s, NewAttestation(v, t, approved))
<1>1. Leaves(OthersThan(v, t), Len(attestations), attestations, v, t)
  BY OthersLeft, OneStatementIsNoRepeat DEF VerInv, VerTypeOK
<1>2. \A s \in Said(OthersThan(v, t)) : ~ Matches(s, v, t)
  BY <1>1 DEF Leaves
<1> QED BY <1>2, NewIsAttestation DEF VerInv, SameFact, Matches

-----------------------------------------------------------------------------
(* The invariant *)

LEMMA VerInvInit == VerInit => VerInv
<1> SUFFICES ASSUME VerInit PROVE VerInv
  OBVIOUS
<1>1. attestations = << >> /\ verifiers = {}
  BY DEF VerInit
<1>2. attestations \in Seq(Attestation) /\ Len(attestations) = 0
  BY <1>1, EmptySeq
<1>3. OneStatementEach
  BY <1>1 DEF OneStatementEach
<1>4. IsFiniteSet(verifiers) /\ Cardinality(verifiers) = 0
  BY <1>1, FS_EmptySet
<1>5. VerTypeOK
  <2>1. now \in 0 .. MaxTime /\ validity \in Nat /\ threshold \in Nat \ {0}
    BY VerificationAssumption DEF VerInit
  <2>2. Cardinality(verifiers) <= MaxVerifiers
    BY <1>4, VerificationAssumption
  <2>3. verifiers \subseteq Verifiers
    BY <1>1
  <2>4. paused \in BOOLEAN /\ attestable \in BOOLEAN
    BY DEF VerInit
  <2> QED BY <1>2, <1>4, <2>1, <2>2, <2>3, <2>4 DEF VerTypeOK
<1> QED BY <1>2, <1>3, <1>5, VerificationAssumption DEF VerInv

LEMMA AttestKeeps ==
  ASSUME VerInv, NEW v \in Verifiers, NEW t \in Types, NEW approved \in BOOLEAN,
         Attest(v, t, approved)
  PROVE  VerInv'
<1> DEFINE new == NewAttestation(v, t, approved)
<1>1. PICK kept : Attested(kept, v, t, approved)
  BY AttestMakes
<1>2. new \in Attestation
  BY NewIsAttestation DEF VerInv
<1>3. \A s \in Said(kept) : ~ SameFact(s, new)
  BY <1>1, OthersAreOther DEF Attested
<1> HIDE DEF new
<1>4. kept \in Seq(Attestation) /\ NoRepeat(kept) /\ Len(kept) < MaxAttestations
  BY <1>1 DEF Attested
<1>5. attestations' = Append(kept, new)
  BY <1>1 DEF Attested, new
<1>6. /\ attestations' \in Seq(Attestation)
      /\ Len(attestations') = Len(kept) + 1
  BY <1>2, <1>4, <1>5, AppendSays
<1>7. NoRepeat(attestations')
  BY <1>2, <1>3, <1>4, <1>5, AppendKeepsApart
<1>8. OneStatementEach'
  BY <1>7 DEF OneStatementEach, NoRepeat, SameFact
<1>9. Len(attestations') <= MaxAttestations
  BY <1>4, <1>6, VerificationAssumption
<1>10. VerTypeOK'
  BY <1>6 DEF Attest, VerInv, VerTypeOK, configVars
<1> QED BY <1>8, <1>9, <1>10 DEF VerInv

(* The poke leaves every record in its place, of the same verifier and the *)
(* same fact.                                                              *)
LEMMA PokeKeepsPlaces ==
  ASSUME VerInv, ExpireVerifications
  PROVE  /\ attestations' \in Seq(Attestation)
         /\ Len(attestations') = Len(attestations)
         /\ DOMAIN attestations' = DOMAIN attestations
         /\ \A k \in DOMAIN attestations :
              /\ attestations'[k].verifier = attestations[k].verifier
              /\ attestations'[k].v_type = attestations[k].v_type
              /\ attestations'[k].valid_until = attestations[k].valid_until
              /\ attestations'[k].status = EffectiveStatus(attestations[k])
<1> DEFINE n == Len(attestations)
           poked(r) == [r EXCEPT !.status = EffectiveStatus(r)]
<1>1. attestations \in Seq(Attestation) /\ n \in Nat /\ DOMAIN attestations = 1 .. n
  BY DEF VerInv, VerTypeOK
<1>2. \A r \in Attestation :
        /\ poked(r) \in Attestation
        /\ poked(r).verifier = r.verifier
        /\ poked(r).v_type = r.v_type
        /\ poked(r).valid_until = r.valid_until
        /\ poked(r).status = EffectiveStatus(r)
  BY DEF Attestation, EffectiveStatus, VerificationStatuses
<1>3. attestations' = [k \in 1 .. n |-> poked(attestations[k])]
  BY <1>1 DEF ExpireVerifications
<1>4. \A k \in 1 .. n : attestations[k] \in Attestation
  BY <1>1
<1> HIDE DEF poked
<1>5. attestations' \in [1 .. n -> Attestation]
  BY <1>2, <1>3, <1>4
<1>6. attestations' \in Seq(Attestation) /\ Len(attestations') = n
  BY <1>1, <1>3, <1>5
<1> QED BY <1>1, <1>2, <1>3, <1>4, <1>6

LEMMA PokeKeeps ==
  ASSUME VerInv, ExpireVerifications
  PROVE  VerInv'
<1>1. VerTypeOK'
  BY PokeKeepsPlaces DEF ExpireVerifications, VerInv, VerTypeOK, configVars
<1>2. OneStatementEach'
  BY PokeKeepsPlaces DEF VerInv, OneStatementEach
<1>3. Len(attestations') <= MaxAttestations
  BY PokeKeepsPlaces DEF VerInv
<1> QED BY <1>1, <1>2, <1>3 DEF VerInv

(* Nothing else touches the attestations.                                  *)
LEMMA ConfigurationKeeps ==
  ASSUME VerInv, UNCHANGED attestations, VerTypeOK'
  PROVE  VerInv'
BY DEF VerInv, OneStatementEach

LEMMA VerInvNext == VerInv /\ [VerNext]_verVars => VerInv'
<1> SUFFICES ASSUME VerInv, [VerNext]_verVars PROVE VerInv'
  OBVIOUS
<1>1. VerTypeOK
  BY DEF VerInv
<1>2. CASE Tick
  <2>1. now' \in 0 .. MaxTime
    BY <1>1, <1>2, VerificationAssumption DEF Tick, VerTypeOK
  <2>2. VerTypeOK'
    BY <1>1, <1>2, <2>1 DEF Tick, VerTypeOK, configVars
  <2> QED BY <1>2, <2>2, ConfigurationKeeps DEF Tick
<1>3. CASE InvoiceMoves
  <2>1. VerTypeOK'
    BY <1>1, <1>3 DEF InvoiceMoves, VerTypeOK, configVars
  <2> QED BY <1>3, <2>1, ConfigurationKeeps DEF InvoiceMoves
<1>4. CASE ExpireVerifications
  BY <1>4, PokeKeeps
<1>5. ASSUME NEW flag \in BOOLEAN, SetPaused(flag) PROVE VerInv'
  <2>1. VerTypeOK'
    BY <1>1, <1>5 DEF SetPaused, VerTypeOK, configVars
  <2> QED BY <1>5, <2>1, ConfigurationKeeps DEF SetPaused
<1>6. ASSUME NEW v \in Verifiers, AddVerifier(v) PROVE VerInv'
  <2>1. /\ IsFiniteSet(verifiers \cup {v})
        /\ Cardinality(verifiers \cup {v}) =
             IF v \in verifiers THEN Cardinality(verifiers) ELSE Cardinality(verifiers) + 1
    BY <1>1, FS_AddElement DEF VerTypeOK
  <2>2. Cardinality(verifiers) \in Nat
    BY <1>1, FS_CardinalityType DEF VerTypeOK
  <2>3. Cardinality(verifiers \cup {v}) <= MaxVerifiers
    BY <1>1, <1>6, <2>1, <2>2, VerificationAssumption DEF AddVerifier, VerTypeOK
  <2>4. VerTypeOK'
    BY <1>1, <1>6, <2>1, <2>3 DEF AddVerifier, VerTypeOK
  <2> QED BY <1>6, <2>4, ConfigurationKeeps DEF AddVerifier
<1>7. ASSUME NEW v \in Verifiers, RemoveVerifier(v) PROVE VerInv'
  <2>1. /\ IsFiniteSet(verifiers \ {v})
        /\ Cardinality(verifiers \ {v}) =
             IF v \in verifiers THEN Cardinality(verifiers) - 1 ELSE Cardinality(verifiers)
    BY <1>1, FS_RemoveElement DEF VerTypeOK
  <2>2. Cardinality(verifiers) \in Nat
    BY <1>1, FS_CardinalityType DEF VerTypeOK
  <2>3. Cardinality(verifiers \ {v}) <= MaxVerifiers
    BY <1>1, <2>1, <2>2, VerificationAssumption DEF VerTypeOK
  <2>4. VerTypeOK'
    BY <1>1, <1>7, <2>1, <2>3 DEF RemoveVerifier, VerTypeOK
  <2> QED BY <1>7, <2>4, ConfigurationKeeps DEF RemoveVerifier
<1>8. ASSUME NEW v \in Verifiers, NEW t \in Types, NEW approved \in BOOLEAN,
             Attest(v, t, approved)
      PROVE  VerInv'
  BY <1>8, AttestKeeps
<1>9. ASSUME NEW m \in Thresholds, SetVerifierThreshold(m) PROVE VerInv'
  <2>1. m \in Nat \ {0}
    BY <1>9, VerificationAssumption DEF SetVerifierThreshold
  <2>2. VerTypeOK'
    BY <1>1, <1>9, <2>1 DEF SetVerifierThreshold, VerTypeOK
  <2> QED BY <1>9, <2>2, ConfigurationKeeps DEF SetVerifierThreshold
<1>10. ASSUME NEW secs \in Validities, SetAttestationValidity(secs) PROVE VerInv'
  <2>1. VerTypeOK'
    BY <1>1, <1>10, VerificationAssumption DEF SetAttestationValidity, VerTypeOK
  <2> QED BY <1>10, <2>1, ConfigurationKeeps DEF SetAttestationValidity
<1>11. CASE UNCHANGED verVars
  <2>1. VerTypeOK'
    BY <1>1, <1>11 DEF VerTypeOK, verVars, configVars
  <2> QED BY <1>11, <2>1, ConfigurationKeeps DEF verVars
<1> QED
  BY <1>2, <1>3, <1>4, <1>5, <1>6, <1>7, <1>8, <1>9, <1>10, <1>11 DEF VerNext

LEMMA VerInvAlways == VerSpec => []VerInv
BY VerInvInit, VerInvNext, PTL DEF VerSpec

-----------------------------------------------------------------------------
(* The theorems *)

(* A verdict, as type_status counts it over the records, is a verdict of   *)
(* verifiers: Verified takes a threshold of distinct trusted ones with a   *)
(* live approval each and no live rejection; and no list outgrows its      *)
(* limit.                                                                  *)
THEOREM VerdictsNeedQuorum == VerSpec => []VerdictNeedsQuorum
<1> SUFFICES VerInv => VerdictNeedsQuorum
  BY VerInvAlways, PTL
<1> SUFFICES ASSUME VerInv PROVE VerdictNeedsQuorum
  OBVIOUS
<1>1. /\ attestations \in Seq(Attestation)
      /\ NoRepeat(attestations)
      /\ IsFiniteSet(verifiers)
      /\ threshold \in Nat \ {0}
      /\ now \in Nat
  BY OneStatementIsNoRepeat DEF VerInv, VerTypeOK
<1> DEFINE live(v, t, s) == \E k \in DOMAIN attestations :
             /\ attestations[k].verifier = v
             /\ attestations[k].v_type = t
             /\ attestations[k].status = s
             /\ now <= attestations[k].valid_until
           verified(t) == /\ \A v \in verifiers : ~live(v, t, "Rejected")
                          /\ Cardinality({v \in verifiers : live(v, t, "Verified")}) >= threshold
           voters(t, s) == Voters(Said(attestations), verifiers, now, t, s)
<1>2. ASSUME NEW t, NEW s \in {"Verified", "Rejected"}
      PROVE  voters(t, s) = {v \in verifiers : live(v, t, s)}
  <2>1. \A k \in DOMAIN attestations :
          StatusAt(attestations[k], now) = s <=>
            attestations[k].status = s /\ now <= attestations[k].valid_until
    <3> SUFFICES ASSUME NEW k \in DOMAIN attestations
                 PROVE  StatusAt(attestations[k], now) = s <=>
                          attestations[k].status = s /\ now <= attestations[k].valid_until
      OBVIOUS
    <3>1. attestations[k] \in Attestation
      BY <1>1
    <3>2. attestations[k].valid_until \in Nat
      BY <3>1 DEF Attestation
    <3> QED BY <1>1, <3>2 DEF StatusAt
  <2>2. \A v : live(v, t, s) <=>
          \E r \in Said(attestations) : Matches(r, v, t) /\ StatusAt(r, now) = s
    BY <2>1 DEF Said, Matches
  <2> HIDE DEF live
  <2> QED BY <2>2 DEF Voters
<1>3. ASSUME NEW t
      PROVE  TypeStatus(t) = "Verified" <=> verified(t)
  <2>1. TypeStatus(t) = VerdictOn(Said(attestations), verifiers, now, threshold, t)
    BY <1>1, TypeStatusIsVerdict DEF TypeStatus
  <2>2. TypeStatus(t) = Verdict(voters(t, "Rejected"), voters(t, "Verified"),
                                voters(t, "Expired"), threshold)
    BY <2>1 DEF VerdictOn
  <2>3. TypeStatus(t) = "Verified" <=>
          voters(t, "Rejected") = {} /\ Cardinality(voters(t, "Verified")) >= threshold
    BY <2>2 DEF Verdict
  <2>4. voters(t, "Rejected") = {v \in verifiers : live(v, t, "Rejected")}
    BY <1>2
  <2>5. voters(t, "Verified") = {v \in verifiers : live(v, t, "Verified")}
    BY <1>2
  <2>6. voters(t, "Rejected") = {} <=> \A v \in verifiers : ~ live(v, t, "Rejected")
    <3> HIDE DEF live, voters
    <3> QED BY <2>4
  <2> HIDE DEF live, voters
  <2> QED BY <2>3, <2>5, <2>6
<1>4. (InvoiceVerificationStatus = "Verified") <=> \A t \in Types : TypeStatus(t) = "Verified"
  <2> DEFINE said == {TypeStatus(t) : t \in Types}
  <2>1. InvoiceVerificationStatus = "Verified" <=> said = {"Verified"}
    <3> DEFINE S == {TypeStatus(t) : t \in Types}
    <3>1. InvoiceVerificationStatus =
            CASE "Rejected" \in S -> "Rejected"
              [] S = {"Verified"} -> "Verified"
              [] "Rejected" \notin S /\ "Expired" \in S -> "Expired"
              [] OTHER -> "Pending"
      BY DEF InvoiceVerificationStatus
    <3> HIDE DEF S
    <3>2. S = {"Verified"} => "Rejected" \notin S /\ "Expired" \notin S
      OBVIOUS
    <3>3. InvoiceVerificationStatus = "Verified" <=> S = {"Verified"}
      BY <3>1, <3>2
    <3> QED BY <3>3 DEF S
  <2>2. said = {"Verified"} <=> \A t \in Types : TypeStatus(t) = "Verified"
    BY VerificationAssumption
  <2> HIDE DEF said
  <2> QED BY <2>1, <2>2
<1>5. Len(attestations) <= MaxAttestations
  BY DEF VerInv
<1>6. (InvoiceVerificationStatus = "Verified") <=> \A t \in Types : verified(t)
  <2> HIDE DEF verified
  <2> QED BY <1>3, <1>4
<1> QED BY <1>3, <1>5, <1>6 DEF VerdictNeedsQuorum

(* An attestation moves its own fact as if the list had no limit and no    *)
(* other: the record a full list gives up is of a verifier nobody hears.   *)
THEOREM EvictionsAreSilent == VerSpec => EvictionIsSilent
<1> DEFINE silent ==
      \A v \in Verifiers, t \in Types, approved \in BOOLEAN :
        Attest(v, t, approved) =>
          LET unbounded == Append(OthersThan(v, t), NewAttestation(v, t, approved))
          IN \A u \in Types : TypeStatus(u)' = TypeStatusOf(unbounded, u)
<1>1. ASSUME VerInv, VerInv' PROVE silent
  <2> SUFFICES ASSUME NEW v \in Verifiers, NEW t \in Types, NEW approved \in BOOLEAN,
                      Attest(v, t, approved), NEW u \in Types
               PROVE  TypeStatus(u)' =
                        TypeStatusOf(Append(OthersThan(v, t), NewAttestation(v, t, approved)), u)
    OBVIOUS
  <2> DEFINE o == OthersThan(v, t)
             new == NewAttestation(v, t, approved)
  <2>1. PICK kept : Attested(kept, v, t, approved)
    BY <1>1, AttestMakes
  <2>2. Leaves(o, Len(attestations), attestations, v, t)
    BY <1>1, OthersLeft, OneStatementIsNoRepeat DEF VerInv, VerTypeOK
  <2>3. new \in Attestation
    BY <1>1, NewIsAttestation DEF VerInv
  <2>4. \A s \in Said(o) : ~ SameFact(s, new)
    BY <1>1, OthersAreOther
  <2>5. o \in Seq(Attestation) /\ NoRepeat(o)
    BY <2>2 DEF Leaves
  <2>6. /\ kept \in Seq(Attestation) /\ NoRepeat(kept)
        /\ Said(kept) \subseteq Said(o)
        /\ \A r \in Said(o) \ Said(kept) : r.verifier \notin verifiers
        /\ attestations' = Append(kept, new)
    BY <2>1 DEF Attested
  <2>7. /\ verifiers' = verifiers /\ threshold' = threshold /\ now' = now
        /\ IsFiniteSet(verifiers) /\ threshold \in Nat \ {0}
    BY <1>1 DEF Attest, configVars, VerInv, VerTypeOK
  <2> HIDE DEF o, new
  <2>8. /\ Append(kept, new) \in Seq(Attestation)
        /\ Said(Append(kept, new)) = Said(kept) \cup {new}
        /\ NoRepeat(Append(kept, new))
    BY <2>3, <2>4, <2>6, AppendSays, AppendKeepsApart
  <2>9. /\ Append(o, new) \in Seq(Attestation)
        /\ Said(Append(o, new)) = Said(o) \cup {new}
        /\ NoRepeat(Append(o, new))
    BY <2>3, <2>4, <2>5, AppendSays, AppendKeepsApart
  <2>10. TypeStatus(u)' = VerdictOn(Said(Append(kept, new)), verifiers, now, threshold, u)
    BY <2>6, <2>7, <2>8, TypeStatusIsVerdictNext
  <2>11. TypeStatusOf(Append(o, new), u)
           = VerdictOn(Said(Append(o, new)), verifiers, now, threshold, u)
    BY <2>7, <2>9, TypeStatusIsVerdict
  <2>12. \A s : Voters(Said(Append(kept, new)), verifiers, now, u, s)
                  = Voters(Said(Append(o, new)), verifiers, now, u, s)
    BY <2>6, <2>8, <2>9 DEF Voters, Matches
  <2>13. TypeStatus(u)' = TypeStatusOf(Append(o, new), u)
    BY <2>10, <2>11, <2>12 DEF VerdictOn
  <2> QED BY <2>13 DEF o, new
<1>2. VerInv /\ VerInv' /\ [VerNext]_verVars => [silent]_verVars
  <2> HIDE DEF silent
  <2> QED BY <1>1
<1>3. VerSpec => [][silent]_verVars
  <2> HIDE DEF silent
  <2> QED BY <1>2, VerInvAlways, PTL DEF VerSpec
<1> QED BY <1>3 DEF EvictionIsSilent

(* The keeper's poke changes no status: what it writes down is what the    *)
(* clock already said, and it says the same again of what it wrote.        *)
THEOREM PokesAreUnobservable == VerSpec => PokeIsUnobservable
<1> DEFINE unseen == ExpireVerifications =>
             /\ \A t \in Types : TypeStatus(t)' = TypeStatus(t)
             /\ InvoiceVerificationStatus' = InvoiceVerificationStatus
<1>1. ASSUME VerInv PROVE unseen
  <2> SUFFICES ASSUME ExpireVerifications
               PROVE  /\ \A t \in Types : TypeStatus(t)' = TypeStatus(t)
                      /\ InvoiceVerificationStatus' = InvoiceVerificationStatus
    OBVIOUS
  <2>1. verifiers' = verifiers /\ threshold' = threshold /\ now' = now
    BY DEF ExpireVerifications, configVars
  <2>2. /\ DOMAIN attestations' = DOMAIN attestations
        /\ \A k \in DOMAIN attestations :
             /\ attestations'[k].verifier = attestations[k].verifier
             /\ attestations'[k].v_type = attestations[k].v_type
             /\ attestations'[k].valid_until = attestations[k].valid_until
             /\ attestations'[k].status = StatusAt(attestations[k], now)
    BY <1>1, PokeKeepsPlaces DEF EffectiveStatus, StatusAt
  <2>3. \A k \in DOMAIN attestations :
          StatusAt(attestations'[k], now) = StatusAt(attestations[k], now)
    BY <2>2 DEF StatusAt
  <2>4. \A r : EffectiveStatus(r) = StatusAt(r, now) /\ EffectiveStatus(r)' = StatusAt(r, now')
    BY DEF EffectiveStatus, StatusAt
  <2>5. \A t, s : Heard(attestations', verifiers, now, t, s)
                    = Heard(attestations, verifiers, now, t, s)
    BY <2>2, <2>3 DEF Heard
  <2>6. ASSUME NEW t PROVE TypeStatus(t)' = TypeStatus(t)
    <3> DEFINE H(s) == Heard(attestations, verifiers, now, t, s)
               arms(R, A, E) == CASE R # {} -> "Rejected"
                   [] R = {} /\ Cardinality(A) >= threshold -> "Verified"
                   [] R = {} /\ A = {} /\ E # {} -> "Expired"
                   [] OTHER -> "Pending"
    <3>1. TypeStatus(t) = arms(H("Rejected"), H("Verified"), H("Expired"))
      BY <2>4 DEF TypeStatus, TypeStatusOf, Heard
    <3>2. TypeStatus(t)' = arms(Heard(attestations', verifiers, now, t, "Rejected"),
                                Heard(attestations', verifiers, now, t, "Verified"),
                                Heard(attestations', verifiers, now, t, "Expired"))
      BY <2>1, <2>4 DEF TypeStatus, TypeStatusOf, Heard, EffectiveStatus, StatusAt
    <3> HIDE DEF arms
    <3> QED BY <2>5, <3>1, <3>2
  <2>7. InvoiceVerificationStatus' = InvoiceVerificationStatus
    BY <2>6 DEF InvoiceVerificationStatus
  <2> QED BY <2>6, <2>7
<1>2. VerInv /\ [VerNext]_verVars => [unseen]_verVars
  <2> HIDE DEF unseen
  <2> QED BY <1>1
<1>3. VerSpec => [][unseen]_verVars
  <2> HIDE DEF unseen
  <2> QED BY <1>2, VerInvAlways, PTL DEF VerSpec
<1> QED BY <1>3 DEF PokeIsUnobservable

(* A trusted verifier finds room: a list that is full but for what he said *)
(* before has a record of a verifier no longer trusted.                    *)
THEOREM TrustedFindRoom == VerSpec => []AlwaysRoom
<1>1. VerInv => AlwaysRoom
  <2> SUFFICES ASSUME VerInv, NEW v \in verifiers, NEW t \in Types,
                      Len(OthersThan(v, t)) >= MaxAttestations
               PROVE  \E k \in DOMAIN OthersThan(v, t) :
                        OthersThan(v, t)[k].verifier \notin verifiers
    BY DEF AlwaysRoom
  <2> QED BY FullHasDeparted
<1> QED BY <1>1, VerInvAlways, PTL
=============================================================================
