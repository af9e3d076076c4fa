------------------------------ MODULE SequenceLemmas -----------------------------
(***************************************************************************)
(* What the proofs need of numbers, finite sets and the operators of the   *)
(* community modules on sequences.  Library theorems about induction take  *)
(* an operator, which these provers cannot instantiate, so an induction is *)
(* a search for the least counterexample (LeastExists).                    *)
(***************************************************************************)
EXTENDS Integers, SequencesExt, FiniteSetsExt, FiniteSetTheorems, SequenceTheorems, TLAPS

\* A nonempty set of natural numbers has a least element; the lemmas about
\* first matches rest on it.
LEMMA LeastExists ==
  ASSUME NEW T \in SUBSET Nat, T # {}
  PROVE  \E k \in T : \A j \in T : k <= j
<1> DEFINE R == {ss \in Nat \X Nat : ss[1] < ss[2]}
<1>1. IsWellFoundedOn(R, Nat)
  BY NatLessThanWellFounded DEF OpToRel
<1> HIDE DEF R
<1>2. PICK k \in T : \A j \in T : ~ (<<j, k>> \in R)
  BY <1>1, WFMin
<1>3. \A j \in T : ~ (j < k)
  BY <1>2 DEF R
<1>4. QED BY <1>3

\* The least element of a nonempty set of positions is one of them.
LEMMA MinIsIn ==
  ASSUME NEW T \in SUBSET Nat, T # {}
  PROVE  Min(T) \in T /\ \A j \in T : Min(T) <= j
BY LeastExists DEF Min

\* A nonempty set of positions has a greatest element.
LEMMA GreatestExists ==
  ASSUME NEW n \in Nat, NEW T \in SUBSET (1..n), T # {}
  PROVE  \E k \in T : \A j \in T : j <= k
<1> DEFINE R == {n - k : k \in T}
<1>1. R \in SUBSET Nat /\ R # {}
  <2>1. \A k \in T : n - k \in Nat
    OBVIOUS
  <2>2. R \in SUBSET Nat
    BY <2>1
  <2>3. R # {}
    OBVIOUS
  <2>4. QED BY <2>2, <2>3
<1>2. PICK r \in R : \A x \in R : r <= x
  BY <1>1, LeastExists
<1>3. PICK k \in T : r = n - k
  BY <1>2
<1>4. \A j \in T : n - j \in R
  OBVIOUS
<1>5. \A j \in T : n - k <= n - j
  BY <1>2, <1>3, <1>4
<1>6. \A j \in T : j <= k
  <2>1. TAKE j \in T
  <2>2. j \in Int /\ k \in Int
    OBVIOUS
  <2>3. QED BY <1>5, <2>2
<1>7. QED BY <1>6

\* Counting from 0: a set with 0 and the successors of its members has every
\* number up to n.
LEMMA UpTo ==
  ASSUME NEW n \in Nat, NEW T, 0 \in T, \A k \in 1..n : k - 1 \in T => k \in T
  PROVE  \A k \in 0..n : k \in T
<1> DEFINE bad == {k \in 0..n : k \notin T}
<1>1. SUFFICES ASSUME bad # {} PROVE FALSE
  OBVIOUS
<1>2. bad \in SUBSET Nat
  OBVIOUS
<1>3. PICK b \in bad : \A j \in bad : b <= j
  BY <1>1, <1>2, LeastExists
<1>4. b \in 1..n /\ b - 1 \in 0..n /\ ~(b <= b - 1)
  BY <1>3
<1>5. b - 1 \in T
  BY <1>3, <1>4
<1>6. QED BY <1>3, <1>4, <1>5

\* A function that is defined by a step from each number to the next ...
IsIterate(g, first, step, n) == g = [k \in 0..n |-> IF k = 0 THEN first ELSE step[<<k, g[k-1]>>]]

\* ... exists.
LEMMA Iterates ==
  ASSUME NEW V, NEW first \in V, NEW step \in [Nat \X V -> V], NEW n \in Nat
  PROVE  \E g \in [0..n -> V] : IsIterate(g, first, step, n)
<1> DEFINE Is(g, m) == g \in [0..m -> V] /\ g = [k \in 0..m |-> IF k = 0 THEN first ELSE step[<<k, g[k-1]>>]]
           T == {m \in 0..n : \E g : Is(g, m)}
<1>1. 0 \in T
  <2>1. Is([k \in 0..0 |-> first], 0)
    OBVIOUS
  <2> HIDE DEF Is
  <2>2. QED BY <2>1
<1>2. ASSUME NEW m \in 1..n, m - 1 \in T
      PROVE  m \in T
  <2>1. PICK g : Is(g, m - 1)
    BY <1>2
  <2> DEFINE h == [k \in 0..m |-> IF k = m THEN step[<<m, g[m-1]>>] ELSE g[k]]
  <2>2. g \in [0..(m - 1) -> V] /\ m - 1 \in 0..(m - 1)
    BY <2>1
  <2>3. step[<<m, g[m-1]>>] \in V
    BY <2>2
  <2>4. \A k \in 0..m : k # m => k \in 0..(m - 1)
    OBVIOUS
  <2>5. h \in [0..m -> V]
    BY <2>2, <2>3, <2>4
  <2>6. \A k \in 0..m : h[k] = IF k = 0 THEN first ELSE step[<<k, h[k-1]>>]
    <3>1. TAKE k \in 0..m
    <3>2. CASE k = m
      <4>1. k # 0 /\ k - 1 \in 0..m /\ k - 1 # m
        BY <3>2
      <4>2. h[k-1] = g[k-1]
        BY <4>1
      <4>3. QED BY <3>2, <4>1, <4>2
    <3>3. CASE k # m
      <4>1. h[k] = g[k] /\ k \in 0..(m - 1)
        BY <3>3
      <4>2. g[k] = IF k = 0 THEN first ELSE step[<<k, g[k-1]>>]
        BY <2>1, <4>1
      <4>3. k # 0 => k - 1 \in 0..m /\ k - 1 # m
        BY <3>3
      <4>4. k # 0 => h[k-1] = g[k-1]
        BY <4>3
      <4>5. QED BY <4>1, <4>2, <4>4
    <3>4. QED BY <3>2, <3>3
  <2>7. Is(h, m)
    <3>1. h = [k \in 0..m |-> h[k]]
      OBVIOUS
    <3> HIDE DEF h
    <3>2. [k \in 0..m |-> h[k]] = [k \in 0..m |-> IF k = 0 THEN first ELSE step[<<k, h[k-1]>>]]
      BY <2>6
    <3>3. QED BY <2>5, <3>1, <3>2
  <2> HIDE DEF Is, h
  <2>8. QED BY <2>7
<1> HIDE DEF T
<1>3. n \in T
  BY <1>1, <1>2, UpTo
<1>4. QED BY <1>3 DEF T, IsIterate

\* One record for every member of a finite set: as many records as members.
LEMMA SameSize ==
  ASSUME NEW S, IsFiniteSet(S), NEW T, NEW g \in [S -> T],
         \A x, y \in S : g[x] = g[y] => x = y, \A t \in T : \E x \in S : g[x] = t
  PROVE  Cardinality(T) = Cardinality(S)
<1>1. g \in Bijection(S, T)
  BY DEF Bijection, Injection, Surjection, IsInjective
<1>2. ExistsBijection(S, T)
  BY <1>1 DEF ExistsBijection
<1>3. QED BY <1>2, FS_Bijection

\* Counting from the left numbers the positions in keep from 1, in order.
LEMMA Ranks ==
  ASSUME NEW n \in Nat, NEW keep \in SUBSET (1..n)
  PROVE  /\ IsFiniteSet(keep) /\ Cardinality(keep) \in Nat
         /\ \A k \in keep : Cardinality({j \in keep : j <= k}) \in 1..Cardinality(keep)
         /\ \A k, m \in keep : k < m => Cardinality({j \in keep : j <= k}) < Cardinality({j \in keep : j <= m})
         /\ \A i \in 1..Cardinality(keep) : \E k \in keep : Cardinality({j \in keep : j <= k}) = i
<1> DEFINE Left(k) == {j \in keep : j <= k}
           rank == [k \in keep |-> Cardinality(Left(k))]
<1>1. IsFiniteSet(keep) /\ Cardinality(keep) \in Nat
  <2>1. IsFiniteSet(1..n)
    BY FS_Interval
  <2>2. QED BY <2>1, FS_Subset, FS_CardinalityType
<1>2. \A k \in keep : IsFiniteSet(Left(k)) /\ Cardinality(Left(k)) \in Nat /\ Cardinality(Left(k)) <= Cardinality(keep)
  BY <1>1, FS_Subset, FS_CardinalityType
<1>3. \A k \in keep : Cardinality(Left(k)) # 0
  <2>1. TAKE k \in keep
  <2>2. k \in Left(k)
    OBVIOUS
  <2>3. QED BY <1>2, <2>2, FS_EmptySet
<1>4. \A k, m \in keep : k < m => Cardinality(Left(k)) < Cardinality(Left(m))
  <2>1. TAKE k, m \in keep
  <2>2. HAVE k < m
  <2>3. Left(k) \in SUBSET Left(m) /\ m \in Left(m) /\ m \notin Left(k)
    <3>1. \A j \in keep : j \in Int
      OBVIOUS
    <3>2. \A j \in keep : j <= k => j <= m
      BY <2>2, <3>1
    <3>3. m <= m /\ ~(m <= k)
      BY <2>2, <3>1
    <3>4. Left(k) \in SUBSET Left(m)
      BY <3>2
    <3>5. m \in Left(m) /\ m \notin Left(k)
      BY <3>3
    <3>6. QED BY <3>4, <3>5
  <2>4. Left(k) # Left(m)
    BY <2>3
  <2> HIDE DEF Left
  <2>5. Cardinality(Left(k)) <= Cardinality(Left(m)) /\ Cardinality(Left(k)) # Cardinality(Left(m))
    BY <1>2, <2>3, <2>4, FS_Subset
  <2>6. QED BY <1>2, <2>5
<1> HIDE DEF Left
<1>5. rank \in Injection(keep, 1..Cardinality(keep))
  <2>1. rank \in [keep -> 1..Cardinality(keep)]
    BY <1>1, <1>2, <1>3
  <2>2. \A k, m \in keep : rank[k] = rank[m] => k = m
    <3>1. TAKE k, m \in keep
    <3>2. k \in Int /\ m \in Int /\ rank[k] \in Nat /\ rank[m] \in Nat
      BY <1>2
    <3>3. (k < m => rank[k] < rank[m]) /\ (m < k => rank[m] < rank[k])
      BY <1>4
    <3>4. QED BY <3>2, <3>3
  <2>3. QED BY <2>1, <2>2 DEF Injection, IsInjective
<1>6. rank \in Surjection(keep, 1..Cardinality(keep))
  <2>1. IsFiniteSet(1..Cardinality(keep)) /\ Cardinality(1..Cardinality(keep)) = Cardinality(keep)
    BY <1>1, FS_Interval
  <2>2. QED BY <1>5, <2>1, FS_Injection
<1>7. \A i \in 1..Cardinality(keep) : \E k \in keep : rank[k] = i
  BY <1>6 DEF Surjection
<1>8. QED BY <1>1, <1>2, <1>3, <1>4, <1>7 DEF Left

\* L has, for each member of keep, those before it.
IsOrder(L, keep) ==
  /\ L \in [keep -> SUBSET keep]
  /\ \A i \in keep : i \notin L[i]
  /\ \A i, j, k \in keep : i \in L[j] /\ j \in L[k] => i \in L[k]
  /\ \A i, j \in keep : i = j \/ i \in L[j] \/ j \in L[i]

\* Counting those before it, L, numbers the members of a finite set from 0.
LEMMA RankedBy ==
  ASSUME NEW keep, IsFiniteSet(keep), NEW L, IsOrder(L, keep)
  PROVE  /\ Cardinality(keep) \in Nat
         /\ \A k \in 1..Cardinality(keep) : \E i \in keep : Cardinality(L[i]) = k - 1
         /\ \A i \in keep : \E k \in 1..Cardinality(keep) : Cardinality(L[i]) = k - 1
         /\ \A i, m \in keep : i \in L[m] =>
              Cardinality(L[i]) < Cardinality(L[m])
<1> USE DEF IsOrder
<1> DEFINE Left(k) == L[k]
           rank == [k \in keep |-> Cardinality(Left(k)) + 1]
<1>1. IsFiniteSet(keep) /\ Cardinality(keep) \in Nat
  BY FS_CardinalityType
<1>2. \A k \in keep : IsFiniteSet(Left(k)) /\ Cardinality(Left(k)) \in Nat /\ Cardinality(Left(k)) <= Cardinality(keep)
  BY <1>1, FS_Subset, FS_CardinalityType
<1>3. \A k \in keep : Cardinality(Left(k)) < Cardinality(keep)
  <2>1. TAKE k \in keep
  <2>2. Left(k) \in SUBSET keep /\ Left(k) # keep
    OBVIOUS
  <2> HIDE DEF Left
  <2>3. Cardinality(Left(k)) # Cardinality(keep)
    BY <1>1, <2>2, FS_Subset
  <2>4. QED BY <1>1, <1>2, <2>3
<1>4. \A k, m \in keep : k \in L[m] => Cardinality(Left(k)) < Cardinality(Left(m))
  <2>1. TAKE k, m \in keep
  <2>2. HAVE k \in L[m]
  <2>3. Left(k) \in SUBSET Left(m) /\ Left(k) # Left(m)
    <3>1. \A j \in keep : j \in L[k] => j \in L[m]
      BY <2>2
    <3>2. k \in Left(m) /\ k \notin Left(k)
      BY <2>2
    <3>3. QED BY <3>1, <3>2
  <2> HIDE DEF Left
  <2>5. Cardinality(Left(k)) <= Cardinality(Left(m)) /\ Cardinality(Left(k)) # Cardinality(Left(m))
    BY <1>2, <2>3, FS_Subset
  <2>6. QED BY <1>2, <2>5
<1> HIDE DEF Left
<1>5. rank \in Injection(keep, 1..Cardinality(keep))
  <2>1. rank \in [keep -> 1..Cardinality(keep)]
    BY <1>1, <1>2, <1>3
  <2>2. \A k, m \in keep : rank[k] = rank[m] => k = m
    <3>1. TAKE k, m \in keep
    <3>2. rank[k] = Cardinality(Left(k)) + 1 /\ rank[m] = Cardinality(Left(m)) + 1
      OBVIOUS
    <3>3. Cardinality(Left(k)) \in Nat /\ Cardinality(Left(m)) \in Nat
      BY <1>2
    <3>4. (k \in L[m] => rank[k] # rank[m]) /\ (m \in L[k] => rank[m] # rank[k])
      BY <1>4, <3>2, <3>3
    <3> HIDE DEF rank
    <3>5. QED BY <3>4
  <2>3. QED BY <2>1, <2>2 DEF Injection, IsInjective
<1>6. rank \in Surjection(keep, 1..Cardinality(keep))
  <2>1. IsFiniteSet(1..Cardinality(keep)) /\ Cardinality(1..Cardinality(keep)) = Cardinality(keep)
    BY <1>1, FS_Interval
  <2>2. QED BY <1>5, <2>1, FS_Injection
<1>7. \A i \in 1..Cardinality(keep) : \E k \in keep : rank[k] = i
  BY <1>6 DEF Surjection
<1>8. \A k \in 1..Cardinality(keep) : \E i \in keep : Cardinality(Left(i)) = k - 1
  <2>1. TAKE k \in 1..Cardinality(keep)
  <2>2. PICK i \in keep : rank[i] = k
    BY <1>7
  <2>3. Cardinality(Left(i)) + 1 = k /\ Cardinality(Left(i)) \in Nat
    BY <1>2, <2>2
  <2>4. Cardinality(Left(i)) = k - 1
    BY <2>3
  <2>5. QED BY <2>4
<1>9. \A i \in keep : \E k \in 1..Cardinality(keep) : Cardinality(Left(i)) = k - 1
  <2>1. TAKE i \in keep
  <2> DEFINE x == Cardinality(Left(i))
             y == Cardinality(keep)
  <2>4. x \in Nat /\ x < y /\ y \in Nat
    BY <1>1, <1>2, <1>3
  <2> HIDE DEF x, y
  <2>5. \E k \in 1..y : x = k - 1
    <3> DEFINE z == x + 1
    <3>1. z \in 1..y /\ x = z - 1
      BY <2>4
    <3> HIDE DEF z
    <3>2. QED BY <3>1
  <2>6. QED BY <2>5 DEF x, y
<1>10. QED BY <1>1, <1>4, <1>8, <1>9 DEF Left

\* The elements of a sequence are those at its positions.
LEMMA Elements ==
  ASSUME NEW S, NEW s \in Seq(S)
  PROVE  /\ Len(s) \in Nat /\ DOMAIN s = 1..Len(s)
         /\ ToSet(s) = {s[k] : k \in DOMAIN s} /\ ToSet(s) \subseteq S
         /\ s = <<>> <=> ToSet(s) = {}
<1>1. Len(s) \in Nat /\ DOMAIN s = 1..Len(s) /\ (s = <<>> <=> Len(s) = 0)
  BY LenProperties, EmptySeq
<1>2. \A k \in 1..Len(s) : s[k] \in S
  BY ElementOfSeq
<1>3. s # <<>> => 1 \in 1..Len(s)
  BY <1>1
<1>4. ToSet(s) = {s[k] : k \in DOMAIN s}
  BY DEF ToSet
<1>5. ToSet(s) \subseteq S
  BY <1>1, <1>2, <1>4
<1>6. s # <<>> => s[1] \in ToSet(s)
  BY <1>1, <1>3, <1>4
<1>7. s = <<>> => ToSet(s) = {}
  BY <1>1, <1>4
<1>8. QED BY <1>1, <1>4, <1>5, <1>6, <1>7

\* The function FlattenSeq is defined by exists: a least length at which there
\* is none would have one, extended from the length before.
LEMMA FlattenDefined ==
  ASSUME NEW ss, NEW n \in Nat
  PROVE  \A m \in 1..n : \E g : g = [i \in 1..m |-> IF i = 1 THEN ss[i] ELSE g[i-1] \o ss[i]]
<1> DEFINE Is(g, m) == g = [i \in 1..m |-> IF i = 1 THEN ss[i] ELSE g[i-1] \o ss[i]]
           bad == {m \in 1..n : ~ \E g : Is(g, m)}
<1>1. SUFFICES ASSUME bad # {} PROVE FALSE
  OBVIOUS
<1>2. bad \in SUBSET Nat
  <2>1. \A m \in 1..n : m \in Nat
    OBVIOUS
  <2> HIDE DEF Is
  <2>2. QED BY <2>1
<1>3. PICK b \in bad : \A j \in bad : b <= j
  BY <1>1, <1>2, LeastExists
<1>4. b \in 1..n /\ ~ \E g : Is(g, b)
  BY <1>3
<1>5. CASE b = 1
  <2> DEFINE g == [i \in 1..1 |-> ss[i]]
  <2>1. g = [i \in 1..1 |-> IF i = 1 THEN ss[i] ELSE g[i-1] \o ss[i]]
    OBVIOUS
  <2>2. Is(g, b)
    BY <1>5, <2>1
  <2>3. QED BY <1>4, <2>2
<1>6. CASE b # 1
  <2>1. b - 1 \in 1..n /\ ~(b <= b - 1) /\ b - 1 \in 1..b
    BY <1>4, <1>6
  <2>2. b - 1 \notin bad
    BY <1>3, <2>1
  <2>3. PICK g : Is(g, b - 1)
    BY <2>1, <2>2
  <2> DEFINE h == [i \in 1..b |-> IF i = b THEN g[b-1] \o ss[b] ELSE g[i]]
  <2>4. \A i \in 1..b : i = 1 \/ (i - 1 \in 1..b /\ i - 1 # b)
    BY <1>4
  <2>5. \A i \in 1..b : i # b => i \in 1..(b-1)
    BY <1>4
  <2>6. \A i \in 1..b : h[i] = IF i = 1 THEN ss[i] ELSE h[i-1] \o ss[i]
    <3>1. TAKE i \in 1..b
    <3>2. CASE i = b
      <4>1. h[i] = g[b-1] \o ss[b]
        BY <3>2
      <4>2. b - 1 # b
        BY <1>4
      <4>3. h[b-1] = g[b-1]
        BY <2>1, <4>2
      <4>4. QED BY <1>6, <3>2, <4>1, <4>3
    <3>3. CASE i # b
      <4>1. h[i] = g[i] /\ g[i] = IF i = 1 THEN ss[i] ELSE g[i-1] \o ss[i]
        BY <2>3, <2>5, <3>3
      <4>2. i = 1 \/ h[i-1] = g[i-1]
        BY <2>4
      <4>3. QED BY <4>1, <4>2
    <3>4. QED BY <3>2, <3>3
  <2>7. Is(h, b)
    BY <2>6
  <2>8. QED BY <1>4, <2>7
<1>7. QED BY <1>5, <1>6

\* Concatenating a sequence of sequences gives a sequence of exactly their
\* elements.
LEMMA FlattenIsUnion ==
  ASSUME NEW S, NEW ss \in Seq(Seq(S))
  PROVE  /\ FlattenSeq(ss) \in Seq(S)
         /\ ToSet(FlattenSeq(ss)) = UNION {ToSet(ss[i]) : i \in DOMAIN ss}
<1>1. Len(ss) \in Nat /\ DOMAIN ss = 1..Len(ss) /\ \A i \in 1..Len(ss) : ss[i] \in Seq(S)
  BY LenProperties, ElementOfSeq
<1>2. CASE Len(ss) = 0
  <2>1. FlattenSeq(ss) = ss
    BY <1>2 DEF FlattenSeq
  <2>2. ss = <<>> /\ DOMAIN ss = {}
    BY <1>1, <1>2, EmptySeq
  <2>3. QED BY <2>1, <2>2 DEF ToSet
<1>3. CASE Len(ss) # 0
  <2> DEFINE n == Len(ss)
             f == CHOOSE g : g = [i \in 1..n |-> IF i = 1 THEN ss[i] ELSE g[i-1] \o ss[i]]
  <2>1. n \in 1..n
    BY <1>1, <1>3
  <2>2. f = [i \in 1..n |-> IF i = 1 THEN ss[i] ELSE f[i-1] \o ss[i]]
    BY <1>1, <2>1, FlattenDefined
  <2>3. FlattenSeq(ss) = f[n]
    BY <1>3 DEF FlattenSeq
  <2> HIDE DEF f
  <2> DEFINE Good(i) == f[i] \in Seq(S) /\ ToSet(f[i]) = UNION {ToSet(ss[j]) : j \in 1..i}
             bad == {i \in 1..n : ~Good(i)}
  <2>4. bad = {}
    <3>1. SUFFICES ASSUME bad # {} PROVE FALSE
      OBVIOUS
    <3>2. bad \in SUBSET Nat
      BY <1>1
    <3>3. PICK b \in bad : \A j \in bad : b <= j
      BY <3>1, <3>2, LeastExists
    <3>4. b \in 1..n /\ ~Good(b)
      BY <3>3
    <3>5. CASE b = 1
      <4>1. f[b] = ss[1] /\ 1..b = {1}
        BY <2>2, <3>4, <3>5
      <4>2. QED BY <1>1, <3>4, <3>5, <4>1
    <3>6. CASE b # 1
      <4>1. b - 1 \in 1..n /\ ~(b <= b - 1)
        BY <1>1, <3>4, <3>6
      <4>2. Good(b - 1)
        BY <3>3, <4>1
      <4>3. f[b] = f[b-1] \o ss[b]
        BY <2>2, <3>4, <3>6
      <4>4. ss[b] \in Seq(S)
        BY <1>1, <3>4
      <4>5. f[b] \in Seq(S)
        BY <4>2, <4>3, <4>4, ConcatProperties
      <4>6. ToSet(f[b]) = ToSet(f[b-1]) \cup ToSet(ss[b])
        <5>1. f[b-1] \in Seq(S)
          BY <4>2
        <5> HIDE DEF Good, bad
        <5>2. Range(f[b-1] \o ss[b]) = Range(f[b-1]) \cup Range(ss[b])
          BY <4>4, <5>1, RangeConcatenation
        <5>3. QED BY <4>3, <5>2 DEF Range, ToSet
      <4>7. 1..b = 1..(b-1) \cup {b}
        BY <1>1, <3>4, <3>6
      <4>8. ToSet(f[b]) = UNION {ToSet(ss[j]) : j \in 1..b}
        BY <4>2, <4>6, <4>7
      <4>9. QED BY <3>4, <4>5, <4>8
    <3>7. QED BY <3>5, <3>6
  <2>5. Good(n)
    BY <2>1, <2>4
  <2>6. QED BY <1>1, <2>3, <2>5
<1>4. QED BY <1>2, <1>3

\* A finite set as a sequence: every element once.
LEMMA SetToSeqIs ==
  ASSUME NEW T, IsFiniteSet(T)
  PROVE  /\ SetToSeq(T) \in Seq(T)
         /\ ToSet(SetToSeq(T)) = T
         /\ \A j, k \in DOMAIN SetToSeq(T) : SetToSeq(T)[j] = SetToSeq(T)[k] => j = k
<1> DEFINE n == Cardinality(T)
           s == SetToSeq(T)
<1>1. n \in Nat /\ ExistsBijection(1..n, T)
  BY FS_CardinalityType
<1>2. PICK f : f \in Bijection(1..n, T)
  BY <1>1 DEF ExistsBijection
<1>3. f \in [1..n -> T] /\ \A a, b \in 1..n : f[a] = f[b] => a = b
  BY <1>2 DEF Bijection, Injection, IsInjective
<1>4. s \in [1..n -> T] /\ \A a, b \in 1..n : s[a] = s[b] => a = b
  <2>1. IsInjective(f)
    BY <1>3 DEF IsInjective
  <2>2. s \in [1..n -> T] /\ IsInjective(s)
    BY <1>3, <2>1 DEF SetToSeq
  <2>3. QED BY <2>2 DEF IsInjective
<1> HIDE DEF s
<1>5. IsFiniteSet(1..n) /\ Cardinality(1..n) = n
  BY <1>1, FS_Interval
<1>6. s \in Injection(1..n, T)
  BY <1>4 DEF Injection, IsInjective
<1>7. s \in Surjection(1..n, T)
  BY <1>5, <1>6, FS_Injection
<1>8. \A t \in T : \E k \in 1..n : s[k] = t
  BY <1>7 DEF Surjection
<1>9. s \in Seq(T)
  BY <1>1, <1>4, IsASeq
<1>10. ToSet(s) = T
  BY <1>4, <1>8 DEF ToSet
<1>11. QED BY <1>4, <1>9, <1>10 DEF s

\* FlattenSeq is a concatenation from the left, a step at a time.
LEMMA FlattenSteps ==
  ASSUME NEW ss, Len(ss) \in Nat \ {0}
  PROVE  \E f : /\ f[1] = ss[1] /\ \A i \in 2..Len(ss) : f[i] = f[i-1] \o ss[i]
                /\ FlattenSeq(ss) = f[Len(ss)]
<1> DEFINE n == Len(ss)
           f == CHOOSE g : g = [i \in 1..n |-> IF i = 1 THEN ss[i] ELSE g[i-1] \o ss[i]]
<1>1. n \in 1..n
  OBVIOUS
<1>2. f = [i \in 1..n |-> IF i = 1 THEN ss[i] ELSE f[i-1] \o ss[i]]
  BY ZenonT(30), <1>1, FlattenDefined
<1>3. FlattenSeq(ss) = f[n]
  BY DEF FlattenSeq
<1> HIDE DEF f
<1>4. f[1] = ss[1]
  BY <1>1, <1>2
<1>5. \A i \in 2..n : i \in 1..n /\ i # 1
  BY <1>1
<1>6. \A i \in 2..n : f[i] = f[i-1] \o ss[i]
  BY <1>2, <1>5
<1>7. QED BY <1>3, <1>4, <1>6

\* Two neighbouring slices are one.
LEMMA SlicesMeet ==
  ASSUME NEW S, NEW s \in Seq(S), NEW a \in 0..Len(s), NEW b \in 0..Len(s), a <= b
  PROVE  SubSeq(s, 1, a) \o SubSeq(s, a + 1, b) = SubSeq(s, 1, b)
<1> DEFINE l == SubSeq(s, 1, a)
           r == SubSeq(s, a + 1, b)
           t == SubSeq(s, 1, b)
<1>0. Len(s) \in Nat
  BY LenProperties
<1>1. l \in Seq(S) /\ Len(l) = a /\ \A i \in 1..a : l[i] = s[i]
  BY <1>0, SubSeqProperties
<1>2. r \in Seq(S) /\ Len(r) = b - a /\ \A i \in 1..(b - a) : r[i] = s[a + i]
  BY <1>0
<1>3. t \in Seq(S) /\ Len(t) = b /\ \A i \in 1..b : t[i] = s[i]
  BY <1>0
<1> HIDE DEF l, r, t
<1>4. l \o r \in Seq(S) /\ Len(l \o r) = b
  <2>1. l \o r \in Seq(S) /\ Len(l \o r) = Len(l) + Len(r)
    BY <1>1, <1>2, ConcatProperties
  <2>2. QED BY <1>0, <1>1, <1>2, <2>1
<1>5. \A i \in 1..b : (l \o r)[i] = s[i]
  <2>1. TAKE i \in 1..b
  <2>2. CASE i <= a
    BY <1>0, <1>1, <1>2, <2>2
  <2>3. CASE i > a
    <3>1. i - a \in 1..(b - a) /\ a + (i - a) = i
      BY <1>0, <2>3
    <3>2. (l \o r)[i] = r[i - a]
      <4>1. \A j \in 1..(Len(l) + Len(r)) : (l \o r)[j] = IF j <= Len(l) THEN l[j] ELSE r[j - Len(l)]
        BY <1>1, <1>2, ConcatProperties
      <4>2. QED BY <1>0, <1>1, <1>2, <2>3, <4>1
    <3> HIDE DEF l, r, t
    <3>3. r[i - a] = s[a + (i - a)]
      BY <1>2, <3>1
    <3>4. s[a + (i - a)] = s[i]
      BY <3>1
    <3>5. QED BY <3>2, <3>3, <3>4
  <2>4. i <= a \/ i > a
    BY <1>0
  <2>5. QED BY <2>2, <2>3, <2>4
<1>6. QED BY <1>0, <1>3, <1>4, <1>5, SeqEqual DEF l, r, t

\* A sequence cut into slices, and the slices put together again.
LEMMA SlicesJoin ==
  ASSUME NEW S, NEW s \in Seq(S), NEW n \in Nat \ {0}, NEW cut \in [0..n -> 0..Len(s)],
         cut[0] = 0, cut[n] = Len(s), \A k \in 1..n : cut[k-1] <= cut[k]
  PROVE  FlattenSeq([k \in 1..n |-> SubSeq(s, cut[k-1] + 1, cut[k])]) = s
<1> DEFINE ss == [k \in 1..n |-> SubSeq(s, cut[k-1] + 1, cut[k])]
<1>0. Len(s) \in Nat /\ \A k \in 1..n : k \in 0..n /\ k - 1 \in 0..n
  <2>1. Len(s) \in Nat
    BY LenProperties
  <2>2. \A k \in 1..n : k \in 0..n /\ k - 1 \in 0..n
    OBVIOUS
  <2>3. QED BY <2>1, <2>2
<1>8. \A k \in 1..n : ss[k] = SubSeq(s, cut[k-1] + 1, cut[k])
  OBVIOUS
<1>1. Len(s) \in Nat /\ \A k \in 1..n : k \in 0..n /\ k - 1 \in 0..n /\ ss[k] = SubSeq(s, cut[k-1] + 1, cut[k])
  BY <1>0, <1>8
<1>2. Len(ss) = n
  OBVIOUS
<1> HIDE DEF ss
<1>3. PICK f : /\ f[1] = ss[1] /\ \A i \in 2..n : f[i] = f[i-1] \o ss[i]
               /\ FlattenSeq(ss) = f[n]
  BY <1>2, FlattenSteps
<1> DEFINE bad == {i \in 1..n : f[i] # SubSeq(s, 1, cut[i])}
<1>4. bad = {}
  <2>1. SUFFICES ASSUME bad # {} PROVE FALSE
    OBVIOUS
  <2>2. bad \in SUBSET Nat
    OBVIOUS
  <2>3. PICK b \in bad : \A j \in bad : b <= j
    BY <2>1, <2>2, LeastExists
  <2>4. b \in 1..n /\ f[b] # SubSeq(s, 1, cut[b])
    BY <2>3
  <2>5. CASE b = 1
    <3>1. f[1] = SubSeq(s, cut[1 - 1] + 1, cut[1])
      BY <1>1, <1>3, <2>4, <2>5
    <3> HIDE DEF bad
    <3>2. cut[1 - 1] + 1 = 1
      OBVIOUS
    <3>3. QED BY <2>4, <2>5, <3>1, <3>2
  <2>6. CASE b # 1
    <3>1. b - 1 \in 1..n /\ b \in 2..n /\ ~(b <= b - 1)
      BY <2>4, <2>6
    <3>2. f[b - 1] = SubSeq(s, 1, cut[b - 1])
      BY <2>3, <3>1
    <3>3. f[b] = SubSeq(s, 1, cut[b - 1]) \o SubSeq(s, cut[b - 1] + 1, cut[b])
      BY <1>1, <1>3, <2>4, <3>1, <3>2
    <3>4. cut[b - 1] \in 0..Len(s) /\ cut[b] \in 0..Len(s) /\ cut[b - 1] <= cut[b]
      BY <1>1, <2>4
    <3>5. f[b] = SubSeq(s, 1, cut[b])
      BY <3>3, <3>4, SlicesMeet
    <3>6. QED BY <2>4, <3>5
  <2>7. QED BY <2>5, <2>6
<1>5. f[n] = SubSeq(s, 1, Len(s))
  <2>1. n \in 1..n
    OBVIOUS
  <2>2. f[n] = SubSeq(s, 1, cut[n])
    BY <1>4, <2>1
  <2>3. QED BY <2>2
<1>6. SubSeq(s, 1, Len(s)) = s
  BY <1>1
<1>7. QED BY <1>3, <1>5, <1>6 DEF ss

\* Division by any positive number.
LEMMA DivBounds ==
  ASSUME NEW a \in Nat, NEW m \in Nat \ {0}
  PROVE  a \div m \in Nat /\ (a \div m) * m <= a /\ a < (a \div m) * m + m
OBVIOUS

\* Multiples grow with their factor, by one unit at least.
LEMMA Multiples ==
  ASSUME NEW a \in Nat, NEW b \in Nat, NEW m \in Nat
  PROVE  a * m \in Nat /\ (a <= b => a * m <= b * m) /\ (a < b => a * m + m <= b * m)
<1>1. a * m \in Nat /\ b * m \in Nat /\ (a + 1) * m = a * m + m
  OBVIOUS
<1>2. \A c, d \in Nat : c <= d => c * m <= d * m
  OBVIOUS
<1>3. a < b => a + 1 <= b
  OBVIOUS
<1>4. QED BY <1>1, <1>2, <1>3

\* Division keeps the order.
LEMMA DivGrows ==
  ASSUME NEW a \in Nat, NEW b \in Nat, NEW m \in Nat \ {0}, a <= b
  PROVE  a \div m \in Nat /\ b \div m \in Nat /\ a \div m <= b \div m
<1> DEFINE x == a \div m
           y == b \div m
<1>1. x \in Nat /\ x * m <= a /\ y \in Nat /\ b < y * m + m
  BY DivBounds
<1> HIDE DEF x, y
<1>2. y < x => y * m + m <= x * m
  BY <1>1, Multiples
<1>3. x * m \in Int /\ y * m \in Int
  BY <1>1, Multiples
<1> DEFINE p == x * m
           q == y * m
<1>4. p \in Int /\ q \in Int /\ p <= a /\ b < q + m /\ (y < x => q + m <= p)
  BY <1>1, <1>2, <1>3
<1> HIDE DEF p, q
<1>5. ~(y < x)
  BY <1>4
<1>6. QED BY <1>1, <1>5 DEF x, y

LEMMA MinOfTwo ==
  ASSUME NEW a \in Int, NEW b \in Int
  PROVE  Min({a, b}) = IF a <= b THEN a ELSE b
<1> DEFINE m == IF a <= b THEN a ELSE b
<1>1. m \in {a, b} /\ \A y \in {a, b} : m <= y
  OBVIOUS
<1>2. \A x \in {a, b} : (\A y \in {a, b} : x <= y) => x = m
  OBVIOUS
<1> HIDE DEF m
<1>3. Min({a, b}) = m
  BY <1>1, <1>2 DEF Min
<1>4. QED BY <1>3 DEF m

\* A finite set has a last element in any order of its elements.
LEMMA LastExists ==
  ASSUME NEW T, IsFiniteSet(T), T # {}, NEW R,
         \A x, y, z \in T : <<x, y>> \in R /\ <<y, z>> \in R => <<x, z>> \in R,
         \A x, y \in T : x = y \/ <<x, y>> \in R \/ <<y, x>> \in R
  PROVE  \E x \in T : \A y \in T : y = x \/ <<y, x>> \in R
<1> DEFINE Lacks(U) == U # {} /\ ~ \E x \in U : \A y \in U : y = x \/ <<y, x>> \in R
           bad == {Cardinality(U) : U \in {V \in SUBSET T : Lacks(V)}}
<1>1. \A U \in SUBSET T : IsFiniteSet(U) /\ Cardinality(U) \in Nat
  BY FS_Subset, FS_CardinalityType
<1>2. SUFFICES ASSUME Lacks(T) PROVE FALSE
  OBVIOUS
<1>3. bad \in SUBSET Nat /\ bad # {}
  <2> HIDE DEF Lacks
  <2>1. T \in {V \in SUBSET T : Lacks(V)}
    BY <1>2
  <2>2. QED BY <1>1, <2>1
<1>4. PICK n \in bad : \A j \in bad : n <= j
  BY <1>3, LeastExists
<1>5. PICK U \in SUBSET T : Lacks(U) /\ n = Cardinality(U)
  BY <1>4
<1>6. PICK a \in U : TRUE
  BY <1>5
<1> DEFINE V == U \ {a}
<1>7. Cardinality(V) \in Nat /\ Cardinality(V) < n
  <2>1. Cardinality(V) = Cardinality(U) - 1
    BY <1>1, <1>6, FS_RemoveElement
  <2>2. QED BY <1>1, <1>5, <2>1
<1>8. ~Lacks(V)
  <2>1. Cardinality(V) \notin bad
    <3>1. n \in Nat /\ ~(n <= Cardinality(V))
      BY <1>3, <1>4, <1>7
    <3> HIDE DEF bad, V
    <3>2. QED BY <1>4, <3>1
  <2> HIDE DEF Lacks
  <2>2. V \in SUBSET T
    OBVIOUS
  <2>3. QED BY <2>1, <2>2
<1>9. CASE V = {}
  <2>1. U = {a}
    BY <1>6, <1>9
  <2>2. QED BY <1>5, <2>1
<1>10. CASE V # {}
  <2>1. PICK x \in V : \A y \in V : y = x \/ <<y, x>> \in R
    BY <1>8, <1>10
  <2>2. x \in T /\ a \in T /\ x # a /\ x \in U
    BY <1>5, <2>1
  <2>3. CASE <<a, x>> \in R
    <3>1. \A y \in U : y = x \/ <<y, x>> \in R
      BY <2>1, <2>3
    <3>2. QED BY <1>5, <2>2, <3>1
  <2>4. CASE <<x, a>> \in R
    <3>1. \A y \in U : y = a \/ <<y, a>> \in R
      <4>1. TAKE y \in U
      <4>2. CASE y = a
        BY <4>2
      <4>3. CASE y # a
        <5>1. y \in V /\ y \in T
          BY <4>3
        <5>2. QED BY <2>1, <2>2, <2>4, <5>1
      <4>4. QED BY <4>2, <4>3
    <3>2. QED BY <1>5, <1>6, <3>1
  <2>5. QED BY <2>2, <2>3, <2>4
<1>11. QED BY <1>9, <1>10
=================================================================================
