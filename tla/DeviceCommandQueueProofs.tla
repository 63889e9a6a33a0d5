------------------------ MODULE DeviceCommandQueueProofs ------------------------
(***************************************************************************)
(* Proofs about the in-memory command queue, for every set of commands,    *)
(* whatever their priorities, keys and flags, and every max_size.          *)
(***************************************************************************)
EXTENDS DeviceCommandQueue, FiniteSetTheorems, WellFoundedInduction, TLAPS

-----------------------------------------------------------------------------
(* The least number of a set of numbers: the induction of this module.      *)

LEMMA LeastNumber ==
    ASSUME NEW T \in SUBSET Nat, T # {}
    PROVE  \E n \in T : \A m \in T : n <= m
<1> DEFINE R == {p \in Nat \X Nat : p[1] < p[2]}
<1>1. IsWellFoundedOn(R, Nat)
  <2> SUFFICES ASSUME NEW f \in [Nat -> Nat], \A n \in Nat : <<f[n + 1], f[n]>> \in R PROVE FALSE
    BY DEF IsWellFoundedOn
  <2>1. IsWellFoundedOn(OpToRel(<, Nat), Nat)
    BY NatLessThanWellFounded
  <2>2. \A n \in Nat : <<f[n + 1], f[n]>> \in OpToRel(<, Nat)
    BY DEF OpToRel
  <2> QED BY <2>1, <2>2 DEF IsWellFoundedOn
<1>2. PICK x \in T : \A y \in T : ~(<<y, x>> \in R)
  <2> HIDE DEF R
  <2> QED BY <1>1, WFMin
<1>3. \A y \in T : x <= y
  <2> TAKE y \in T
  <2>1. x \in Nat /\ y \in Nat
    OBVIOUS
  <2>2. ~(<<y, x>> \in R)
    BY <1>2
  <2>3. ~(y < x)
    BY <2>1, <2>2
  <2> QED BY <2>1, <2>3
<1> QED BY <1>3

-----------------------------------------------------------------------------
(* The positions of I one after the other: how many of them are below i.    *)

Below(I, i) == Cardinality({j \in I : j < i})

Upto(n, I) == n \in Nat /\ I \subseteq 1 .. n

LEMMA Positions ==
    ASSUME NEW n, NEW I, Upto(n, I)
    PROVE  n \in Nat /\ \A i \in I : i \in Nat /\ 1 <= i /\ i <= n
  BY DEF Upto

LEMMA Interval == \A n \in Nat : IsFiniteSet(1 .. n) /\ Cardinality(1 .. n) = n
<1> TAKE n \in Nat
<1>1. 1 \in Int /\ n \in Int
  OBVIOUS
<1>2. IsFiniteSet(1 .. n) /\ Cardinality(1 .. n) = IF 1 > n THEN 0 ELSE n - 1 + 1
  BY <1>1, FS_Interval
<1> QED BY <1>2

LEMMA BelowCounts ==
    ASSUME NEW n, NEW I, Upto(n, I)
    PROVE  /\ IsFiniteSet(I) /\ Cardinality(I) \in Nat /\ Cardinality(I) <= n
           /\ Below(I, 1) = 0 /\ Below(I, n + 1) = Cardinality(I)
<1>1. IsFiniteSet(1 .. n) /\ Cardinality(1 .. n) = n
  BY Positions, Interval
<1>2. IsFiniteSet(I) /\ Cardinality(I) \in Nat /\ Cardinality(I) <= n
  BY <1>1, FS_Subset, FS_CardinalityType DEF Upto
<1>3. Below(I, 1) = 0
  <2>1. {j \in I : j < 1} = {}
    BY Positions
  <2> QED BY <2>1, FS_EmptySet DEF Below
<1>4. Below(I, n + 1) = Cardinality(I)
  <2>1. \A j \in I : j < n + 1
    BY Positions
  <2> QED BY <2>1 DEF Below
<1> QED BY <1>2, <1>3, <1>4

LEMMA BelowNext ==
    ASSUME NEW n, NEW I, Upto(n, I), NEW i \in Nat
    PROVE  /\ IsFiniteSet({j \in I : j < i}) /\ Below(I, i) \in Nat
           /\ Below(I, i + 1) = IF i \in I THEN Below(I, i) + 1 ELSE Below(I, i)
<1> DEFINE L == {j \in I : j < i}
<1>1. IsFiniteSet(L) /\ Cardinality(L) \in Nat
  <2>1. IsFiniteSet(I) /\ L \subseteq I
    BY BelowCounts
  <2> QED BY <2>1, FS_Subset, FS_CardinalityType
<1>2. CASE i \in I
  <2>1. {j \in I : j < i + 1} = L \cup {i} /\ i \notin L
    BY <1>2, Positions
  <2>2. Cardinality(L \cup {i}) = Cardinality(L) + 1
    BY <1>1, <2>1, FS_AddElement
  <2> QED BY <1>1, <1>2, <2>1, <2>2 DEF Below
<1>3. CASE i \notin I
  <2>1. {j \in I : j < i + 1} = L
    BY <1>3, Positions
  <2> QED BY <1>1, <1>3, <2>1 DEF Below
<1> QED BY <1>2, <1>3

\* More of them are below a later position.
LEMMA BelowGrows ==
    ASSUME NEW n, NEW I, Upto(n, I), NEW i \in I, NEW j \in I, i < j
    PROVE  Below(I, i) < Below(I, j)
<1> DEFINE L == {k \in I : k < i}
           M == {k \in I : k < j}
<1>1. IsFiniteSet(L) /\ IsFiniteSet(M) /\ Cardinality(L) \in Nat /\ Cardinality(M) \in Nat
  BY Positions, BelowNext, FS_CardinalityType
<1>2. L \subseteq M /\ i \in M /\ i \notin L
  BY Positions
<1>3. Cardinality(L) < Cardinality(M)
  BY <1>1, <1>2, FS_Subset
<1> QED BY <1>3 DEF Below

\* There is a k-th position, for every k up to their number.
LEMMA NthExists ==
    ASSUME NEW n, NEW I, Upto(n, I), NEW k \in 1 .. Cardinality(I)
    PROVE  \E i \in I : Below(I, i) = k - 1
<1> DEFINE T == {i \in Nat : i >= 1 /\ Below(I, i) >= k}
<1>1. k \in Nat /\ k >= 1 /\ k <= Cardinality(I)
  BY BelowCounts
<1>2. n + 1 \in T
  BY <1>1, Positions, BelowCounts
<1>3. PICK m \in T : \A j \in T : m <= j
  <2> T \in SUBSET Nat /\ T # {}
    BY <1>2
  <2> HIDE DEF T
  <2> QED BY LeastNumber
<1>4. m \in Nat /\ m > 1 /\ Below(I, m) >= k
  <2>1. m \in Nat /\ m >= 1 /\ Below(I, m) >= k
    BY <1>3
  <2>2. m # 1
    BY <1>1, <2>1, BelowCounts
  <2> QED BY <2>1, <2>2
<1> DEFINE i == m - 1
<1>5. i \in Nat /\ i >= 1 /\ i + 1 = m /\ i \notin T
  BY <1>3, <1>4
<1>6. Below(I, i) \in Nat /\ Below(I, i) < k
  <2>1. Below(I, i) \in Nat /\ ~(Below(I, i) >= k)
    BY <1>5, BelowNext
  <2> QED BY <1>1, <2>1
<1>7. Below(I, i + 1) = IF i \in I THEN Below(I, i) + 1 ELSE Below(I, i)
  BY <1>5, BelowNext
<1>8. i \in I /\ Below(I, i) = k - 1
  BY <1>1, <1>4, <1>5, <1>6, <1>7
<1> QED BY <1>8

LEMMA NthIs ==
    ASSUME NEW n, NEW I, Upto(n, I), NEW k \in 1 .. Cardinality(I)
    PROVE  Nth(I, k) \in I /\ Below(I, Nth(I, k)) = k - 1
  BY NthExists DEF Nth, Below

LEMMA NthOrder ==
    ASSUME NEW n, NEW I, Upto(n, I),
           NEW k \in 1 .. Cardinality(I), NEW l \in 1 .. Cardinality(I), k < l
    PROVE  Nth(I, k) < Nth(I, l)
<1>1. /\ Nth(I, k) \in I /\ Below(I, Nth(I, k)) = k - 1
      /\ Nth(I, l) \in I /\ Below(I, Nth(I, l)) = l - 1
  BY NthIs
<1>2. k \in Nat /\ l \in Nat
  BY BelowCounts
<1> DEFINE i == Nth(I, k)
           j == Nth(I, l)
<1>3. i \in I /\ j \in I /\ i \in Nat /\ j \in Nat /\ Below(I, i) = k - 1 /\ Below(I, j) = l - 1
  BY <1>1, Positions
<1> HIDE DEF i, j
<1>4. ~(j < i)
  <2>1. Below(I, i) \in Nat /\ Below(I, j) \in Nat
    BY <1>3, BelowNext
  <2>2. j < i => Below(I, j) < Below(I, i)
    BY <1>3, BelowGrows
  <2> QED BY <1>2, <1>3, <2>1, <2>2
<1>5. i # j
  BY <1>2, <1>3
<1>6. i < j
  BY <1>3, <1>4, <1>5
<1> QED BY <1>6 DEF i, j

\* Every position of I is one of them.
LEMMA NthOnto ==
    ASSUME NEW n, NEW I, Upto(n, I), NEW i \in I
    PROVE  \E k \in 1 .. Cardinality(I) : Nth(I, k) = i
<1> DEFINE k == Below(I, i) + 1
<1>1. i \in Nat /\ Below(I, i) \in Nat /\ Cardinality(I) \in Nat
  BY Positions, BelowCounts, BelowNext
<1>2. Below(I, i) < Cardinality(I)
  <2> DEFINE L == {j \in I : j < i}
  <2>1. IsFiniteSet(I) /\ L \subseteq I /\ i \in I /\ i \notin L
    BY Positions, BelowCounts
  <2>2. Cardinality(L) <= Cardinality(I) /\ (Cardinality(L) = Cardinality(I) => L = I)
    BY <2>1, FS_Subset
  <2>3. Cardinality(L) # Cardinality(I)
    BY <2>1, <2>2
  <2> QED BY <1>1, <2>2, <2>3 DEF Below
<1>3. k \in 1 .. Cardinality(I) /\ k - 1 = Below(I, i)
  BY <1>1, <1>2
<1>4. Nth(I, k) \in I /\ Below(I, Nth(I, k)) = Below(I, i)
  <2> HIDE DEF k
  <2> QED BY <1>3, NthIs
<1>5. Nth(I, k) = i
  <2> DEFINE j == Nth(I, k)
  <2>1. j \in I /\ Below(I, j) = Below(I, i) /\ j \in Nat
    BY <1>4, Positions
  <2> HIDE DEF j
  <2>2. j < i => Below(I, j) < Below(I, i)
    BY <2>1, BelowGrows
  <2>3. i < j => Below(I, i) < Below(I, j)
    BY <2>1, BelowGrows
  <2>4. j = i
    BY <1>1, <2>1, <2>2, <2>3
  <2> QED BY <2>4 DEF j
<1> QED BY <1>3, <1>5

-----------------------------------------------------------------------------
(* What stays of a queue: the items of the kept positions, in their order.  *)

LEMMA KeptSeq ==
    ASSUME NEW S, NEW q \in Seq(S), NEW I \in SUBSET DOMAIN q
    PROVE  /\ Kept(q, I) \in Seq(S) /\ Len(Kept(q, I)) = Cardinality(I)
           /\ DOMAIN Kept(q, I) = 1 .. Cardinality(I)
           /\ Cardinality(I) \in Nat /\ Cardinality(I) <= Len(q)
           /\ \A k \in DOMAIN Kept(q, I) : Nth(I, k) \in I /\ Kept(q, I)[k] = q[Nth(I, k)]
<1>1. Upto(Len(q), I)
  BY DEF Upto
<1>2. Cardinality(I) \in Nat /\ Cardinality(I) <= Len(q)
  BY <1>1, BelowCounts
<1>3. \A k \in 1 .. Cardinality(I) : Nth(I, k) \in I
  BY <1>1, NthIs
<1>4. Kept(q, I) \in [1 .. Cardinality(I) -> S]
  BY <1>3 DEF Kept
<1>5. Kept(q, I) \in Seq(S) /\ Len(Kept(q, I)) = Cardinality(I) /\ DOMAIN Kept(q, I) = 1 .. Cardinality(I)
  BY <1>2, <1>4
<1>6. \A k \in DOMAIN Kept(q, I) : Nth(I, k) \in I /\ Kept(q, I)[k] = q[Nth(I, k)]
  BY <1>3, <1>5 DEF Kept
<1> QED BY <1>2, <1>5, <1>6

LEMMA KeptOrder ==
    ASSUME NEW S, NEW q \in Seq(S), NEW I \in SUBSET DOMAIN q,
           NEW k \in DOMAIN Kept(q, I), NEW l \in DOMAIN Kept(q, I), k < l
    PROVE  Nth(I, k) < Nth(I, l)
<1>1. Upto(Len(q), I)
  BY DEF Upto
<1>2. k \in 1 .. Cardinality(I) /\ l \in 1 .. Cardinality(I)
  BY KeptSeq
<1> QED BY <1>1, <1>2, NthOrder

\* Every item at a kept position is there.
LEMMA KeptAll ==
    ASSUME NEW S, NEW q \in Seq(S), NEW I \in SUBSET DOMAIN q, NEW i \in I
    PROVE  \E k \in DOMAIN Kept(q, I) : Kept(q, I)[k] = q[i]
<1>1. Upto(Len(q), I)
  BY DEF Upto
<1>2. PICK k \in 1 .. Cardinality(I) : Nth(I, k) = i
  BY <1>1, NthOnto
<1>3. k \in DOMAIN Kept(q, I) /\ Kept(q, I)[k] = q[i]
  BY <1>2, KeptSeq
<1> QED BY <1>3

\* A queue that loses nothing is the queue it was.
LEMMA KeptWhole ==
    ASSUME NEW S, NEW q \in Seq(S), NEW I \in SUBSET DOMAIN q, Len(Kept(q, I)) = Len(q)
    PROVE  I = DOMAIN q /\ Kept(q, I) = q
<1>0. Len(q) \in Nat /\ DOMAIN q = 1 .. Len(q) /\ q \in [1 .. Len(q) -> S]
  OBVIOUS
<1>1. IsFiniteSet(DOMAIN q) /\ Cardinality(DOMAIN q) = Len(q)
  BY <1>0, Interval
<1>2. Cardinality(I) = Len(q)
  BY KeptSeq
<1>3. I = DOMAIN q
  BY <1>1, <1>2, FS_Subset
<1>4. \A k \in 1 .. Len(q) : Nth(I, k) = k
  <2> TAKE k \in 1 .. Len(q)
  <2> DEFINE i == Nth(I, k)
  <2>1. Upto(Len(q), I) /\ k \in 1 .. Cardinality(I)
    BY <1>0, <1>2 DEF Upto
  <2>2. i \in I /\ Below(I, i) = k - 1
    BY <2>1, NthIs
  <2>3. i \in Nat /\ 1 <= i /\ i <= Len(q)
    BY <1>0, <1>3, <2>2
  <2> HIDE DEF i
  <2>4. {j \in I : j < i} = 1 .. (i - 1)
    <3>1. I = 1 .. Len(q)
      BY <1>0, <1>3
    <3>2. \A j : j \in I /\ j < i <=> j \in 1 .. (i - 1)
      BY <1>0, <2>3, <3>1
    <3> QED BY <3>2
  <2>5. i - 1 \in Nat /\ Cardinality(1 .. (i - 1)) = i - 1
    BY <2>3, Interval
  <2>6. Below(I, i) = i - 1
    BY <2>4, <2>5 DEF Below
  <2>7. i = k
    BY <2>2, <2>3, <2>6
  <2> QED BY <2>7 DEF i
<1>5. \A k \in 1 .. Len(q) : Kept(q, I)[k] = q[k]
  BY <1>0, <1>2, <1>4, KeptSeq
<1>6. Kept(q, I) = [k \in 1 .. Len(q) |-> q[k]]
  BY <1>2, <1>4 DEF Kept
<1>7. Kept(q, I) = q
  BY <1>0, <1>6
<1> QED BY <1>3, <1>7

\* One position less is one item less.
LEMMA WithoutOne ==
    ASSUME NEW S, NEW q \in Seq(S), NEW i \in DOMAIN q
    PROVE  /\ DOMAIN q \ {i} \in SUBSET DOMAIN q
           /\ Without(q, i) \in Seq(S) /\ Len(Without(q, i)) = Len(q) - 1
<1>0. Len(q) \in Nat /\ DOMAIN q = 1 .. Len(q)
  OBVIOUS
<1>1. IsFiniteSet(DOMAIN q) /\ Cardinality(DOMAIN q) = Len(q)
  BY <1>0, Interval
<1>2. Cardinality(DOMAIN q \ {i}) = Len(q) - 1
  BY <1>1, FS_RemoveElement
<1> QED BY <1>2, KeptSeq DEF Without

-----------------------------------------------------------------------------
(* What put and get choose.                                                 *)

LEMMA MetaTypes ==
    \A e \in Item : /\ e.cmd \in QCmd /\ e.boot \in QBoots
                    /\ Priority(e) \in Nat
                    /\ Meta[e.cmd].interrupt \in BOOLEAN /\ Meta[e.cmd].discardable \in BOOLEAN
<1> TAKE e \in Item
<1>1. e.cmd \in QCmd /\ e.boot \in QBoots
  BY DEF Item
<1>2. Meta[e.cmd] \in CommandMeta
  BY <1>1, QueueAssumption DEF QueueAssumption
<1>3. \A m \in CommandMeta : m.priority \in Nat /\ m.interrupt \in BOOLEAN /\ m.discardable \in BOOLEAN
  BY DEF CommandMeta
<1> QED BY <1>1, <1>2, <1>3 DEF Priority

\* The lowest and oldest item of some is one of them.
LEMMA LowestOldestIs ==
    ASSUME NEW q \in Seq(Item), NEW I \in SUBSET DOMAIN q, I # {}
    PROVE  LowestOldest(q, I) \in I
<1>0. \A i \in I : i \in Nat /\ Priority(q[i]) \in Nat
  <2>1. \A i \in I : i \in Nat /\ q[i] \in Item
    OBVIOUS
  <2> QED BY <2>1, MetaTypes
<1>1. PICK p \in {Priority(q[i]) : i \in I} : \A r \in {Priority(q[i]) : i \in I} : p <= r
  <2> DEFINE T == {Priority(q[i]) : i \in I}
  <2>1. T \in SUBSET Nat /\ T # {}
    BY <1>0
  <2> HIDE DEF T
  <2>2. \E p \in T : \A r \in T : p <= r
    BY <2>1, LeastNumber
  <2> QED BY <2>2 DEF T
<1>2. PICK i \in {j \in I : Priority(q[j]) = p} : \A k \in {j \in I : Priority(q[j]) = p} : i <= k
  <2> DEFINE U == {j \in I : Priority(q[j]) = p}
  <2>1. U \in SUBSET Nat /\ U # {}
    BY <1>0, <1>1
  <2> HIDE DEF U
  <2>2. \E i \in U : \A k \in U : i <= k
    BY <2>1, LeastNumber
  <2> QED BY <2>2 DEF U
<1>3. i \in I /\ \A j \in I : \/ Priority(q[i]) < Priority(q[j])
                              \/ Priority(q[i]) = Priority(q[j]) /\ i <= j
  <2>1. \A j \in I : p <= Priority(q[j])
    BY <1>1
  <2>2. \A j \in I : Priority(q[j]) = p => i <= j
    BY <1>2
  <2>3. i \in I /\ Priority(q[i]) = p /\ p \in Nat
    BY <1>0, <1>2
  <2>4. ASSUME NEW j \in I
        PROVE  Priority(q[i]) < Priority(q[j]) \/ (Priority(q[i]) = Priority(q[j]) /\ i <= j)
    <3>1. p <= Priority(q[j]) /\ Priority(q[j]) \in Nat
      BY <1>0, <2>1
    <3>2. CASE Priority(q[j]) = p
      BY <2>2, <2>3, <3>2
    <3>3. CASE Priority(q[j]) # p
      BY <2>3, <3>1, <3>3
    <3> QED BY <3>2, <3>3
  <2> QED BY <2>3, <2>4
<1> QED BY <1>3 DEF LowestOldest

\* The priorities of a queue have a bound, the lowest of which one item has.
LEMMA HighestIs ==
    ASSUME NEW q \in Seq(Item), NEW I \in SUBSET DOMAIN q, I # {}
    PROVE  \E i \in I : \A j \in I : Priority(q[j]) <= Priority(q[i])
<1>0. /\ \A i \in I : i \in Nat /\ 1 <= i /\ i <= Len(q) /\ Priority(q[i]) \in Nat
      /\ Len(q) \in Nat
  <2>1. \A i \in I : i \in Nat /\ 1 <= i /\ i <= Len(q) /\ q[i] \in Item
    OBVIOUS
  <2> QED BY <2>1, MetaTypes
<1> DEFINE Bounds(n) == {b \in Nat : \A i \in I : i <= n => Priority(q[i]) <= b}
<1>1. \A n \in Nat : Bounds(n) # {}
  <2> DEFINE T == {n \in Nat : Bounds(n) = {}}
  <2> SUFFICES ASSUME T # {} PROVE FALSE
    OBVIOUS
  <2>1. PICK n \in T : \A m \in T : n <= m
    <3> T \in SUBSET Nat
      OBVIOUS
    <3> HIDE DEF T
    <3> QED BY LeastNumber
  <2>2. n \in Nat /\ Bounds(n) = {}
    BY <2>1
  <2>3. n # 0
    <3>1. 0 \in Bounds(0)
      BY <1>0
    <3> QED BY <2>2, <3>1
  <2>4. PICK b \in Nat : \A i \in I : i <= n - 1 => Priority(q[i]) <= b
    <3>1. n - 1 \in Nat /\ n - 1 \notin T
      BY <2>1, <2>2, <2>3
    <3> QED BY <3>1
  <2>5. CASE n \in I
    <3>1. PICK c \in Nat : b <= c /\ Priority(q[n]) <= c
      <4>1. Priority(q[n]) \in Nat
        BY <1>0, <2>5
      <4>2. b + Priority(q[n]) \in Nat /\ b <= b + Priority(q[n]) /\ Priority(q[n]) <= b + Priority(q[n])
        BY <4>1
      <4> QED BY <4>2
    <3>2. \A i \in I : i <= n => Priority(q[i]) <= c
      <4> SUFFICES ASSUME NEW i \in I, i <= n PROVE Priority(q[i]) <= c
        OBVIOUS
      <4>1. i = n \/ i <= n - 1
        BY <1>0, <2>2
      <4>2. i <= n - 1 => Priority(q[i]) <= b
        BY <2>4
      <4>3. Priority(q[i]) \in Nat
        BY <1>0
      <4> QED BY <3>1, <4>1, <4>2, <4>3
    <3> QED BY <2>2, <3>2
  <2>6. CASE n \notin I
    <3>1. \A i \in I : i <= n => i <= n - 1
      BY <1>0, <2>2, <2>6
    <3>2. b \in Bounds(n)
      BY <2>4, <3>1
    <3> QED BY <2>2, <3>2
  <2> QED BY <2>5, <2>6
<1>2. PICK b \in Bounds(Len(q)) : \A c \in Bounds(Len(q)) : b <= c
  <2> DEFINE T == Bounds(Len(q))
  <2>1. T \in SUBSET Nat /\ T # {}
    BY <1>0, <1>1
  <2> HIDE DEF T
  <2>2. \E b \in T : \A c \in T : b <= c
    BY <2>1, LeastNumber
  <2> QED BY <2>2 DEF T
<1>3. b \in Nat /\ \A i \in I : Priority(q[i]) <= b
  BY <1>0, <1>2
<1>4. \E i \in I : Priority(q[i]) = b
  <2> SUFFICES ASSUME \A i \in I : Priority(q[i]) # b PROVE FALSE
    OBVIOUS
  <2>1. \A i \in I : Priority(q[i]) < b
    BY <1>0, <1>3
  <2>2. b # 0
    BY <1>0, <2>1
  <2>3. b - 1 \in Nat /\ \A i \in I : Priority(q[i]) <= b - 1
    BY <1>0, <1>3, <2>1, <2>2
  <2>4. b - 1 \in Bounds(Len(q))
    BY <2>3
  <2>5. b <= b - 1
    BY <1>2, <2>4
  <2> QED BY <1>3, <2>5
<1> QED BY <1>3, <1>4

\* The item that get returns is an eligible one.
LEMMA BestIs ==
    ASSUME NEW q \in Seq(Item), NEW I \in SUBSET DOMAIN q, I # {}
    PROVE  Best(q, I) \in I
<1>0. \A i \in I : i \in Nat /\ Priority(q[i]) \in Nat
  <2>1. \A i \in I : i \in Nat /\ q[i] \in Item
    OBVIOUS
  <2> QED BY <2>1, MetaTypes
<1>1. PICK h \in I : \A j \in I : Priority(q[j]) <= Priority(q[h])
  BY HighestIs
<1>2. PICK i \in {j \in I : Priority(q[j]) = Priority(q[h])} :
         \A k \in {j \in I : Priority(q[j]) = Priority(q[h])} : i <= k
  <2> DEFINE U == {j \in I : Priority(q[j]) = Priority(q[h])}
  <2>1. U \in SUBSET Nat /\ U # {}
    BY <1>0
  <2> HIDE DEF U
  <2>2. \E i \in U : \A k \in U : i <= k
    BY <2>1, LeastNumber
  <2> QED BY <2>2 DEF U
<1>3. i \in I /\ \A j \in I : \/ Priority(q[i]) > Priority(q[j])
                              \/ Priority(q[i]) = Priority(q[j]) /\ i <= j
  <2>1. \A j \in I : Priority(q[j]) = Priority(q[h]) => i <= j
    BY <1>2
  <2>2. i \in I /\ Priority(q[i]) = Priority(q[h])
    BY <1>2
  <2>3. ASSUME NEW j \in I
        PROVE  Priority(q[i]) > Priority(q[j]) \/ (Priority(q[i]) = Priority(q[j]) /\ i <= j)
    <3>1. Priority(q[j]) <= Priority(q[h]) /\ Priority(q[j]) \in Nat /\ Priority(q[h]) \in Nat
      BY <1>0, <1>1
    <3>2. CASE Priority(q[j]) = Priority(q[h])
      BY <2>1, <2>2, <3>2
    <3>3. CASE Priority(q[j]) # Priority(q[h])
      BY <2>2, <3>1, <3>3
    <3> QED BY <3>2, <3>3
  <2> QED BY <2>2, <2>3
<1> QED BY <1>3 DEF Best

-----------------------------------------------------------------------------
(* The types.                                                               *)

LEMMA ThinnedSeq ==
    ASSUME NEW q \in Seq(Item), NEW e
    PROVE  /\ Preempted(q, e) \in Seq(Item) /\ Len(Preempted(q, e)) <= Len(q)
           /\ Thinned(q, e) \in Seq(Item) /\ Len(Thinned(q, e)) <= Len(Preempted(q, e))
           /\ Len(q) \in Nat /\ Len(Preempted(q, e)) \in Nat /\ Len(Thinned(q, e)) \in Nat
<1>1. \A r \in Seq(Item) : Len(r) \in Nat
  OBVIOUS
<1>2. Preempted(q, e) \in Seq(Item) /\ Len(Preempted(q, e)) <= Len(q)
  <2> DEFINE I == {i \in DOMAIN q : Priority(q[i]) > Priority(e) /\ ~Meta[q[i].cmd].discardable}
  <2>1. I \in SUBSET DOMAIN q /\ (Preempted(q, e) = q \/ Preempted(q, e) = Kept(q, I))
    BY DEF Preempted
  <2> HIDE DEF I
  <2>2. Kept(q, I) \in Seq(Item) /\ Len(Kept(q, I)) <= Len(q)
    BY <2>1, KeptSeq
  <2> QED BY <1>1, <2>1, <2>2
<1> DEFINE p == Preempted(q, e)
<1>3. Thinned(q, e) \in Seq(Item) /\ Len(Thinned(q, e)) <= Len(p)
  <2> DEFINE I == {i \in DOMAIN p : \/ Meta[p[i].cmd].coalesceKey # Meta[e.cmd].coalesceKey
                                     \/ Priority(p[i]) > Priority(e)}
  <2>1. I \in SUBSET DOMAIN p /\ (Thinned(q, e) = p \/ Thinned(q, e) = Kept(p, I))
    BY DEF Thinned, Coalesced
  <2>2. p \in Seq(Item)
    BY <1>2
  <2> HIDE DEF I, p
  <2>3. Kept(p, I) \in Seq(Item) /\ Len(Kept(p, I)) <= Len(p)
    BY <2>1, <2>2, KeptSeq
  <2> QED BY <1>1, <2>1, <2>2, <2>3
<1> QED BY <1>1, <1>2, <1>3

\* The item a full queue gives up is one that does not outrank the new one.
LEMMA DropIndexIs ==
    ASSUME NEW q \in Seq(Item), NEW e, Outranked(q, e) # {}
    PROVE  DropIndex(q, e) \in Outranked(q, e) /\ DropIndex(q, e) \in DOMAIN q
<1> DEFINE D == {i \in Outranked(q, e) : Meta[q[i].cmd].discardable}
           I == IF D # {} THEN D ELSE Outranked(q, e)
<1>1. I \in SUBSET DOMAIN q /\ I # {} /\ I \subseteq Outranked(q, e)
  BY DEF Outranked
<1>2. LowestOldest(q, I) \in I
  <2> HIDE DEF I
  <2> QED BY <1>1, LowestOldestIs
<1>3. DropIndex(q, e) = LowestOldest(q, I)
  BY DEF DropIndex
<1> QED BY <1>1, <1>2, <1>3

LEMMA AfterPutSeq ==
    ASSUME NEW q \in Seq(Item), Len(q) <= MaxSize, NEW e \in Item
    PROVE  AfterPut(q, e) \in Seq(Item) /\ Len(AfterPut(q, e)) <= MaxSize
<1> DEFINE t == Thinned(q, e)
<1>0. MaxSize \in Nat \ {0}
  BY QueueAssumption DEF QueueAssumption
<1>1. t \in Seq(Item) /\ Len(t) \in Nat /\ Len(t) <= MaxSize
  <2>1. /\ t \in Seq(Item) /\ Len(t) <= Len(Preempted(q, e)) /\ Len(Preempted(q, e)) <= Len(q)
        /\ Len(q) \in Nat /\ Len(Preempted(q, e)) \in Nat /\ Len(t) \in Nat
    BY ThinnedSeq
  <2> QED BY <1>0, <2>1
<1>2. CASE Len(t) < MaxSize
  <2>1. AfterPut(q, e) = Append(t, e)
    BY <1>2 DEF AfterPut
  <2> HIDE DEF t
  <2> QED BY <1>0, <1>1, <1>2, <2>1
<1>3. CASE ~(Len(t) < MaxSize) /\ Outranked(t, e) # {}
  <2> DEFINE w == Without(t, DropIndex(t, e))
  <2>1. AfterPut(q, e) = Append(w, e)
    BY <1>3 DEF AfterPut
  <2>2. DropIndex(t, e) \in DOMAIN t
    BY <1>1, <1>3, DropIndexIs
  <2>3. w \in Seq(Item) /\ Len(w) = Len(t) - 1
    <3> HIDE DEF t
    <3> QED BY <1>1, <2>2, WithoutOne
  <2> HIDE DEF w, t
  <2> QED BY <1>0, <1>1, <2>1, <2>3
<1>4. CASE ~(Len(t) < MaxSize) /\ Outranked(t, e) = {}
  BY <1>1, <1>4 DEF AfterPut
<1> QED BY <1>2, <1>3, <1>4

LEMMA AfterDiscardSeq ==
    ASSUME NEW q \in Seq(Item), NEW c
    PROVE  AfterDiscard(q, c) = q \/ \E i \in DOMAIN q : AfterDiscard(q, c) = Without(q, i)
<1> DEFINE at == {i \in DOMAIN q : q[i].cmd = c}
<1>1. CASE at = {}
  BY <1>1 DEF AfterDiscard
<1>2. CASE at # {}
  <2>1. PICK i \in at : \A j \in at : i <= j
    <3>1. at \in SUBSET Nat
      OBVIOUS
    <3> HIDE DEF at
    <3> QED BY <1>2, <3>1, LeastNumber
  <2> DEFINE first == CHOOSE k \in at : \A j \in at : k <= j
  <2>2. first \in at
    BY <2>1
  <2>3. AfterDiscard(q, c) = Without(q, first)
    BY <1>2 DEF AfterDiscard
  <2> QED BY <2>2, <2>3
<1> QED BY <1>1, <1>2

\* The operations that take items out of the queue leave some of those there
\* are, in their order.
Drops == \E I \in SUBSET DOMAIN items : items' = Kept(items, I)

LEMMA WithoutDrops == ASSUME NEW i, items' = Without(items, i) PROVE Drops
<1>1. DOMAIN items \ {i} \in SUBSET DOMAIN items
  OBVIOUS
<1> QED BY <1>1 DEF Without, Drops

LEMMA GetDrops == ASSUME NEW b, NEW s, NEW f, Get(b, s, f) PROVE Drops
  BY WithoutDrops DEF Get

LEMMA DiscardDrops == ASSUME items \in Seq(Item), NEW c, Discard(c) PROVE Drops \/ items' = items
  BY WithoutDrops, AfterDiscardSeq DEF Discard

LEMMA DiscardOtherBootsDrops == ASSUME NEW b, DiscardOtherBoots(b) PROVE Drops
<1> DEFINE I == {i \in DOMAIN items : items[i].boot \in {0, b}}
<1>1. I \in SUBSET DOMAIN items /\ items' = Kept(items, I)
  BY DEF DiscardOtherBoots, OtherBootsDiscarded
<1> QED BY <1>1 DEF Drops

LEMMA DiscardSpeechDrops == ASSUME NEW g, DiscardSpeechBefore(g) PROVE Drops
<1> DEFINE I == {i \in DOMAIN items : ~(Meta[items[i].cmd].type = "speak" /\ Meta[items[i].cmd].generation < g)}
<1>1. I \in SUBSET DOMAIN items /\ items' = Kept(items, I)
  BY DEF DiscardSpeechBefore, OldSpeechDiscarded
<1> QED BY <1>1 DEF Drops

LEMMA ExpireDrops == Expire => Drops
  BY WithoutDrops DEF Expire

\* Every operation puts an item, or leaves some of those there are.
LEMMA Operations ==
    ASSUME TypeOK, [Next]_vars
    PROVE  (\E e \in Item : Put(e)) \/ Drops \/ items' = items
<1>0. items \in Seq(Item)
  BY DEF TypeOK
<1> QED BY <1>0, GetDrops, DiscardDrops, DiscardOtherBootsDrops, DiscardSpeechDrops, ExpireDrops
        DEF Next, vars

\* A queue that loses items holds only items that it held.
LEMMA DropsTyped ==
    ASSUME TypeOK, Drops
    PROVE  TypeOK' /\ ToSet(items') \subseteq ToSet(items)
<1>1. PICK I \in SUBSET DOMAIN items : items' = Kept(items, I)
  BY DEF Drops
<1>2. items \in Seq(Item) /\ Len(items) <= MaxSize /\ Len(items) \in Nat /\ MaxSize \in Nat
  BY QueueAssumption DEF TypeOK, QueueAssumption
<1>3. /\ items' \in Seq(Item) /\ Len(items') = Cardinality(I) /\ Cardinality(I) <= Len(items) /\ Cardinality(I) \in Nat
      /\ \A k \in DOMAIN items' : Nth(I, k) \in I /\ items'[k] = items[Nth(I, k)]
  BY <1>1, <1>2, KeptSeq
<1>4. TypeOK'
  BY <1>2, <1>3 DEF TypeOK
<1>5. ToSet(items') \subseteq ToSet(items)
  BY <1>3 DEF ToSet
<1> QED BY <1>4, <1>5

\* A queue that is put an item holds only that one and items that it held.
LEMMA AppendFrom ==
    ASSUME NEW q \in Seq(Item), NEW e \in Item
    PROVE  ToSet(Append(q, e)) \subseteq ToSet(q) \cup {e}
<1> DEFINE r == Append(q, e)
<1>1. \A k \in DOMAIN r : r[k] = e \/ (k \in DOMAIN q /\ r[k] = q[k])
  OBVIOUS
<1> HIDE DEF r
<1>2. ToSet(r) \subseteq ToSet(q) \cup {e}
  BY <1>1 DEF ToSet
<1> QED BY <1>2 DEF r

LEMMA KeptFrom ==
    ASSUME NEW q \in Seq(Item), NEW I \in SUBSET DOMAIN q
    PROVE  ToSet(Kept(q, I)) \subseteq ToSet(q)
  BY KeptSeq DEF ToSet

LEMMA ThinnedFrom ==
    ASSUME NEW q \in Seq(Item), NEW e
    PROVE  ToSet(Thinned(q, e)) \subseteq ToSet(q)
<1> DEFINE p == Preempted(q, e)
<1>1. p \in Seq(Item)
  BY ThinnedSeq
<1>2. ToSet(p) \subseteq ToSet(q)
  <2> DEFINE I == {i \in DOMAIN q : Priority(q[i]) > Priority(e) /\ ~Meta[q[i].cmd].discardable}
  <2>1. I \in SUBSET DOMAIN q /\ (p = q \/ p = Kept(q, I))
    BY DEF Preempted
  <2> HIDE DEF I, p
  <2> QED BY <2>1, KeptFrom
<1>3. ToSet(Thinned(q, e)) \subseteq ToSet(p)
  <2> DEFINE I == {i \in DOMAIN p : \/ Meta[p[i].cmd].coalesceKey # Meta[e.cmd].coalesceKey
                                     \/ Priority(p[i]) > Priority(e)}
  <2>1. I \in SUBSET DOMAIN p /\ (Thinned(q, e) = p \/ Thinned(q, e) = Kept(p, I))
    BY DEF Thinned, Coalesced
  <2> HIDE DEF I, p
  <2> QED BY <1>1, <2>1, KeptFrom
<1> QED BY <1>2, <1>3

LEMMA PutTyped ==
    ASSUME TypeOK, NEW e \in Item, Put(e)
    PROVE  TypeOK' /\ ToSet(items') \subseteq ToSet(items) \cup {e}
<1> DEFINE t == Thinned(items, e)
<1>0. items \in Seq(Item) /\ Len(items) <= MaxSize /\ items' = AfterPut(items, e)
  BY DEF TypeOK, Put
<1>1. TypeOK'
  BY <1>0, AfterPutSeq DEF TypeOK
<1>2. t \in Seq(Item) /\ ToSet(t) \subseteq ToSet(items)
  BY <1>0, ThinnedSeq, ThinnedFrom
<1>3. CASE Len(t) < MaxSize
  <2>1. items' = Append(t, e)
    BY <1>0, <1>3 DEF AfterPut
  <2> HIDE DEF t
  <2> QED BY <1>1, <1>2, <2>1, AppendFrom
<1>4. CASE ~(Len(t) < MaxSize) /\ Outranked(t, e) # {}
  <2> DEFINE I == DOMAIN t \ {DropIndex(t, e)}
  <2>1. items' = Append(Kept(t, I), e) /\ I \in SUBSET DOMAIN t
    BY <1>0, <1>4 DEF AfterPut, Without
  <2> HIDE DEF t, I
  <2>2. Kept(t, I) \in Seq(Item) /\ ToSet(Kept(t, I)) \subseteq ToSet(t)
    BY <1>2, <2>1, KeptSeq, KeptFrom
  <2> QED BY <1>1, <1>2, <2>1, <2>2, AppendFrom
<1>5. CASE ~(Len(t) < MaxSize) /\ Outranked(t, e) = {}
  BY <1>0, <1>1, <1>2, <1>5 DEF AfterPut
<1> QED BY <1>3, <1>4, <1>5

LEMMA StepTypes == TypeOK /\ [Next]_vars => TypeOK'
  BY Operations, PutTyped, DropsTyped DEF TypeOK

\* The queue holds items, and no more than max_size.
THEOREM QueueTyped == Spec => []TypeOK
<1>1. Init => TypeOK
  BY QueueAssumption DEF QueueAssumption, Init, TypeOK
<1> QED BY <1>1, StepTypes, PTL DEF Spec

-----------------------------------------------------------------------------
(* The newest of a key.                                                     *)

KeyOf(e) == Meta[e.cmd].coalesceKey
SameKey(x, y) == KeyOf(x) = KeyOf(y) /\ KeyOf(x) # ""
KeyOrder(q) == \A i, j \in DOMAIN q : i < j /\ SameKey(q[i], q[j]) => Priority(q[i]) > Priority(q[j])
\* Every item of e's key that is in q outranks e.
Above(q, e) == \A i \in DOMAIN q : SameKey(q[i], e) => Priority(q[i]) > Priority(e)

LEMMA KeptKeyOrder ==
    ASSUME NEW q \in Seq(Item), NEW I \in SUBSET DOMAIN q, KeyOrder(q)
    PROVE  KeyOrder(Kept(q, I)) /\ \A e : Above(q, e) => Above(Kept(q, I), e)
<1> DEFINE r == Kept(q, I)
<1>1. \A k \in DOMAIN r : Nth(I, k) \in DOMAIN q /\ r[k] = q[Nth(I, k)]
  BY KeptSeq
<1>2. \A k, l \in DOMAIN r : k < l => Nth(I, k) < Nth(I, l)
  BY KeptOrder
<1> HIDE DEF r
<1>3. KeyOrder(r)
  BY <1>1, <1>2 DEF KeyOrder
<1>4. \A e : Above(q, e) => Above(r, e)
  BY <1>1 DEF Above
<1> QED BY <1>3, <1>4 DEF r

\* What put leaves of a queue is in order, and outranks the new item where it
\* has its key.
LEMMA ThinnedKeyOrder ==
    ASSUME NEW q \in Seq(Item), NEW e, KeyOrder(q)
    PROVE  KeyOrder(Thinned(q, e)) /\ Above(Thinned(q, e), e)
<1> DEFINE p == Preempted(q, e)
<1>1. p \in Seq(Item)
  BY ThinnedSeq
<1>2. KeyOrder(p)
  <2> DEFINE I == {i \in DOMAIN q : Priority(q[i]) > Priority(e) /\ ~Meta[q[i].cmd].discardable}
  <2>1. I \in SUBSET DOMAIN q /\ (p = q \/ p = Kept(q, I))
    BY DEF Preempted
  <2> HIDE DEF I, p
  <2>2. KeyOrder(Kept(q, I))
    BY <2>1, KeptKeyOrder
  <2> QED BY <2>1, <2>2
<1>3. CASE KeyOf(e) = ""
  <2>1. Thinned(q, e) = p
    BY <1>3 DEF Thinned, Coalesced, KeyOf
  <2> QED BY <1>2, <1>3, <2>1 DEF Above, SameKey
<1>4. CASE KeyOf(e) # ""
  <2> DEFINE I == {i \in DOMAIN p : \/ Meta[p[i].cmd].coalesceKey # Meta[e.cmd].coalesceKey
                                     \/ Priority(p[i]) > Priority(e)}
  <2>1. I \in SUBSET DOMAIN p /\ Thinned(q, e) = Kept(p, I)
    BY <1>4 DEF Thinned, Coalesced, KeyOf
  <2>2. \A i \in I : SameKey(p[i], e) => Priority(p[i]) > Priority(e)
    BY DEF SameKey, KeyOf
  <2> HIDE DEF I, p
  <2>3. KeyOrder(Kept(p, I))
    BY <1>1, <1>2, <2>1, KeptKeyOrder
  <2>4. \A k \in DOMAIN Kept(p, I) : Nth(I, k) \in I /\ Kept(p, I)[k] = p[Nth(I, k)]
    BY <1>1, <2>1, KeptSeq
  <2>5. Above(Kept(p, I), e)
    BY <2>2, <2>4 DEF Above
  <2> QED BY <2>1, <2>3, <2>5
<1> QED BY <1>3, <1>4

LEMMA AppendKeyOrder ==
    ASSUME NEW q \in Seq(Item), NEW e \in Item, KeyOrder(q), Above(q, e)
    PROVE  KeyOrder(Append(q, e))
<1> DEFINE r == Append(q, e)
<1>1. /\ Len(q) \in Nat /\ DOMAIN q = 1 .. Len(q) /\ DOMAIN r = 1 .. (Len(q) + 1)
      /\ \A i \in DOMAIN q : r[i] = q[i]
      /\ r[Len(q) + 1] = e
  OBVIOUS
<1> SUFFICES ASSUME NEW i \in DOMAIN r, NEW j \in DOMAIN r, i < j, SameKey(r[i], r[j])
             PROVE  Priority(r[i]) > Priority(r[j])
  BY DEF KeyOrder
<1> HIDE DEF r
<1>2. i \in DOMAIN q
  BY <1>1
<1>3. CASE j \in DOMAIN q
  BY <1>1, <1>2, <1>3 DEF KeyOrder
<1>4. CASE j = Len(q) + 1
  BY <1>1, <1>2, <1>4 DEF Above
<1> QED BY <1>1, <1>3, <1>4

LEMMA AfterPutKeyOrder ==
    ASSUME NEW q \in Seq(Item), NEW e \in Item, KeyOrder(q)
    PROVE  KeyOrder(AfterPut(q, e))
<1> DEFINE t == Thinned(q, e)
<1>1. t \in Seq(Item) /\ KeyOrder(t) /\ Above(t, e)
  BY ThinnedSeq, ThinnedKeyOrder
<1>2. CASE Len(t) < MaxSize
  <2>1. AfterPut(q, e) = Append(t, e)
    BY <1>2 DEF AfterPut
  <2> HIDE DEF t
  <2> QED BY <1>1, <2>1, AppendKeyOrder
<1>3. CASE ~(Len(t) < MaxSize) /\ Outranked(t, e) # {}
  <2> DEFINE d == DropIndex(t, e)
             I == DOMAIN t \ {d}
  <2>1. AfterPut(q, e) = Append(Kept(t, I), e) /\ I \in SUBSET DOMAIN t
    BY <1>3 DEF AfterPut, Without
  <2> HIDE DEF t, I
  <2>2. Kept(t, I) \in Seq(Item) /\ KeyOrder(Kept(t, I)) /\ Above(Kept(t, I), e)
    BY <1>1, <2>1, KeptSeq, KeptKeyOrder
  <2> QED BY <2>1, <2>2, AppendKeyOrder
<1>4. CASE ~(Len(t) < MaxSize) /\ Outranked(t, e) = {}
  BY <1>1, <1>4 DEF AfterPut
<1> QED BY <1>2, <1>3, <1>4

\* Of two queued commands with one coalesce key the later one never ranks as
\* high as the earlier: put has replaced the ones it ranks as high as, and
\* neither it, get nor a discard changes the order of those that stay.
THEOREM NewestKept == Spec => []NewestOfKeyWins
<1>1. NewestOfKeyWins <=> KeyOrder(items)
  BY DEF NewestOfKeyWins, KeyOrder, SameKey, KeyOf
<1>2. NewestOfKeyWins' <=> KeyOrder(items')
  BY DEF NewestOfKeyWins, KeyOrder, SameKey, KeyOf, Priority
<1>3. Init => NewestOfKeyWins
  <2>1. \A i \in DOMAIN << >> : FALSE
    OBVIOUS
  <2> QED BY <2>1 DEF Init, NewestOfKeyWins
<1>4. TypeOK /\ NewestOfKeyWins /\ [Next]_vars => NewestOfKeyWins'
  <2> SUFFICES ASSUME TypeOK, KeyOrder(items), [Next]_vars PROVE KeyOrder(items')
    BY <1>1, <1>2
  <2>1. items \in Seq(Item)
    BY DEF TypeOK
  <2>2. ASSUME NEW e \in Item, Put(e) PROVE KeyOrder(items')
    BY <2>1, <2>2, AfterPutKeyOrder DEF Put
  <2>3. CASE Drops
    BY <2>1, <2>3, KeptKeyOrder DEF Drops
  <2> QED BY <2>2, <2>3, Operations
<1> QED BY <1>3, <1>4, QueueTyped, PTL DEF Spec

-----------------------------------------------------------------------------
(* What put costs.                                                          *)

\* The item at i of q is still in r.
Stays(q, i, r) == \E j \in DOMAIN r : r[j] = q[i]
\* e does not have to spare the item.
Cheap(x, e) == Priority(x) <= Priority(e) \/ (Meta[e.cmd].interrupt /\ Meta[x.cmd].discardable)

LEMMA StaysOn ==
    ASSUME NEW q, NEW r, NEW s, NEW e, NEW i \in DOMAIN q,
           Stays(q, i, r) \/ Cheap(q[i], e),
           \A j \in DOMAIN r : Stays(r, j, s) \/ Cheap(r[j], e)
    PROVE  Stays(q, i, s) \/ Cheap(q[i], e)
  BY DEF Stays

LEMMA KeptCosts ==
    ASSUME NEW q \in Seq(Item), NEW I \in SUBSET DOMAIN q, NEW e,
           \A i \in DOMAIN q : i \in I \/ Cheap(q[i], e)
    PROVE  \A i \in DOMAIN q : Stays(q, i, Kept(q, I)) \/ Cheap(q[i], e)
  BY KeptAll DEF Stays

LEMMA NotAbove ==
    ASSUME NEW q \in Seq(Item), NEW e \in Item
    PROVE  \A i \in DOMAIN q : Priority(q[i]) > Priority(e) \/ Priority(q[i]) <= Priority(e)
<1> TAKE i \in DOMAIN q
<1>1. Priority(q[i]) \in Nat /\ Priority(e) \in Nat
  <2>1. q[i] \in Item
    OBVIOUS
  <2> QED BY <2>1, MetaTypes
<1> QED BY <1>1

\* What interrupting and coalescing clear is cheap.
LEMMA ThinnedCosts ==
    ASSUME NEW q \in Seq(Item), NEW e \in Item
    PROVE  \A i \in DOMAIN q : Stays(q, i, Thinned(q, e)) \/ Cheap(q[i], e)
<1> DEFINE p == Preempted(q, e)
<1>1. p \in Seq(Item)
  BY ThinnedSeq
<1>2. \A i \in DOMAIN q : Stays(q, i, p) \/ Cheap(q[i], e)
  <2> DEFINE I == {i \in DOMAIN q : Priority(q[i]) > Priority(e) /\ ~Meta[q[i].cmd].discardable}
  <2>1. CASE ~Meta[e.cmd].interrupt
    BY <2>1 DEF Preempted, Stays
  <2>2. CASE Meta[e.cmd].interrupt
    <3>1. p = Kept(q, I) /\ I \in SUBSET DOMAIN q
      BY <2>2 DEF Preempted
    <3>2. \A i \in DOMAIN q : i \in I \/ Cheap(q[i], e)
      BY <2>2, NotAbove DEF Cheap
    <3> HIDE DEF I, p
    <3> QED BY <3>1, <3>2, KeptCosts
  <2> QED BY <2>1, <2>2
<1>3. \A j \in DOMAIN p : Stays(p, j, Coalesced(p, e)) \/ Cheap(p[j], e)
  <2> HIDE DEF p
  <2> DEFINE I == {i \in DOMAIN p : \/ Meta[p[i].cmd].coalesceKey # Meta[e.cmd].coalesceKey
                                     \/ Priority(p[i]) > Priority(e)}
  <2>1. CASE Meta[e.cmd].coalesceKey = ""
    BY <2>1 DEF Coalesced, Stays
  <2>2. CASE Meta[e.cmd].coalesceKey # ""
    <3>1. Coalesced(p, e) = Kept(p, I) /\ I \in SUBSET DOMAIN p
      BY <2>2 DEF Coalesced
    <3>2. \A i \in DOMAIN p : i \in I \/ Cheap(p[i], e)
      BY <1>1, NotAbove DEF Cheap
    <3> HIDE DEF I
    <3> QED BY <1>1, <3>1, <3>2, KeptCosts
  <2> QED BY <2>1, <2>2
<1> HIDE DEF p
<1>4. Thinned(q, e) = Coalesced(p, e)
  BY DEF Thinned, p
<1> QED BY <1>2, <1>3, <1>4, StaysOn

LEMMA AppendStays ==
    ASSUME NEW q \in Seq(Item), NEW e \in Item
    PROVE  /\ \A i \in DOMAIN q : Stays(q, i, Append(q, e))
           /\ e \in ToSet(Append(q, e))
<1> DEFINE r == Append(q, e)
<1>1. /\ Len(q) + 1 \in DOMAIN r /\ r[Len(q) + 1] = e
      /\ \A i \in DOMAIN q : i \in DOMAIN r /\ r[i] = q[i]
  OBVIOUS
<1> HIDE DEF r
<1>2. e \in ToSet(r) /\ \A i \in DOMAIN q : Stays(q, i, r)
  BY <1>1 DEF ToSet, Stays
<1> QED BY <1>2 DEF r

\* A queue that is still full after that has lost nothing.
LEMMA ThinnedAtLimit ==
    ASSUME NEW q \in Seq(Item), Len(q) <= MaxSize, NEW e, ~(Len(Thinned(q, e)) < MaxSize)
    PROVE  Thinned(q, e) = q
<1> DEFINE p == Preempted(q, e)
           t == Thinned(q, e)
<1>1. /\ p \in Seq(Item) /\ t \in Seq(Item) /\ Len(t) <= Len(p) /\ Len(p) <= Len(q)
      /\ Len(q) \in Nat /\ Len(p) \in Nat /\ Len(t) \in Nat
  BY ThinnedSeq
<1>2. Len(p) = Len(q) /\ Len(t) = Len(p)
  <2>1. MaxSize \in Nat /\ ~(Len(t) < MaxSize)
    BY QueueAssumption DEF QueueAssumption
  <2> HIDE DEF p, t
  <2> QED BY <1>1, <2>1
<1>3. p = q
  <2> DEFINE I == {i \in DOMAIN q : Priority(q[i]) > Priority(e) /\ ~Meta[q[i].cmd].discardable}
  <2>1. I \in SUBSET DOMAIN q /\ (p = q \/ p = Kept(q, I))
    BY DEF Preempted
  <2> HIDE DEF I, p
  <2> QED BY <1>2, <2>1, KeptWhole
<1>4. t = p
  <2> DEFINE I == {i \in DOMAIN p : \/ Meta[p[i].cmd].coalesceKey # Meta[e.cmd].coalesceKey
                                     \/ Priority(p[i]) > Priority(e)}
  <2>1. I \in SUBSET DOMAIN p /\ (t = p \/ t = Kept(p, I))
    BY DEF Thinned, Coalesced
  <2> HIDE DEF I, p, t
  <2> QED BY <1>1, <1>2, <2>1, KeptWhole
<1> QED BY <1>3, <1>4

\* put takes effect, and costs only what is cheap; or it leaves the queue.
LEMMA AfterPutCosts ==
    ASSUME NEW q \in Seq(Item), Len(q) <= MaxSize, NEW e \in Item
    PROVE  \/ AfterPut(q, e) = q
           \/ /\ e \in ToSet(AfterPut(q, e))
              /\ \A i \in DOMAIN q : Stays(q, i, AfterPut(q, e)) \/ Cheap(q[i], e)
<1> DEFINE t == Thinned(q, e)
<1>1. t \in Seq(Item) /\ \A i \in DOMAIN q : Stays(q, i, t) \/ Cheap(q[i], e)
  BY ThinnedSeq, ThinnedCosts
<1>2. CASE Len(t) < MaxSize
  <2>1. AfterPut(q, e) = Append(t, e)
    BY <1>2 DEF AfterPut
  <2> HIDE DEF t
  <2>2. e \in ToSet(Append(t, e)) /\ \A i \in DOMAIN t : Stays(t, i, Append(t, e))
    BY <1>1, AppendStays
  <2>3. \A i \in DOMAIN q : Stays(q, i, Append(t, e)) \/ Cheap(q[i], e)
    BY <1>1, <2>2, StaysOn
  <2> QED BY <2>1, <2>2, <2>3
<1>3. CASE ~(Len(t) < MaxSize) /\ Outranked(t, e) # {}
  <2> DEFINE d == DropIndex(t, e)
             I == DOMAIN t \ {d}
             w == Kept(t, I)
  <2>1. AfterPut(q, e) = Append(w, e) /\ I \in SUBSET DOMAIN t
    BY <1>3 DEF AfterPut, Without
  <2>2. d \in Outranked(t, e)
    BY <1>1, <1>3, DropIndexIs
  <2> HIDE DEF t
  <2>3. \A i \in DOMAIN t : i \in I \/ Cheap(t[i], e)
    BY <2>2 DEF Outranked, Cheap
  <2> HIDE DEF I, d
  <2>4. w \in Seq(Item) /\ \A i \in DOMAIN t : Stays(t, i, w) \/ Cheap(t[i], e)
    BY <1>1, <2>1, <2>3, KeptSeq, KeptCosts
  <2> HIDE DEF w
  <2>5. e \in ToSet(Append(w, e)) /\ \A i \in DOMAIN w : Stays(w, i, Append(w, e))
    BY <2>4, AppendStays
  <2>6. \A i \in DOMAIN q : Stays(q, i, w) \/ Cheap(q[i], e)
    BY <1>1, <2>4, StaysOn
  <2>7. \A i \in DOMAIN q : Stays(q, i, Append(w, e)) \/ Cheap(q[i], e)
    BY <2>5, <2>6, StaysOn
  <2> QED BY <2>1, <2>5, <2>7
<1>4. CASE ~(Len(t) < MaxSize) /\ Outranked(t, e) = {}
  <2>1. AfterPut(q, e) = t
    BY <1>4 DEF AfterPut
  <2>2. t = q
    BY <1>4, ThinnedAtLimit
  <2> QED BY <2>1, <2>2
<1> QED BY <1>2, <1>3, <1>4

\* A refused command has cost no other its place, and an accepted one costs a
\* command that outranks it its place only by interrupting a discardable one.
THEOREM PutIsFair == Spec => PutCostsNothingHigher
<1> DEFINE Fair == \A e \in Item : e.cmd \notin Queued /\ Put(e) =>
              IF e \in ToSet(items')
              THEN \A i \in Lost(e) : \/ Priority(items[i]) <= Priority(e)
                                      \/ Meta[e.cmd].interrupt /\ Meta[items[i].cmd].discardable
              ELSE items' = items
<1>1. TypeOK => Fair
  <2> SUFFICES ASSUME TypeOK, NEW e \in Item, e.cmd \notin Queued, Put(e)
               PROVE  IF e \in ToSet(items')
                      THEN \A i \in Lost(e) : Cheap(items[i], e)
                      ELSE items' = items
    BY DEF Cheap
  <2>1. items \in Seq(Item) /\ Len(items) <= MaxSize /\ items' = AfterPut(items, e)
    BY DEF TypeOK, Put
  <2>2. CASE items' = items
    <3>1. e \notin ToSet(items)
      BY DEF Queued, ToSet
    <3> QED BY <2>2, <3>1
  <2>3. CASE /\ e \in ToSet(items')
             /\ \A i \in DOMAIN items : Stays(items, i, items') \/ Cheap(items[i], e)
    BY <2>3 DEF Lost, Stays
  <2> QED BY <2>1, <2>2, <2>3, AfterPutCosts
<1>2. TypeOK => [Fair]_vars
  BY <1>1
<1> QED BY <1>2, QueueTyped, PTL DEF PutCostsNothingHigher
=============================================================================
