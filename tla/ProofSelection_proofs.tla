---------------------- MODULE ProofSelection_proofs ----------------------
(***************************************************************************)
(* Proofs about ProofSelection, for any purse and any fees: what the greedy*)
(* selection may refuse, what a receiver nets, and what the blanks hold.   *)
(* They rest on facts about sums and about powers of two, which are proved *)
(* here too.  The induction theorems of the library take an operator; here *)
(* a counterexample that is minimal (WFMin) takes their place.             *)
(***************************************************************************)
EXTENDS ProofSelection, FiniteSetTheorems, WellFoundedInduction, TLAPS

-----------------------------------------------------------------------------
(* Minimal counterexamples.                                                *)

LEMMA MinimalSubset ==
  ASSUME NEW S, IsFiniteSet(S), NEW B, B \subseteq SUBSET S, B # {}
  PROVE  \E T \in B : \A U \in B : U \subseteq T => U = T
<1>1. IsWellFoundedOn(StrictSubsetOrdering(S), SUBSET S)
  BY FS_StrictSubsetOrderingWellFounded, FS_FiniteSubsetsOfFinite
<1>2. PICK T \in B : \A U \in B : ~ (<<U, T>> \in StrictSubsetOrdering(S))
  BY <1>1, WFMin
<1>3. ASSUME NEW U \in B, U \subseteq T, U # T PROVE FALSE
  BY <1>2, <1>3 DEF StrictSubsetOrdering
<1> QED BY <1>3

LEMMA MinIsLeast ==
  ASSUME NEW B, B \subseteq Nat, B # {}
  PROVE  Min(B) \in B /\ \A n \in B : Min(B) <= n
<1> DEFINE Less == OpToRel(<, Nat)
<1>1. Less = {pair \in Nat \X Nat : pair[1] < pair[2]}
  BY DEF OpToRel
<1>2. IsWellFoundedOn(Less, Nat)
  BY NatLessThanWellFounded
<1> HIDE DEF Less
<1>3. PICK m \in B : \A n \in B : ~ (<<n, m>> \in Less)
  BY <1>2, WFMin
<1>4. ASSUME NEW n \in B PROVE m <= n
  <2>1. m \in Nat /\ n \in Nat
    OBVIOUS
  <2>2. ~ (n < m)
    <3>1. <<n, m>> \notin Less
      BY <1>3
    <3>2. <<n, m>> \in Nat \X Nat
      BY <2>1
    <3> QED BY <1>1, <3>1, <3>2
  <2> QED BY <2>1, <2>2
<1> QED BY <1>4 DEF Min

-----------------------------------------------------------------------------
(* Sums.  SumFunctionOnSet is defined by a function that takes a chosen    *)
(* element away: such a function exists, and it is the same on every set   *)
(* that contains the one summed over.                                      *)

One(s) == CHOOSE x \in s : TRUE

Sums(g, w, S) ==
  g = [s \in SUBSET S |-> IF s = {} THEN 0 ELSE w[One(s)] + g[s \ {One(s)}]]

SumsOf(w, S) == CHOOSE g : Sums(g, w, S)

LEMMA SumIs ==
  ASSUME NEW w, NEW I
  PROVE  SumFunctionOnSet(w, I) = SumsOf(w, I)[I]
BY DEF SumFunctionOnSet, FoldFunctionOnSet, MapThenFoldSet, SumsOf, Sums, One

LEMMA SumsAt ==
  ASSUME NEW g, NEW w, NEW S, Sums(g, w, S), NEW s \in SUBSET S
  PROVE  /\ s = {} => g[s] = 0
         /\ s # {} => One(s) \in s /\ g[s] = w[One(s)] + g[s \ {One(s)}]
<1>1. s # {} => One(s) \in s
  BY DEF One
<1>2. g[s] = IF s = {} THEN 0 ELSE w[One(s)] + g[s \ {One(s)}]
  BY DEF Sums
<1> QED BY <1>1, <1>2

LEMMA SumsAgree ==
  ASSUME NEW g, NEW h, NEW w, NEW S, NEW T, IsFiniteSet(S),
         Sums(g, w, S), Sums(h, w, T), NEW s \in SUBSET S, s \subseteq T
  PROVE  g[s] = h[s]
<1> DEFINE B == {u \in SUBSET S : u \subseteq T /\ g[u] # h[u]}
<1>1. SUFFICES ASSUME B # {} PROVE FALSE
  OBVIOUS
<1>2. B \subseteq SUBSET S
  OBVIOUS
<1>3. PICK u \in B : \A v \in B : v \subseteq u => v = u
  <2> HIDE DEF B
  <2> QED BY <1>1, <1>2, MinimalSubset
<1>4. /\ u # {} /\ One(u) \in u
      /\ g[u] = w[One(u)] + g[u \ {One(u)}] /\ h[u] = w[One(u)] + h[u \ {One(u)}]
  <2>1. u \in SUBSET S /\ u \in SUBSET T /\ g[u] # h[u]
    BY <1>3
  <2> QED BY <2>1, SumsAt
<1>5. g[u \ {One(u)}] = h[u \ {One(u)}]
  BY <1>3, <1>4
<1> QED BY <1>3, <1>4, <1>5

LEMMA SumsExist ==
  ASSUME NEW w, NEW S, IsFiniteSet(S)
  PROVE  Sums(SumsOf(w, S), w, S)
<1> DEFINE Has(T) == \E g : Sums(g, w, T)
           B == {T \in SUBSET S : ~ Has(T)}
<1>1. SUFFICES Has(S)
  BY DEF SumsOf
<1>2. SUFFICES ASSUME B # {} PROVE FALSE
  OBVIOUS
<1>3. B \subseteq SUBSET S
  OBVIOUS
<1>4. PICK T \in B : \A U \in B : U \subseteq T => U = T
  <2> HIDE DEF B
  <2> QED BY <1>2, <1>3, MinimalSubset
<1> DEFINE V(U) == SumsOf(w, U)[U]
           g == [s \in SUBSET T |-> IF s = {} THEN 0 ELSE w[One(s)] + V(s \ {One(s)})]
<1>5. ASSUME NEW U \in SUBSET T, U # T PROVE Sums(SumsOf(w, U), w, U) /\ IsFiniteSet(U)
  <2>1. Has(U)
    BY <1>4, <1>5
  <2>2. Sums(SumsOf(w, U), w, U)
    BY <2>1 DEF SumsOf
  <2> QED BY <2>2, FS_Subset
<1>6. ASSUME NEW U \in SUBSET T, U # T PROVE g[U] = V(U)
  <2>1. CASE U = {}
    BY <1>5, <1>6, <2>1, SumsAt
  <2>2. CASE U # {}
    <3>1. One(U) \in U /\ V(U) = w[One(U)] + SumsOf(w, U)[U \ {One(U)}]
      BY <1>5, <1>6, <2>2, SumsAt
    <3>2. U \ {One(U)} \in SUBSET T /\ U \ {One(U)} # T
      BY <1>6, <3>1
    <3>3. SumsOf(w, U)[U \ {One(U)}] = V(U \ {One(U)})
      BY <1>5, <1>6, <3>2, SumsAgree
    <3> QED BY <2>2, <3>1, <3>3
  <2> QED BY <2>1, <2>2
<1>7. ASSUME NEW s \in SUBSET T, s # {} PROVE V(s \ {One(s)}) = g[s \ {One(s)}]
  <2>1. One(s) \in s
    BY <1>7 DEF One
  <2>2. s \ {One(s)} \in SUBSET T /\ s \ {One(s)} # T
    BY <2>1
  <2> QED BY <2>2, <1>6
<1>8. g = [s \in SUBSET T |-> IF s = {} THEN 0 ELSE w[One(s)] + g[s \ {One(s)}]]
  <2> HIDE DEF V
  <2> QED BY <1>7
<1>9. Has(T)
  BY <1>8 DEF Sums
<1> QED BY <1>4, <1>9

LEMMA SumStep ==
  ASSUME NEW w, NEW I, IsFiniteSet(I)
  PROVE  /\ SumFunctionOnSet(w, {}) = 0
         /\ I # {} => /\ One(I) \in I
                      /\ SumFunctionOnSet(w, I) =
                           w[One(I)] + SumFunctionOnSet(w, I \ {One(I)})
<1>1. SumFunctionOnSet(w, {}) = 0
  BY SumIs, SumsExist, SumsAt, FS_EmptySet
<1>2. ASSUME I # {}
      PROVE  /\ One(I) \in I
             /\ SumFunctionOnSet(w, I) = w[One(I)] + SumFunctionOnSet(w, I \ {One(I)})
  <2>1. One(I) \in I /\ SumsOf(w, I)[I] = w[One(I)] + SumsOf(w, I)[I \ {One(I)}]
    BY <1>2, SumsExist, SumsAt
  <2>2. IsFiniteSet(I \ {One(I)})
    BY FS_Subset
  <2>3. SumsOf(w, I)[I \ {One(I)}] = SumsOf(w, I \ {One(I)})[I \ {One(I)}]
    BY <2>2, SumsExist, SumsAgree
  <2> QED BY <2>1, <2>3, SumIs
<1> QED BY <1>1, <1>2

LEMMA SumType ==
  ASSUME NEW w, NEW I, IsFiniteSet(I), \A i \in I : w[i] \in Nat
  PROVE  SumFunctionOnSet(w, I) \in Nat
<1> DEFINE B == {T \in SUBSET I : SumFunctionOnSet(w, T) \notin Nat}
<1>1. SUFFICES ASSUME B # {} PROVE FALSE
  OBVIOUS
<1>2. B \subseteq SUBSET I
  OBVIOUS
<1>3. PICK T \in B : \A U \in B : U \subseteq T => U = T
  <2> HIDE DEF B
  <2> QED BY <1>1, <1>2, MinimalSubset
<1>4. IsFiniteSet(T)
  BY <1>3, FS_Subset
<1>5. /\ One(T) \in T
      /\ SumFunctionOnSet(w, T) = w[One(T)] + SumFunctionOnSet(w, T \ {One(T)})
  <2>1. SumFunctionOnSet(w, {}) = 0 /\ SumFunctionOnSet(w, T) \notin Nat
    BY <1>3, <1>4, SumStep
  <2>2. T # {}
    BY <2>1
  <2> QED BY <1>4, <2>2, SumStep
<1>6. SumFunctionOnSet(w, T \ {One(T)}) \in Nat
  BY <1>3, <1>5
<1> QED BY <1>3, <1>5, <1>6

\* Any element may be taken away first.
LEMMA SumRemove ==
  ASSUME NEW w, NEW I, IsFiniteSet(I), \A j \in I : w[j] \in Nat, NEW i \in I
  PROVE  SumFunctionOnSet(w, I) = w[i] + SumFunctionOnSet(w, I \ {i})
<1> DEFINE Sum(T) == SumFunctionOnSet(w, T)
           Fails(T) == \E x \in T : Sum(T) # w[x] + Sum(T \ {x})
           B == {T \in SUBSET I : Fails(T)}
<1>1. SUFFICES ASSUME B # {} PROVE FALSE
  OBVIOUS
<1>2. B \subseteq SUBSET I
  OBVIOUS
<1>3. PICK T \in B : \A U \in B : U \subseteq T => U = T
  <2> HIDE DEF B
  <2> QED BY <1>1, <1>2, MinimalSubset
<1>4. PICK x \in T : Sum(T) # w[x] + Sum(T \ {x})
  BY <1>3
<1> DEFINE y == One(T)
<1>5. \A U \in SUBSET I : IsFiniteSet(U) /\ Sum(U) \in Nat
  BY FS_Subset, SumType
<1> HIDE DEF Sum
<1>6. y \in T /\ Sum(T) = w[y] + Sum(T \ {y})
  BY <1>3, <1>5, SumStep DEF Sum
<1>7. x # y
  BY <1>4, <1>6
<1>8. Sum(T \ {y}) = w[x] + Sum((T \ {y}) \ {x})
  BY <1>3, <1>4, <1>6, <1>7
<1>9. Sum(T \ {x}) = w[y] + Sum((T \ {x}) \ {y})
  BY <1>3, <1>4, <1>6, <1>7
<1>10. (T \ {y}) \ {x} = (T \ {x}) \ {y}
  OBVIOUS
<1>11. w[x] \in Nat /\ w[y] \in Nat /\ Sum((T \ {x}) \ {y}) \in Nat
  BY <1>3, <1>4, <1>5, <1>6
<1>12. Sum(T) = w[x] + Sum(T \ {x})
  <2> DEFINE rest == Sum((T \ {x}) \ {y})
  <2>1. Sum(T) = w[y] + (w[x] + rest)
    BY <1>6, <1>8, <1>10
  <2>2. Sum(T \ {x}) = w[y] + rest /\ rest \in Nat
    BY <1>9, <1>11
  <2> HIDE DEF rest
  <2>3. w[y] + (w[x] + rest) = w[x] + (w[y] + rest)
    BY <1>11, <2>2
  <2> QED BY <2>1, <2>2, <2>3
<1> QED BY <1>4, <1>12

\* If the elements that are added weigh less in one measure than in another, so
\* does what they add to a sum.
LEMMA SumsCompare ==
  ASSUME NEW p \in Nat, NEW q \in Nat, NEW f, NEW a, NEW J, IsFiniteSet(J), NEW I \in SUBSET J,
         \A i \in J : f[i] \in Nat /\ a[i] \in Nat,
         \A i \in J \ I : p * f[i] <= q * a[i]
  PROVE  p * SumFunctionOnSet(f, J) + q * SumFunctionOnSet(a, I)
           <= p * SumFunctionOnSet(f, I) + q * SumFunctionOnSet(a, J)
<1> DEFINE F(T) == SumFunctionOnSet(f, T)
           A(T) == SumFunctionOnSet(a, T)
           Good(T) == p * F(T) + q * A(I) <= p * F(I) + q * A(T)
           B == {T \in SUBSET J : I \subseteq T /\ ~ Good(T)}
<1>1. SUFFICES ASSUME B # {} PROVE FALSE
  OBVIOUS
<1>2. B \subseteq SUBSET J
  OBVIOUS
<1>3. PICK T \in B : \A U \in B : U \subseteq T => U = T
  <2> HIDE DEF B
  <2> QED BY <1>1, <1>2, MinimalSubset
<1>4. \A U \in SUBSET J : IsFiniteSet(U) /\ F(U) \in Nat /\ A(U) \in Nat
  BY FS_Subset, SumType
<1> HIDE DEF F, A
<1>5. T # I /\ I \subseteq T
  BY <1>3, <1>4
<1>6. PICK x \in T : x \notin I
  <2> HIDE DEF B
  <2> QED BY <1>5
<1>7. F(T) = f[x] + F(T \ {x}) /\ A(T) = a[x] + A(T \ {x})
  BY <1>3, <1>4, <1>6, SumRemove DEF F, A
<1>8. Good(T \ {x})
  BY <1>3, <1>6
<1>9. f[x] \in Nat /\ a[x] \in Nat /\ p * f[x] <= q * a[x]
  BY <1>3, <1>6
<1>10. p * F(T) = p * f[x] + p * F(T \ {x}) /\ q * A(T) = q * a[x] + q * A(T \ {x})
  BY <1>3, <1>4, <1>7, <1>9
<1>11. Good(T)
  <2> DEFINE pf == p * f[x]
             qa == q * a[x]
             pF == p * F(T \ {x})
             qA == q * A(T \ {x})
             pI == p * F(I)
             qI == q * A(I)
  <2>1. /\ pf \in Nat /\ qa \in Nat /\ pF \in Nat /\ qA \in Nat /\ pI \in Nat /\ qI \in Nat
        /\ pf <= qa /\ pF + qI <= pI + qA
    BY <1>3, <1>4, <1>8, <1>9
  <2> HIDE DEF pf, qa, pF, qA, pI, qI
  <2>2. (pf + pF) + qI <= pI + (qa + qA)
    BY <2>1
  <2> QED BY <1>10, <2>2 DEF pf, qa, pF, qA, pI, qI
<1> QED BY <1>3, <1>11

-----------------------------------------------------------------------------
(* Powers of two, as a table: Bits is 0..30.                               *)

Power == [k \in Bits |-> 2^k]

LEMMA PowerTable ==
  /\ Power[0] = 1 /\ Power[1] = 2 /\ Power[2] = 4
  /\ Power[3] = 8 /\ Power[4] = 16 /\ Power[5] = 32
  /\ Power[6] = 64 /\ Power[7] = 128 /\ Power[8] = 256
  /\ Power[9] = 512 /\ Power[10] = 1024 /\ Power[11] = 2048
  /\ Power[12] = 4096 /\ Power[13] = 8192 /\ Power[14] = 16384
  /\ Power[15] = 32768 /\ Power[16] = 65536 /\ Power[17] = 131072
  /\ Power[18] = 262144 /\ Power[19] = 524288 /\ Power[20] = 1048576
  /\ Power[21] = 2097152 /\ Power[22] = 4194304 /\ Power[23] = 8388608
  /\ Power[24] = 16777216 /\ Power[25] = 33554432 /\ Power[26] = 67108864
  /\ Power[27] = 134217728 /\ Power[28] = 268435456 /\ Power[29] = 536870912
  /\ Power[30] = 1073741824
BY DEF Power, Bits

LEMMA PowerFacts ==
  ASSUME NEW k \in Bits
  PROVE  /\ 2^k = Power[k] /\ Power[k] \in Nat \ {0}
         /\ k >= 1 => Power[k] % 2 = 0 /\ Power[k] >= 2
         /\ k >= 2 => Power[k] >= k + 2
<1>1. 2^k = Power[k]
  BY DEF Power
<1>2. Power[k] \in Nat \ {0} /\ (k >= 1 => Power[k] >= 2) /\ (k >= 2 => Power[k] >= k + 2)
  BY PowerTable DEF Bits
<1>3. k >= 1 => Power[k] % 2 = 0
  BY PowerTable DEF Bits
<1> QED BY <1>1, <1>2, <1>3

LEMMA PowersGrow ==
  ASSUME NEW k \in Bits, NEW b \in Bits, k > b
  PROVE  Power[k] > Power[b]
BY PowerTable DEF Bits

LEMMA Quotients ==
  ASSUME NEW v \in Nat, NEW d \in Nat \ {0}
  PROVE  /\ v < d => v \div d = 0
         /\ v \div 1 = v
BY SMT

\* The bound on amounts, kept folded.
Top == 2^30

LEMMA TopIsNatural == Top \in Nat
BY DEF Top

\* The bits that are set in v.
Ones(v) == {k \in Bits : (v \div 2^k) % 2 = 1}

LEMMA OneIsBelow ==
  ASSUME NEW v \in Nat, NEW k \in Ones(v)
  PROVE  k \in Bits /\ Power[k] <= v /\ (k = 0 => v % 2 = 1)
<1>1. k \in Bits /\ (v \div Power[k]) % 2 = 1
  BY PowerFacts DEF Ones
<1>2. Power[k] <= v
  <2>1. SUFFICES ASSUME v < Power[k] PROVE FALSE
    BY <1>1, PowerFacts
  <2>2. v \div Power[k] = 0
    BY <1>1, <2>1, PowerFacts, Quotients
  <2> QED BY <1>1, <2>2
<1>3. k = 0 => v % 2 = 1
  BY <1>1, PowerTable, Quotients
<1> QED BY <1>1, <1>2, <1>3

\* A set of bits that lie in an interval, one of which is missing.
LEMMA Missing ==
  ASSUME NEW n \in Nat, NEW B, B \subseteq 0..n, NEW x \in 0..n, x \notin B
  PROVE  IsFiniteSet(B) /\ Cardinality(B) \in Nat /\ Cardinality(B) <= n
<1> DEFINE I == 0..n
<1>1. IsFiniteSet(I) /\ Cardinality(I) = n + 1 /\ x \in I
  BY FS_Interval
<1>2. IsFiniteSet(I \ {x}) /\ Cardinality(I \ {x}) = n
  <2> HIDE DEF I
  <2>1. IsFiniteSet(I \ {x}) /\ Cardinality(I \ {x}) = Cardinality(I) - 1
    BY <1>1, FS_RemoveElement
  <2> QED BY <1>1, <2>1
<1>3. B \in SUBSET ((0..n) \ {x})
  OBVIOUS
<1> QED BY <1>2, <1>3, FS_Subset, FS_CardinalityType

LEMMA PartsType ==
  ASSUME NEW v \in Nat
  PROVE  Parts(v) \in Nat /\ Parts(v) <= 31
<1>1. Ones(v) \subseteq 0..31 /\ 31 \notin Ones(v)
  BY DEF Ones, Bits
<1>2. Parts(v) = Cardinality(Ones(v))
  BY DEF Parts, Ones
<1> QED BY <1>1, <1>2, Missing

\* An amount splits into fewer proofs than it is worth, unless it is one.
LEMMA PartsFew ==
  ASSUME NEW v \in Nat, v >= 2
  PROVE  Parts(v) < v
<1>1. Parts(v) = Cardinality(Ones(v))
  BY DEF Parts, Ones
<1>2. CASE v = 2
  <2>1. Ones(v) \subseteq 0..1
    <3> SUFFICES ASSUME NEW k \in Ones(v) PROVE k \in 0..1
      OBVIOUS
    <3>1. k \in Bits /\ Power[k] <= 2
      BY <1>2, OneIsBelow
    <3>2. Power[k] \in Nat /\ (k >= 2 => Power[k] >= k + 2)
      BY <3>1, PowerFacts
    <3> QED BY <3>1, <3>2 DEF Bits
  <2>2. 0 \notin Ones(v)
    BY <1>2, OneIsBelow
  <2> QED BY <1>1, <1>2, <2>1, <2>2, Missing
<1>3. CASE v > 2
  <2>1. Ones(v) \subseteq 0..(v - 2)
    <3> SUFFICES ASSUME NEW k \in Ones(v) PROVE k \in 0..(v - 2)
      OBVIOUS
    <3> QED BY <1>3, OneIsBelow, PowerFacts DEF Bits
  <2>2. Ones(v) \subseteq 0..(v - 1) /\ v - 1 \in 0..(v - 1) /\ v - 1 \notin Ones(v)
    BY <1>3, <2>1
  <2>3. Cardinality(Ones(v)) <= v - 1 /\ Cardinality(Ones(v)) \in Nat
    BY <1>3, <2>2, Missing
  <2> QED BY <1>1, <2>3
<1> QED BY <1>2, <1>3

\* The blanks for n hold whatever part of n comes back.
LEMMA BlanksHold ==
  ASSUME NEW n \in Nat, n <= Top, NEW c \in 0..n
  PROVE  Blanks(n) \in Nat /\ Parts(c) <= Blanks(n)
<1>1. Parts(c) = Cardinality(Ones(c)) /\ c \in Nat
  BY DEF Parts, Ones
<1>2. CASE n <= 1
  <2>1. Ones(c) \subseteq 0..0
    <3> SUFFICES ASSUME NEW k \in Ones(c) PROVE k \in 0..0
      OBVIOUS
    <3>1. k \in Bits /\ Power[k] <= c
      BY <1>1, OneIsBelow
    <3>2. /\ k >= 1 => Power[k] >= 2
          /\ Power[k] \in Nat
      BY <3>1, PowerFacts
    <3> QED BY <1>2, <3>1, <3>2 DEF Bits
  <2>2. CASE c = 0
    <3>1. Ones(c) = {}
      BY <2>1, <2>2, OneIsBelow
    <3> QED BY <1>1, <1>2, <3>1, FS_EmptySet DEF Blanks
  <2>3. CASE c = 1
    <3>1. Ones(c) \subseteq 0..1 /\ 1 \notin Ones(c)
      BY <2>1
    <3>2. Cardinality(Ones(c)) <= 1
      BY <3>1, Missing
    <3> QED BY <1>1, <1>2, <2>3, <3>2 DEF Blanks
  <2> QED BY <1>2, <2>2, <2>3
<1>3. CASE n > 1
  <2> DEFINE Enough2 == {k \in Bits : 2^k >= n}
             b == Min(Enough2)
  <2>1. Blanks(n) = b
    BY <1>3 DEF Blanks
  <2>2. b \in Bits /\ 2^b >= n
    <3>1. 30 \in Enough2 /\ Enough2 \subseteq Nat
      BY DEF Bits, Top
    <3> QED BY <3>1, MinIsLeast
  <2> HIDE DEF b
  <2>3. b \in Nat /\ b >= 1 /\ Power[b] >= c /\ Power[b] \in Nat
    <3>1. Power[b] >= n /\ Power[b] \in Nat
      BY <2>2, PowerFacts
    <3>2. b # 0
      BY <1>3, <3>1, PowerTable
    <3> QED BY <2>2, <3>1, <3>2 DEF Bits
  <2>4. Ones(c) \subseteq 0..b
    <3> SUFFICES ASSUME NEW k \in Ones(c) PROVE k \in 0..b
      OBVIOUS
    <3>1. k \in Bits /\ Power[k] <= c
      BY <1>1, OneIsBelow
    <3>2. Power[k] \in Nat /\ (k > b => Power[k] > Power[b])
      BY <2>2, <3>1, PowersGrow, PowerFacts
    <3>3. ~ (k > b)
      BY <2>3, <3>1, <3>2
    <3> QED BY <2>3, <3>1, <3>3 DEF Bits
  <2>5. 0 \notin Ones(c) \/ b \notin Ones(c)
    <3> SUFFICES ASSUME 0 \in Ones(c), b \in Ones(c) PROVE FALSE
      OBVIOUS
    <3>1. c = Power[b] /\ c % 2 = 1
      BY <1>1, <2>2, <2>3, OneIsBelow, PowerFacts
    <3> QED BY <2>2, <2>3, <3>1, PowerFacts
  <2>6. Cardinality(Ones(c)) <= b
    BY <2>3, <2>4, <2>5, Missing
  <2> QED BY <1>1, <2>1, <2>3, <2>6
<1> QED BY <1>2, <1>3

-----------------------------------------------------------------------------
(* Purses, fees and what they cover.                                       *)

PurseOK ==
  /\ \E n \in 1..MaxProofs : purse \in [1..n -> Kinds]
  /\ ppk \in [Keysets -> Fees] /\ active \in Keysets

LEMMA PurseFacts ==
  ASSUME PurseOK
  PROVE  /\ Len(purse) \in 1..MaxProofs /\ DOMAIN purse = 1..Len(purse)
         /\ IsFiniteSet(DOMAIN purse) /\ Cardinality(DOMAIN purse) = Len(purse)
         /\ \A i \in DOMAIN purse :
              /\ Amounts[i] \in Nat /\ Prices[i] \in Nat
              /\ MaxProofs * Amounts[i] <= Top
<1>1. PICK n \in 1..MaxProofs : purse \in [1..n -> Kinds]
  BY DEF PurseOK
<1>2. n \in Nat /\ DOMAIN purse = 1..n /\ Len(purse) = n
  BY <1>1, BoundsAssumption
<1>3. IsFiniteSet(1..n) /\ Cardinality(1..n) = n
  BY <1>1, <1>2, FS_Interval
<1>4. ASSUME NEW i \in DOMAIN purse
      PROVE  /\ Amounts[i] \in Nat /\ Prices[i] \in Nat
             /\ MaxProofs * Amounts[i] <= Top
  <2>1. purse[i].amount \in Denominations /\ ppk[purse[i].keyset] \in Fees
    BY <1>1, <1>2 DEF Kinds, PurseOK
  <2>2. purse[i].amount \in Nat \ {0} /\ MaxProofs * purse[i].amount <= Top
    <3>1. PICK k \in Bits : purse[i].amount = 2^k
      BY <2>1, DenominationsAssumption
    <3> QED BY <2>1, <3>1, PowerFacts, DenominationsAssumption DEF Top
  <2>3. ppk[purse[i].keyset] \in Nat
    BY <2>1, FeesAssumption
  <2> QED BY <2>2, <2>3 DEF Amounts, Prices
<1> QED BY <1>1, <1>2, <1>3, <1>4

LEMMA Rounding ==
  ASSUME NEW m \in Nat, NEW n \in Nat
  PROVE  /\ Thousands(m) \in Nat
         /\ m = 0 => Thousands(m) = 0
         /\ m <= n => Thousands(m) <= Thousands(n)
         /\ m <= 1000 * n => Thousands(m) <= n
         /\ m >= 1 => Thousands(m) >= 1
BY DEF Thousands

LEMMA TotalType ==
  ASSUME PurseOK, NEW I \in SUBSET DOMAIN purse
  PROVE  IsFiniteSet(I) /\ Total(I) \in Nat /\ Fee(I) \in Nat
<1>1. IsFiniteSet(I)
  BY PurseFacts, FS_Subset
<1>2. Total(I) \in Nat /\ SumFunctionOnSet(Prices, I) \in Nat
  BY <1>1, PurseFacts, SumType DEF Total
<1> QED BY <1>1, <1>2, Rounding DEF Fee

\* More proofs cover whatever fewer cover, if none that is added is too dear.
LEMMA MoreCovers ==
  ASSUME PurseOK, NEW J \in SUBSET DOMAIN purse, NEW I \in SUBSET J,
         \A i \in J \ I : ~ TooDear(i),
         NEW target \in Nat, Covers(I, target)
  PROVE  Covers(J, target)
<1> DEFINE f(T) == SumFunctionOnSet(Prices, T)
<1>1. Total(I) \in Nat /\ Total(J) \in Nat /\ IsFiniteSet(I) /\ IsFiniteSet(J)
  BY TotalType
<1>2. f(I) \in Nat /\ f(J) \in Nat
  BY <1>1, PurseFacts, SumType
<1>3. f(J) + 1000 * Total(I) <= f(I) + 1000 * Total(J)
  <2> DEFINE p == 1
             q == 1000
  <2>1. p \in Nat /\ q \in Nat /\ \A i \in J \ I : p * Prices[i] <= q * Amounts[i]
    BY PurseFacts DEF TooDear
  <2>2. \A i \in J : Prices[i] \in Nat /\ Amounts[i] \in Nat
    BY PurseFacts
  <2> HIDE DEF p, q
  <2>3. p * f(J) + q * Total(I) <= p * f(I) + q * Total(J)
    BY <1>1, <2>1, <2>2, SumsCompare DEF Total
  <2> HIDE DEF f
  <2> QED BY <1>1, <1>2, <2>3 DEF p, q
<1> HIDE DEF f
<1>4. Total(I) >= target + (f(I) + 999) \div 1000
  BY DEF Covers, Fee, Thousands, f
<1>5. Total(J) >= target + (f(J) + 999) \div 1000
  BY <1>1, <1>2, <1>3, <1>4
<1> QED BY <1>5 DEF Covers, Fee, Thousands, f

\* What proofs cover, they cover without those of them that are too dear.
LEMMA FewerCovers ==
  ASSUME PurseOK, NEW J \in SUBSET DOMAIN purse, NEW I \in SUBSET J,
         \A i \in J \ I : TooDear(i),
         NEW target \in Nat, Covers(J, target)
  PROVE  Covers(I, target)
<1> DEFINE f(T) == SumFunctionOnSet(Prices, T)
<1>1. Total(I) \in Nat /\ Total(J) \in Nat /\ IsFiniteSet(I) /\ IsFiniteSet(J)
  BY TotalType
<1>2. f(I) \in Nat /\ f(J) \in Nat
  BY <1>1, PurseFacts, SumType
<1>3. 1000 * Total(J) + f(I) <= 1000 * Total(I) + f(J)
  <2> DEFINE p == 1000
             q == 1
  <2>1. p \in Nat /\ q \in Nat /\ \A i \in J \ I : p * Amounts[i] <= q * Prices[i]
    BY PurseFacts DEF TooDear
  <2>2. \A i \in J : Prices[i] \in Nat /\ Amounts[i] \in Nat
    BY PurseFacts
  <2> HIDE DEF p, q
  <2>3. p * Total(J) + q * f(I) <= p * Total(I) + q * f(J)
    BY <1>1, <2>1, <2>2, SumsCompare DEF Total
  <2> HIDE DEF f
  <2> QED BY <1>1, <1>2, <2>3 DEF p, q
<1> HIDE DEF f
<1>4. Total(J) >= target + (f(J) + 999) \div 1000
  BY DEF Covers, Fee, Thousands, f
<1>5. Total(I) >= target + (f(I) + 999) \div 1000
  BY <1>1, <1>2, <1>3, <1>4
<1> QED BY <1>5 DEF Covers, Fee, Thousands, f

\* The proofs that are not too dear are a prefix of the purse, unless dear ones
\* come first.
LEMMA UsefulPrefix ==
  ASSUME PurseOK, ~ DearFirst, NEW x \in DOMAIN purse, ~ TooDear(x)
  PROVE  \E m \in 1..Len(purse) : \A i \in DOMAIN purse : i \in 1..m <=> ~ TooDear(i)
<1> DEFINE Dear == {i \in DOMAIN purse : TooDear(i)}
<1>1. DOMAIN purse = 1..Len(purse) /\ Len(purse) \in Nat /\ Len(purse) >= 1
  BY PurseFacts, BoundsAssumption
<1>2. CASE Dear = {}
  BY <1>1, <1>2
<1>3. CASE Dear # {}
  <2> DEFINE d == Min(Dear)
  <2>1. d \in Dear /\ \A i \in Dear : d <= i
    <3>1. Dear \subseteq Nat
      BY <1>1
    <3> HIDE DEF Dear
    <3> QED BY <1>3, <3>1, MinIsLeast
  <2> HIDE DEF d
  <2>2. d \in DOMAIN purse /\ TooDear(d) /\ \A i \in DOMAIN purse : TooDear(i) => d <= i
    BY <2>1
  <2>3. \A i \in DOMAIN purse : ~ TooDear(i) => ~ (d < i)
    BY <2>2 DEF DearFirst
  <2>4. \A i \in DOMAIN purse : i \in 1..(d - 1) <=> ~ TooDear(i)
    <3> SUFFICES ASSUME NEW i \in DOMAIN purse PROVE i \in 1..(d - 1) <=> ~ TooDear(i)
      OBVIOUS
    <3>1. i \in Nat /\ d \in Nat /\ i >= 1
      BY <1>1, <2>2
    <3>2. TooDear(i) => d <= i
      BY <2>2
    <3>3. ~ TooDear(i) => ~ (d < i) /\ i # d
      BY <2>2, <2>3
    <3> QED BY <3>1, <3>2, <3>3
  <2>5. d - 1 \in 1..Len(purse)
    BY <1>1, <2>2, <2>4
  <2> QED BY <2>4, <2>5
<1> QED BY <1>2, <1>3

\* The loop selects nothing only when no selection would do, unless dear proofs
\* come first.
LEMMA EnoughIsComplete ==
  ASSUME PurseOK, NEW target \in Nat \ {0}, Enough(target) = {}, ~ DearFirst
  PROVE  Short(target)
<1> SUFFICES ASSUME NEW I \in SUBSET DOMAIN purse, Covers(I, target) PROVE FALSE
  BY DEF Short
<1> DEFINE K == {i \in I : ~ TooDear(i)}
<1>1. K \in SUBSET DOMAIN purse /\ K \in SUBSET I /\ \A i \in I \ K : TooDear(i)
  OBVIOUS
<1>2. \A i \in K : ~ TooDear(i)
  OBVIOUS
<1> HIDE DEF K
<1>3. Covers(K, target)
  BY <1>1, FewerCovers
<1>4. PICK x \in K : TRUE
  <2> SUFFICES ASSUME K = {} PROVE FALSE
    OBVIOUS
  <2>1. Total({}) = 0 /\ Fee({}) \in Nat
    BY FS_EmptySet, SumStep, TotalType DEF Total
  <2> QED BY <1>3, <2>1 DEF Covers
<1>5. PICK m \in 1..Len(purse) : \A i \in DOMAIN purse : i \in 1..m <=> ~ TooDear(i)
  BY <1>1, <1>2, <1>4, UsefulPrefix
<1>6. 1..m \in SUBSET DOMAIN purse
  <2>1. DOMAIN purse = 1..Len(purse) /\ Len(purse) \in Nat
    BY PurseFacts
  <2> QED BY <2>1
<1>7. K \in SUBSET (1..m) /\ \A i \in (1..m) \ K : ~ TooDear(i)
  BY <1>1, <1>2, <1>5, <1>6
<1>8. Covers(1..m, target)
  BY <1>3, <1>6, <1>7, MoreCovers
<1> QED BY <1>8 DEF Enough

LEMMA SelectCovers ==
  ASSUME PurseOK, NEW target \in Nat, Enough(target) # {}
  PROVE  /\ \E n \in 1..Len(purse) : Select(target) = 1..n
         /\ Select(target) \in SUBSET DOMAIN purse /\ Covers(Select(target), target)
<1>1. Enough(target) \subseteq 1..Len(purse) /\ Len(purse) \in Nat /\ DOMAIN purse = 1..Len(purse)
  BY PurseFacts DEF Enough
<1>2. Min(Enough(target)) \in Enough(target)
  BY <1>1, MinIsLeast
<1>3. /\ Covers(1..Min(Enough(target)), target)
      /\ Min(Enough(target)) \in 1..Len(purse)
  BY <1>1, <1>2 DEF Enough
<1> DEFINE m == Min(Enough(target))
<1>4. 1..m \in SUBSET (1..Len(purse))
  <2> HIDE DEF m
  <2>1. m \in 1..Len(purse)
    BY <1>3 DEF m
  <2> QED BY <1>1, <2>1
<1> QED BY <1>1, <1>3, <1>4 DEF Select

LEMMA TotalBound ==
  ASSUME PurseOK, NEW I \in SUBSET DOMAIN purse
  PROVE  Total(I) <= Top
<1> DEFINE Small(T) == MaxProofs * Total(T) <= Top * Cardinality(T)
           B == {T \in SUBSET I : ~ Small(T)}
<1>1. \A T \in SUBSET I : IsFiniteSet(T) /\ Total(T) \in Nat /\ Cardinality(T) \in Nat
  BY TotalType, FS_CardinalityType
<1>2. Small(I)
  <2>1. SUFFICES ASSUME B # {} PROVE FALSE
    BY <1>1
  <2>2. B \subseteq SUBSET I
    OBVIOUS
  <2>3. PICK T \in B : \A U \in B : U \subseteq T => U = T
    <3>1. IsFiniteSet(I)
      BY <1>1
    <3> HIDE DEF B
    <3> QED BY <2>1, <2>2, <3>1, MinimalSubset
  <2>4. T # {}
    <3>1. Total({}) = 0
      <4>1. IsFiniteSet({})
        BY FS_EmptySet
      <4>2. SumFunctionOnSet(Amounts, {}) = 0
        BY <4>1, SumStep
      <4> QED BY <4>2 DEF Total
    <3>2. Cardinality({}) = 0
      BY FS_EmptySet
    <3>3. MaxProofs * 0 = 0 /\ Top * 0 = 0
      BY TopIsNatural, BoundsAssumption
    <3>4. Small({})
      BY <3>1, <3>2, <3>3
    <3> QED BY <2>3, <3>4
  <2>5. PICK x \in T : TRUE
    BY <2>4
  <2>6. Total(T) = Amounts[x] + Total(T \ {x})
    <3>1. IsFiniteSet(T) /\ \A i \in T : Amounts[i] \in Nat
      BY <1>1, <2>3, PurseFacts
    <3> QED BY <2>5, <3>1, SumRemove DEF Total
  <2>7. Cardinality(T) = Cardinality(T \ {x}) + 1 /\ Cardinality(T \ {x}) \in Nat
    <3>1. IsFiniteSet(T) /\ Cardinality(T) \in Nat /\ Cardinality(T \ {x}) \in Nat
      BY <1>1, <2>3
    <3>2. Cardinality(T \ {x}) = Cardinality(T) - 1
      BY <2>5, <3>1, FS_RemoveElement
    <3> QED BY <3>1, <3>2
  <2>8. Small(T \ {x})
    BY <2>3, <2>5
  <2>9. Amounts[x] \in Nat /\ MaxProofs * Amounts[x] <= Top /\ MaxProofs \in Nat
    BY <2>3, <2>5, PurseFacts, BoundsAssumption
  <2>10. MaxProofs * (Amounts[x] + Total(T \ {x}))
           = MaxProofs * Amounts[x] + MaxProofs * Total(T \ {x})
    BY <1>1, <2>3, <2>9
  <2>11. MaxProofs * Total(T \ {x}) \in Nat /\ MaxProofs * Amounts[x] \in Nat
    BY <1>1, <2>3, <2>9
  <2>12. Small(T)
    BY TopIsNatural, <1>1, <2>3, <2>6, <2>7, <2>8, <2>9, <2>10, <2>11
  <2> QED BY <2>3, <2>12
<1>3. Cardinality(I) <= MaxProofs /\ Cardinality(I) \in Nat /\ MaxProofs \in Nat \ {0}
  <2>1. /\ IsFiniteSet(DOMAIN purse) /\ Cardinality(DOMAIN purse) = Len(purse)
        /\ Len(purse) \in 1..MaxProofs /\ MaxProofs \in Nat
    BY PurseFacts, BoundsAssumption
  <2>2. Cardinality(I) <= Cardinality(DOMAIN purse)
    BY <2>1, FS_Subset
  <2>3. Cardinality(I) \in Nat
    BY <1>1
  <2> QED BY <2>1, <2>2, <2>3
<1>4. MaxProofs * Total(I) <= MaxProofs * Top
  BY TopIsNatural, <1>1, <1>2, <1>3
<1>5. Total(I) <= Top
  BY TopIsNatural, <1>1, <1>3, <1>4
<1> QED BY <1>5

-----------------------------------------------------------------------------
(* The inductive invariant: what each phase of a send or a payment knows.  *)

Types ==
  /\ PurseOK /\ phase \in Phases
  /\ wanted \in Nat /\ reserve \in Nat /\ chosen \in SUBSET DOMAIN purse
  /\ sendFee \in Nat /\ receiveFee \in Nat /\ blanks \in Nat /\ outcome \in Nat
  /\ token \in [value : Nat, fee : Nat]

\* Proofs that are worth the amount and their own fee, which the receiver pays,
\* or proofs that cover the amount, the receiver's fee and the fee of the swap.
PreparedPays ==
  /\ wanted >= 1
  /\ \/ receiveFee = Fee(chosen) /\ Total(chosen) = wanted + receiveFee
     \/ sendFee = Fee(chosen) /\ Total(chosen) >= wanted + receiveFee + sendFee

SwapPays ==
  /\ sendFee = Fee(chosen)
  /\ Total(chosen) >= token.value + sendFee

TokenFee ==
  /\ wanted >= 1 /\ token.value = wanted + receiveFee
  /\ \/ token.fee <= receiveFee
     \/ token.fee = Thousands(Parts(token.value) * ppk[active])

QuotePays ==
  /\ sendFee = Fee(chosen)
  /\ Total(chosen) >= wanted + reserve + sendFee
  /\ blanks = Blanks(Total(chosen) - (wanted + sendFee))

IInv ==
  /\ Types
  /\ phase = "idle" => reserve = 0
  /\ phase = "prepared" => PreparedPays
  /\ phase = "draft" => SwapPays
  /\ phase \in {"draft", "sent", "claimed", "unclaimable"} => TokenFee
  /\ phase = "claimed" => outcome + token.fee = token.value
  /\ phase = "unclaimable" => token.fee >= token.value
  /\ phase = "quoted" => QuotePays
  /\ phase = "paid" => outcome = 0
  /\ RefusedOnlyIfShort

LEMMA SamePurse ==
  ASSUME Types, purse' = purse, ppk' = ppk, active' \in Keysets
  PROVE  /\ PurseOK' /\ Amounts' = Amounts /\ Prices' = Prices
         /\ chosen' = chosen => Total(chosen)' = Total(chosen) /\ Fee(chosen)' = Fee(chosen)
<1>1. PurseOK'
  BY DEF Types, PurseOK
<1>2. Amounts' = Amounts /\ Prices' = Prices
  BY DEF Amounts, Prices
<1> QED BY <1>1, <1>2 DEF Total, Fee

\* The fee of the proofs a value is split into.
LEMMA Product ==
  ASSUME NEW v \in Nat, NEW p \in Nat
  PROVE  Parts(v) * p \in Nat
<1>1. Parts(v) \in Nat
  BY PartsType
<1> DEFINE q == Parts(v)
<1> HIDE DEF q
<1>2. q * p \in Nat
  BY <1>1 DEF q
<1> QED BY <1>2 DEF q

LEMMA Numbers ==
  ASSUME Types
  PROVE  /\ Total(chosen) \in Nat /\ Fee(chosen) \in Nat
         /\ token.value \in Nat /\ token.fee \in Nat
         /\ ppk[active] \in Nat /\ Estimate \in Nat
         /\ Thousands(Parts(token.value) * ppk[active]) \in Nat
<1>1. Total(chosen) \in Nat /\ Fee(chosen) \in Nat /\ token.value \in Nat /\ token.fee \in Nat
  BY TotalType DEF Types
<1>2. ppk[active] \in Nat
  <2>1. ppk[active] \in Fees
    BY DEF Types, PurseOK
  <2> QED BY <2>1, FeesAssumption
<1>3. Estimate \in Nat
  BY <1>2, Rounding DEF Estimate
<1>4. Parts(token.value) * ppk[active] \in Nat
  BY <1>1, <1>2, Product
<1> QED BY <1>1, <1>2, <1>3, <1>4, Rounding

\* A refusal of prepare_proofs_and_fee or of get_quote, of what is still short.
LEMMA RefusalKeeps ==
  ASSUME Types', PurseOK, UNCHANGED <<purse, ppk, active>>, phase' = "refused",
         \/ Short(wanted' + reserve') \/ DearFirst
         \/ Estimate > 1 /\ reserve' = 0 /\ Short(wanted' + Estimate)
  PROVE  IInv'
<1>1. Amounts' = Amounts /\ Prices' = Prices /\ Estimate' = Estimate
  BY DEF Amounts, Prices, Estimate
<1>2. \A t : Short(t)' <=> Short(t)
  BY <1>1 DEF Short, Covers, Total, Fee
<1>3. DearFirst' <=> DearFirst
  BY <1>1 DEF DearFirst, TooDear
<1>4. RefusedOnlyIfShort'
  BY <1>1, <1>2, <1>3 DEF RefusedOnlyIfShort
<1> QED BY <1>4 DEF IInv

\* prepare_proofs_and_fee refuses on the first selection, or on the second when
\* the receiver's fee is more than one.
LEMMA PrepareSendKeeps ==
  ASSUME IInv, NEW amount \in 1..MaxAmount, PrepareSend(amount)
  PROVE  IInv'
<1> DEFINE first == Select(amount)
           second == Select(amount + Estimate)
<1>1. /\ Types /\ phase = "idle" /\ reserve = 0
      /\ amount \in Nat /\ amount >= 1 /\ Estimate \in Nat
  BY Numbers, BoundsAssumption DEF IInv, PrepareSend
<1>2. UNCHANGED <<purse, ppk, active>> /\ active' \in Keysets
  BY <1>1 DEF PrepareSend, Refuse, Prepared, Types, PurseOK
<1>3. PurseOK /\ PurseOK' /\ Amounts' = Amounts /\ Prices' = Prices
  BY <1>1, <1>2, SamePurse DEF Types
<1>4. ASSUME Enough(amount) # {}
      PROVE  /\ first \in SUBSET DOMAIN purse
             /\ Total(first) \in Nat /\ Fee(first) \in Nat
             /\ Total(first) >= amount + Fee(first)
  BY <1>1, <1>3, <1>4, SelectCovers, TotalType DEF Covers
<1>5. ASSUME Enough(amount + Estimate) # {}
      PROVE  /\ second \in SUBSET DOMAIN purse
             /\ Total(second) \in Nat /\ Fee(second) \in Nat
             /\ Total(second) >= amount + Estimate + Fee(second)
  BY <1>1, <1>3, <1>5, SelectCovers, TotalType DEF Covers
<1>6. ASSUME NEW I \in SUBSET DOMAIN purse, NEW sFee \in Nat, NEW rFee \in Nat,
             Prepared(amount, I, sFee, rFee),
             \/ rFee = Fee(I) /\ Total(I) = amount + rFee
             \/ sFee = Fee(I) /\ Total(I) >= amount + rFee + sFee
      PROVE  IInv'
  <2>1. Types'
    BY <1>1, <1>3, <1>6 DEF Types, Prepared, Phases
  <2>2. chosen' = I /\ wanted' = amount /\ sendFee' = sFee /\ receiveFee' = rFee
    BY <1>6 DEF Prepared
  <2>3. Total(chosen)' = Total(I) /\ Fee(chosen)' = Fee(I)
    BY <1>3, <2>2 DEF Total, Fee
  <2>4. PreparedPays'
    BY <1>1, <1>6, <2>2, <2>3 DEF PreparedPays
  <2>5. phase' = "prepared"
    BY <1>6 DEF Prepared
  <2> QED BY <2>1, <2>4, <2>5 DEF IInv, RefusedOnlyIfShort
<1>7. CASE Enough(amount) = {} /\ Refuse(amount)
  <2>1. Types'
    BY <1>1, <1>2, <1>3, <1>7 DEF Types, Refuse, Phases
  <2>2. Short(amount) \/ DearFirst
    BY <1>1, <1>3, <1>7, EnoughIsComplete
  <2>3. wanted' + reserve' = amount /\ phase' = "refused"
    BY <1>1, <1>7 DEF Refuse
  <2> QED BY <1>2, <1>3, <2>1, <2>2, <2>3, RefusalKeeps
<1>8. CASE /\ Enough(amount) # {} /\ Total(first) = amount + Fee(first)
           /\ Prepared(amount, first, 0, Fee(first))
  BY <1>4, <1>6, <1>8
<1>9. CASE /\ Enough(amount) # {} /\ Total(first) # amount + Fee(first)
           /\ IF Enough(amount + Estimate) = {}
              THEN Refuse(amount)
              ELSE Prepared(amount, second, Fee(second), Estimate)
  <2>1. CASE Enough(amount + Estimate) # {}
    BY <1>1, <1>5, <1>6, <1>9, <2>1
  <2>2. CASE Enough(amount + Estimate) = {}
    <3>1. PICK n \in 1..Len(purse) : first = 1..n
      BY <1>1, <1>3, <1>9, SelectCovers
    <3>2. ~ Covers(first, amount + Estimate)
      BY <2>2, <3>1 DEF Enough
    <3>3. Estimate > 1
      <4>1. Total(first) > amount + Fee(first)
        BY <1>1, <1>4, <1>9
      <4>2. ~ (Total(first) >= amount + Estimate + Fee(first))
        BY <3>2 DEF Covers
      <4> QED BY <1>1, <1>4, <1>9, <4>1, <4>2
    <3>4. Short(amount + Estimate) \/ DearFirst
      BY <1>1, <1>3, <2>2, EnoughIsComplete
    <3>5. Types'
      BY <1>1, <1>2, <1>3, <1>9, <2>2 DEF Types, Refuse, Phases
    <3>6. wanted' = amount /\ reserve' = 0 /\ phase' = "refused"
      BY <1>1, <1>9, <2>2 DEF Refuse
    <3> QED BY <1>2, <1>3, <3>3, <3>4, <3>5, <3>6, RefusalKeeps
  <2> QED BY <2>1, <2>2
<1> QED BY <1>7, <1>8, <1>9 DEF PrepareSend

LEMMA RotateKeeps ==
  ASSUME IInv, Rotate
  PROVE  IInv'
<1>1. Types /\ phase = "prepared" /\ PreparedPays
  BY DEF IInv, Rotate
<1>2. /\ UNCHANGED <<purse, ppk, phase, wanted, reserve, chosen, sendFee,
                    receiveFee, blanks, token, outcome>>
      /\ active' \in Keysets
  BY DEF Rotate, selection
<1>3. /\ PurseOK' /\ Total(chosen)' = Total(chosen) /\ Fee(chosen)' = Fee(chosen)
  BY <1>1, <1>2, SamePurse
<1>4. Types'
  BY <1>1, <1>2, <1>3 DEF Types
<1>5. PreparedPays'
  BY <1>1, <1>2, <1>3 DEF PreparedPays
<1> QED BY <1>1, <1>2, <1>4, <1>5 DEF IInv, RefusedOnlyIfShort

\* create never finds less than it prepared.
LEMMA CreateSendKeeps ==
  ASSUME IInv, CreateSend
  PROVE  IInv'
<1> DEFINE value == wanted + receiveFee
<1>1. Types /\ phase = "prepared" /\ PreparedPays
  BY DEF IInv, CreateSend
<1>2. /\ UNCHANGED <<purse, ppk, active, wanted, reserve, chosen, sendFee,
                    receiveFee, blanks, outcome>>
      /\ active' \in Keysets
  BY <1>1 DEF CreateSend, selection, Types, PurseOK
<1>3. PurseOK' /\ Total(chosen)' = Total(chosen) /\ Fee(chosen)' = Fee(chosen)
  BY <1>1, <1>2, SamePurse
<1>4. /\ value \in Nat /\ Total(chosen) \in Nat /\ Fee(chosen) \in Nat
      /\ sendFee \in Nat /\ receiveFee \in Nat /\ ppk[active] \in Nat
  BY <1>1, Numbers DEF Types
<1>5. Parts(value) * ppk[active] \in Nat
  BY <1>4, Product
<1>6. CASE /\ Total(chosen) = value /\ phase' = "sent"
           /\ token' = [value |-> value, fee |-> Fee(chosen)]
  <2>1. Types'
    BY <1>1, <1>2, <1>3, <1>4, <1>6 DEF Types, Phases
  <2>2. Fee(chosen) <= receiveFee
    BY <1>1, <1>4, <1>6 DEF PreparedPays, Types
  <2>3. TokenFee'
    BY <1>1, <1>2, <1>6, <2>2 DEF TokenFee, PreparedPays
  <2> QED BY <1>6, <2>1, <2>3 DEF IInv, RefusedOnlyIfShort
<1>7. CASE /\ Total(chosen) # value
           /\ phase' = IF Total(chosen) >= value + sendFee THEN "draft" ELSE "rejected"
           /\ token' = [value |-> value, fee |-> Thousands(Parts(value) * ppk[active])]
  <2>1. sendFee = Fee(chosen) /\ Total(chosen) >= value + sendFee
    BY <1>1, <1>4, <1>7 DEF PreparedPays
  <2>2. phase' = "draft"
    BY <1>7, <2>1
  <2>3. Thousands(Parts(value) * ppk[active]) \in Nat
    BY <1>5, Rounding
  <2>4. Types'
    BY <1>1, <1>2, <1>3, <1>4, <1>7, <2>2, <2>3 DEF Types, Phases
  <2>5. SwapPays'
    BY <1>2, <1>3, <1>7, <2>1 DEF SwapPays
  <2>6. TokenFee'
    BY <1>1, <1>2, <1>7 DEF TokenFee, PreparedPays
  <2> QED BY <2>2, <2>4, <2>5, <2>6 DEF IInv, RefusedOnlyIfShort
<1> QED BY <1>6, <1>7 DEF CreateSend

\* The outputs of a draft add up to what the mint expects of its inputs.
LEMMA MintSwapKeeps ==
  ASSUME IInv, MintSwap
  PROVE  IInv'
<1>1. Types /\ phase = "draft" /\ SwapPays /\ TokenFee
  BY DEF IInv, MintSwap
<1>2. /\ UNCHANGED <<purse, ppk, active, wanted, reserve, chosen, sendFee,
                    receiveFee, blanks, token, outcome>>
      /\ active' \in Keysets
  BY <1>1 DEF MintSwap, selection, Types, PurseOK
<1>3. PurseOK'
  BY <1>1, <1>2, SamePurse
<1>4. phase' = "sent"
  <2>1. /\ Total(chosen) \in Nat /\ Fee(chosen) \in Nat /\ token.value \in Nat
        /\ sendFee = Fee(chosen) /\ Total(chosen) >= token.value + sendFee
    BY <1>1, Numbers DEF SwapPays
  <2>2. Total(chosen)
          = token.value + (Total(chosen) - (token.value + sendFee)) + Fee(chosen)
    BY <2>1
  <2> QED BY <2>2 DEF MintSwap
<1>5. Types'
  BY <1>1, <1>2, <1>3, <1>4 DEF Types, Phases
<1>6. TokenFee'
  BY <1>1, <1>2 DEF TokenFee
<1> QED BY <1>4, <1>5, <1>6 DEF IInv, RefusedOnlyIfShort

LEMMA ClaimKeeps ==
  ASSUME IInv, Claim
  PROVE  IInv'
<1>1. Types /\ phase = "sent" /\ TokenFee
  BY DEF IInv, Claim
<1>2. /\ UNCHANGED <<purse, ppk, active, wanted, reserve, chosen, sendFee,
                    receiveFee, blanks, token>>
      /\ active' \in Keysets
  BY <1>1 DEF Claim, selection, Types, PurseOK
<1>3. PurseOK'
  BY <1>1, <1>2, SamePurse
<1>4. TokenFee'
  BY <1>1, <1>2 DEF TokenFee
<1>5. token.value \in Nat /\ token.fee \in Nat
  BY <1>1, Numbers
<1>6. CASE token.fee >= token.value
  <2>1. phase' = "unclaimable" /\ outcome' = outcome
    BY <1>6 DEF Claim
  <2>2. Types'
    BY <1>1, <1>2, <1>3, <2>1 DEF Types, Phases
  <2> QED BY <1>2, <1>4, <1>6, <2>1, <2>2 DEF IInv, RefusedOnlyIfShort
<1>7. CASE ~ (token.fee >= token.value)
  <2>1. phase' = "claimed" /\ outcome' = token.value - token.fee
    BY <1>7 DEF Claim
  <2>2. outcome' \in Nat /\ outcome' + token.fee = token.value
    BY <1>5, <1>7, <2>1
  <2>3. Types'
    BY <1>1, <1>2, <1>3, <2>1, <2>2 DEF Types, Phases
  <2> QED BY <1>2, <1>4, <2>1, <2>2, <2>3 DEF IInv, RefusedOnlyIfShort
<1> QED BY <1>6, <1>7

LEMMA QuoteMeltKeeps ==
  ASSUME IInv, NEW amount \in 1..MaxAmount, NEW feeReserve \in 0..MaxReserve,
         QuoteMelt(amount, feeReserve)
  PROVE  IInv'
<1> DEFINE target == amount + feeReserve
           I == Select(target)
<1>1. /\ Types /\ amount \in Nat /\ feeReserve \in Nat /\ target \in Nat \ {0}
  BY BoundsAssumption DEF IInv
<1>2. /\ UNCHANGED <<purse, ppk, active, receiveFee, token, outcome>>
      /\ reserve' = feeReserve /\ wanted' = amount /\ active' \in Keysets
  BY <1>1 DEF QuoteMelt, Types, PurseOK
<1>3. PurseOK /\ PurseOK' /\ Amounts' = Amounts /\ Prices' = Prices
  BY <1>1, <1>2, SamePurse DEF Types
<1>4. CASE Enough(target) = {}
  <2>1. phase' = "refused" /\ UNCHANGED <<chosen, sendFee, blanks>>
    BY <1>4 DEF QuoteMelt
  <2>2. Types'
    BY <1>1, <1>2, <1>3, <2>1 DEF Types, Phases
  <2>3. Short(target) \/ DearFirst
    BY <1>1, <1>3, <1>4, EnoughIsComplete
  <2>4. wanted' + reserve' = target
    BY <1>2
  <2> QED BY <1>2, <1>3, <2>1, <2>2, <2>3, <2>4, RefusalKeeps
<1>5. CASE Enough(target) # {}
  <2>1. /\ phase' = "quoted" /\ chosen' = I /\ sendFee' = Fee(I)
        /\ blanks' = Blanks(Total(I) - (amount + Fee(I)))
    BY <1>5 DEF QuoteMelt
  <2>2. I \in SUBSET DOMAIN purse /\ Covers(I, target)
    BY <1>1, <1>3, <1>5, SelectCovers
  <2>3. /\ Total(I) \in Nat /\ Fee(I) \in Nat
        /\ Total(I) <= Top /\ Total(I) >= target + Fee(I)
    BY <1>3, <2>2, TotalType, TotalBound DEF Covers
  <2> HIDE DEF I
  <2>4. Blanks(Total(I) - (amount + Fee(I))) \in Nat
    <3> DEFINE over == Total(I) - (amount + Fee(I))
    <3>1. over \in Nat /\ over <= Top /\ over \in 0..over
      BY <1>1, <2>3, TopIsNatural
    <3> HIDE DEF over
    <3>2. Blanks(over) \in Nat
      BY <3>1, BlanksHold
    <3> QED BY <3>2 DEF over
  <2>5. Types'
    BY <1>1, <1>2, <1>3, <2>1, <2>2, <2>3, <2>4 DEF Types, Phases
  <2>6. Total(chosen)' = Total(I) /\ Fee(chosen)' = Fee(I)
    BY <1>3, <2>1 DEF Total, Fee
  <2>7. QuotePays'
    BY <1>1, <1>2, <2>1, <2>3, <2>6 DEF QuotePays
  <2> QED BY <2>1, <2>5, <2>7 DEF IInv, RefusedOnlyIfShort
<1> QED BY <1>4, <1>5

LEMMA PayMeltKeeps ==
  ASSUME IInv, NEW fee \in 0..MaxReserve, PayMelt(fee)
  PROVE  IInv'
<1> DEFINE change == Total(chosen) - (wanted + sendFee + fee)
           over == Total(chosen) - (wanted + sendFee)
<1>1. Types /\ phase = "quoted" /\ QuotePays
  BY DEF IInv, PayMelt
<1>2. /\ UNCHANGED <<purse, ppk, active, wanted, reserve, chosen, sendFee,
                    receiveFee, blanks, token>>
      /\ active' \in Keysets /\ phase' = "paid" /\ fee <= reserve
      /\ outcome' = IF Parts(change) > blanks THEN change ELSE 0
  BY <1>1 DEF PayMelt, selection, Types, PurseOK
<1>3. PurseOK'
  BY <1>1, <1>2, SamePurse
<1>4. over \in Nat /\ over <= Total(chosen) /\ change \in 0..over /\ blanks = Blanks(over)
  <2>1. /\ Total(chosen) \in Nat /\ wanted \in Nat /\ reserve \in Nat
        /\ sendFee \in Nat /\ fee \in Nat
    BY <1>1, Numbers, BoundsAssumption DEF Types
  <2> QED BY <1>1, <1>2, <2>1 DEF QuotePays
<1>5. Parts(change) <= blanks /\ blanks \in Nat /\ Parts(change) \in Nat
  <2>1. Total(chosen) \in Nat /\ Total(chosen) <= Top
    BY <1>1, TotalBound, Numbers DEF Types
  <2> HIDE DEF change, over
  <2>2. over <= Top
    BY <1>4, <2>1, TopIsNatural
  <2>3. Parts(change) <= Blanks(over)
    BY <1>4, <2>2, BlanksHold
  <2> QED BY <1>1, <1>4, <2>3, PartsType DEF Types
<1>6. outcome' = 0
  BY <1>2, <1>5
<1>7. Types'
  BY <1>1, <1>2, <1>3, <1>6 DEF Types, Phases
<1> QED BY <1>2, <1>6, <1>7 DEF IInv, RefusedOnlyIfShort

LEMMA NextKeeps ==
  ASSUME IInv, [Next]_vars
  PROVE  IInv'
<1>1. CASE Next
  BY <1>1, PrepareSendKeeps, RotateKeeps, CreateSendKeeps, MintSwapKeeps, ClaimKeeps,
     QuoteMeltKeeps, PayMeltKeeps DEF Next
<1>2. CASE UNCHANGED vars
  <2>1. /\ UNCHANGED <<purse, ppk, active, phase, wanted, reserve, chosen, sendFee,
                      receiveFee, blanks, token, outcome>>
        /\ Types /\ active' \in Keysets
    BY <1>2 DEF vars, selection, IInv, Types, PurseOK
  <2>2. /\ PurseOK' /\ Amounts' = Amounts /\ Prices' = Prices
        /\ Total(chosen)' = Total(chosen) /\ Fee(chosen)' = Fee(chosen)
    BY <2>1, SamePurse
  <2>3. Types'
    BY <2>1, <2>2 DEF Types
  <2>4. RefusedOnlyIfShort'
    BY <2>1, <2>2 DEF IInv, RefusedOnlyIfShort, Short, DearFirst, TooDear, Estimate,
                      Covers, Total, Fee
  <2> QED BY <2>1, <2>2, <2>3, <2>4 DEF IInv, PreparedPays, SwapPays, TokenFee, QuotePays
<1> QED BY <1>1, <1>2

LEMMA InitHolds ==
  ASSUME Init
  PROVE  IInv
<1>1. PurseOK
  BY DEF Init, PurseOK, Purses
<1>2. Types
  BY <1>1 DEF Init, Types, Phases
<1> QED BY <1>2 DEF Init, IInv, RefusedOnlyIfShort

-----------------------------------------------------------------------------

(* The inductive invariant of a send and of a payment holds in every state:   *)
(* what prepare_proofs_and_fee, CashuSendSwapService::create and get_quote    *)
(* have chosen pays for what they promised, in every phase.                   *)
THEOREM Invariance == Spec => []IInv
<1>1. Init => IInv
  BY InitHolds
<1>2. IInv /\ [Next]_vars => IInv'
  BY NextKeeps
<1> QED BY <1>1, <1>2, PTL DEF Spec

(* Every amount, fee and number of blanks the two services compute is a       *)
(* natural number: no subtraction of a fee goes below zero.                   *)
THEOREM TypeCorrect == Spec => []TypeOK
<1>1. IInv => TypeOK
  <2>1. Types /\ PurseOK => purse \in Seq(Kinds)
    <3>1. SUFFICES ASSUME NEW n \in 1..MaxProofs, purse \in [1..n -> Kinds]
                   PROVE  purse \in Seq(Kinds)
      BY DEF PurseOK
    <3>2. n \in Nat
      BY BoundsAssumption
    <3> QED BY <3>1, <3>2
  <2>2. Types => token.value \in Nat /\ token.fee \in Nat
    BY DEF Types
  <2> QED BY <2>1, <2>2 DEF IInv, Types, PurseOK, TypeOK
<1> QED BY <1>1, Invariance, PTL

(* Whatever the purse and the fees, a refusal of prepare_proofs_and_fee or of *)
(* get_quote means that no set of proofs pays for the amount and its own fee, *)
(* but for a purse that begins with proofs that cost more than they are worth *)
(* and a receiver's fee above one that is not covered besides; and neither    *)
(* create nor the mint refuses afterwards.                                    *)
THEOREM RefusalIsJustified == Spec => []RefusedOnlyIfShort
<1>1. IInv => RefusedOnlyIfShort
  BY DEF IInv
<1> QED BY <1>1, Invariance, PTL

LEMMA TokenIsShortOnlyBySplit ==
  ASSUME IInv
  PROVE  ReceiverShortOnlyBySplit
<1> SUFFICES ASSUME phase \in {"claimed", "unclaimable"}, outcome < wanted
             PROVE  /\ token.fee > receiveFee
                    /\ \/ Estimate > receiveFee
                       \/ Parts(token.value) > 1 /\ (phase = "claimed" \/ ppk[active] > 1000)
  BY DEF ReceiverShortOnlyBySplit
<1> DEFINE v == token.value
           q == Parts(v)
           p == ppk[active]
<1>1. /\ Types /\ TokenFee
      /\ phase = "claimed" => outcome + token.fee = v
      /\ phase = "unclaimable" => token.fee >= v
  BY DEF IInv
<1>2. /\ v \in Nat /\ token.fee \in Nat /\ wanted \in Nat /\ receiveFee \in Nat
      /\ outcome \in Nat /\ p \in Nat /\ q \in Nat /\ wanted >= 1 /\ v = wanted + receiveFee
  BY <1>1, Numbers, PartsType DEF Types, TokenFee
<1>3. token.fee > receiveFee
  BY <1>1, <1>2
<1>4. token.fee = Thousands(q * p) /\ Estimate = Thousands(p)
  BY <1>1, <1>2, <1>3 DEF TokenFee, Estimate
<1>5. q >= 2 /\ v >= 2 => q < v
  BY <1>2, PartsFew
<1> HIDE DEF q, p, v
<1>6. q * p \in Nat /\ p \in Nat
  BY <1>2
<1>7. CASE q <= 1
  <2>1. q * p <= p
    BY <1>2, <1>7
  <2>2. Thousands(q * p) <= Thousands(p) /\ Thousands(p) \in Nat /\ Thousands(q * p) \in Nat
    BY <1>6, <2>1, Rounding
  <2> QED BY <1>2, <1>3, <1>4, <2>2
<1>8. CASE q >= 2 /\ phase = "unclaimable" /\ p <= 1000
  <2>1. q * p <= 1000 * q
    BY <1>2, <1>6, <1>8
  <2>2. Thousands(q * p) <= q /\ Thousands(q * p) \in Nat
    BY <1>2, <1>6, <2>1, Rounding
  <2>3. ~ (v >= 2)
    BY <1>1, <1>2, <1>4, <1>5, <1>8, <2>2
  <2>4. receiveFee = 0 /\ token.fee >= 1
    BY <1>2, <1>3, <2>3
  <2>5. p # 0
    <3> SUFFICES ASSUME p = 0 PROVE FALSE
      OBVIOUS
    <3>1. q * p = 0
      BY <1>2
    <3> QED BY <1>4, <1>6, <2>4, <3>1, Rounding
  <2>6. Thousands(p) \in Nat /\ Thousands(p) >= 1
    BY <1>2, <1>6, <2>5, Rounding
  <2> QED BY <1>3, <1>4, <2>4, <2>6
<1>9. CASE q >= 2 /\ (phase = "claimed" \/ p > 1000)
  BY <1>2, <1>3, <1>9 DEF p, q, v
<1>10. (q <= 1 \/ q >= 2) /\ (p <= 1000 \/ p > 1000)
  BY <1>2
<1> QED BY <1>7, <1>8, <1>9, <1>10

(* Whoever claims a token nets what was asked for, unless the swap split the  *)
(* token into several proofs or another keyset had become active: the two     *)
(* ways in which the fee that prepare_proofs_and_fee adds can be too small.   *)
(* The first makes a token worthless only where one proof costs more than 1.  *)
THEOREM ReceiverIsServed == Spec => []ReceiverShortOnlyBySplit
<1>1. IInv => ReceiverShortOnlyBySplit
  BY TokenIsShortOnlyBySplit
<1> QED BY <1>1, Invariance, PTL

(* The blanks that get_quote counts hold the change of every payment, however *)
(* little of its reserve the mint needs: no change is lost.                   *)
THEOREM ChangeComesBack == Spec => []ChangeFitsBlanks
<1>1. IInv => ChangeFitsBlanks
  BY DEF IInv, ChangeFitsBlanks
<1> QED BY <1>1, Invariance, PTL

=============================================================================
