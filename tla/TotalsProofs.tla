---------------------------- MODULE TotalsProofs ----------------------------
(***************************************************************************)
(* How a total changes when one member joins, leaves or changes its value. *)
(***************************************************************************)
EXTENDS Totals, Integers, FiniteSetTheorems, TLAPS

\* One member contributes as many units as its value.
LEMMA BlockSize ==
  ASSUME NEW a, NEW n \in Nat
  PROVE  IsFiniteSet({a} \X (1 .. n)) /\ Cardinality({a} \X (1 .. n)) = n
<1>1. IsFiniteSet(1 .. n) /\ Cardinality(1 .. n) = n
  BY FS_Interval
<1>2. IsFiniteSet({a}) /\ Cardinality({a}) = 1
  BY FS_Singleton
<1>3. /\ IsFiniteSet({a} \X (1 .. n))
      /\ Cardinality({a} \X (1 .. n)) = Cardinality({a}) * Cardinality(1 .. n)
  BY <1>1, <1>2, FS_Product
<1>4. QED
  BY <1>1, <1>2, <1>3

\* Finitely many members contribute finitely many units.
LEMMA UnitsFinite ==
  ASSUME NEW A, IsFiniteSet(A), NEW f, \A a \in A : f[a] \in Nat
  PROVE  IsFiniteSet(UnitsOf(f, A))
<1> DEFINE block == [a \in A |-> {a} \X (1 .. f[a])]
           blocks == {{a} \X (1 .. f[a]) : a \in A}
<1>1. block \in Surjection(A, blocks)
  BY DEF Surjection
<1>2. IsFiniteSet(blocks)
  BY <1>1, FS_Surjection
<1>3. ASSUME NEW a \in A PROVE IsFiniteSet({a} \X (1 .. f[a]))
  BY BlockSize
<1>4. IsFiniteSet(UNION blocks)
  <2>1. \A b \in blocks : IsFiniteSet(b)
    BY <1>3
  <2>2. QED
    BY <1>2, <2>1, FS_UNION
<1>5. QED
  BY <1>4 DEF UnitsOf

\* A total of naturals is a natural.
LEMMA TotalType ==
  ASSUME NEW A, IsFiniteSet(A), NEW f, \A a \in A : f[a] \in Nat
  PROVE  Total(f, A) \in Nat
BY UnitsFinite, FS_CardinalityType DEF Total

\* Nothing adds up to zero.
LEMMA TotalEmpty == ASSUME NEW f PROVE Total(f, {}) = 0
<1>1. UnitsOf(f, {}) = {}
  BY DEF UnitsOf
<1>2. QED
  BY <1>1, FS_EmptySet DEF Total

\* Only the values on the set count.
LEMMA TotalSame ==
  ASSUME NEW A, NEW f, NEW g, \A a \in A : f[a] = g[a]
  PROVE  Total(f, A) = Total(g, A)
<1>1. {{a} \X (1 .. f[a]) : a \in A} = {{a} \X (1 .. g[a]) : a \in A}
  OBVIOUS
<1>2. QED
  BY <1>1 DEF Total, UnitsOf

\* Zeros add up to zero.
LEMMA TotalZero ==
  ASSUME NEW A, NEW f, \A a \in A : f[a] = 0
  PROVE  Total(f, A) = 0
<1>1. UnitsOf(f, A) = {}
  BY DEF UnitsOf
<1>2. QED
  BY <1>1, FS_EmptySet DEF Total

\* A new member adds its value.
LEMMA TotalJoin ==
  ASSUME NEW A, IsFiniteSet(A), NEW x, x \notin A,
         NEW f, \A a \in A \cup {x} : f[a] \in Nat
  PROVE  Total(f, A \cup {x}) = Total(f, A) + f[x]
<1> DEFINE old == UnitsOf(f, A)
           new == {x} \X (1 .. f[x])
<1>1. UnitsOf(f, A \cup {x}) = old \cup new
  BY DEF UnitsOf
<1>2. old \cap new = {}
  BY DEF UnitsOf
<1>3. IsFiniteSet(old) /\ Cardinality(old) \in Nat
  BY UnitsFinite, FS_CardinalityType
<1>4. IsFiniteSet(new) /\ Cardinality(new) = f[x]
  BY BlockSize
<1>5. Cardinality(old \cup new) = Cardinality(old) + Cardinality(new) - Cardinality(old \cap new)
  BY <1>3, <1>4, FS_Union
<1>6. Cardinality(old \cap new) = 0
  BY <1>2, FS_EmptySet
<1>7. f[x] \in Nat
  OBVIOUS
<1>8. Cardinality(old \cup new) = Cardinality(old) + f[x]
  BY <1>3, <1>4, <1>5, <1>6, <1>7
<1>9. QED
  BY <1>1, <1>8 DEF Total

\* A member that leaves takes its value away.
LEMMA TotalLeave ==
  ASSUME NEW A, IsFiniteSet(A), NEW x \in A, NEW f, \A a \in A : f[a] \in Nat
  PROVE  Total(f, A) = Total(f, A \ {x}) + f[x]
<1>1. IsFiniteSet(A \ {x}) /\ x \notin A \ {x} /\ (A \ {x}) \cup {x} = A
  BY FS_RemoveElement
<1>2. QED
  BY <1>1, TotalJoin

\* A member that changes its value changes the total by the difference.
LEMMA TotalChange ==
  ASSUME NEW A, IsFiniteSet(A), NEW x \in A, NEW f, NEW g,
         \A a \in A : f[a] \in Nat /\ g[a] \in Nat,
         \A a \in A : a # x => g[a] = f[a]
  PROVE  Total(g, A) = Total(f, A) - f[x] + g[x]
<1>1. Total(f, A) = Total(f, A \ {x}) + f[x]
  BY TotalLeave
<1>2. Total(g, A) = Total(g, A \ {x}) + g[x]
  BY TotalLeave
<1>3. Total(g, A \ {x}) = Total(f, A \ {x})
  BY TotalSame
<1>4. Total(f, A \ {x}) \in Nat
  BY FS_RemoveElement, TotalType
<1>5. QED
  BY <1>1, <1>2, <1>3, <1>4

\* A part is at most the whole, and at least each of its members.
LEMMA TotalMember ==
  ASSUME NEW A, IsFiniteSet(A), NEW x \in A, NEW f, \A a \in A : f[a] \in Nat
  PROVE  f[x] <= Total(f, A)
<1>1. Total(f, A \ {x}) \in Nat
  BY FS_RemoveElement, TotalType
<1>2. QED
  BY <1>1, TotalLeave

\* Totals over disjoint parts of a set add up to no more than its total, and to
\* all of it when the parts cover the set: the units of f are mapped one to one
\* into, or onto, the units of g.
LEMMA TotalOfParts ==
  ASSUME NEW A, IsFiniteSet(A), NEW f, \A a \in A : f[a] \in Nat,
         NEW B, IsFiniteSet(B), NEW g, \A b \in B : g[b] \in Nat,
         NEW part \in [A -> SUBSET B],
         \A a \in A : f[a] = Total(g, part[a]),
         \A a1 \in A, a2 \in A : a1 # a2 => part[a1] \cap part[a2] = {}
  PROVE  /\ Total(f, A) <= Total(g, B)
         /\ (\A b \in B : \E a \in A : b \in part[a]) => Total(f, A) = Total(g, B)
<1> DEFINE block(a) == {a} \X (1 .. f[a])
           units(a) == UnitsOf(g, part[a])
           pick == [a \in A |-> CHOOSE h : h \in Bijection(block(a), units(a))]
           map == [u \in UnitsOf(f, A) |-> pick[u[1]][u]]
<1>1. ASSUME NEW a \in A PROVE pick[a] \in Bijection(block(a), units(a))
  <2>1. IsFiniteSet(block(a)) /\ Cardinality(block(a)) = f[a]
    BY BlockSize
  <2>2. IsFiniteSet(part[a]) /\ \A b \in part[a] : g[b] \in Nat
    BY FS_Subset
  <2>3. IsFiniteSet(units(a)) /\ Cardinality(units(a)) = f[a]
    BY <2>2, UnitsFinite DEF Total
  <2>4. ExistsBijection(block(a), units(a))
    BY <2>1, <2>3, FS_SameCardinalityBij
  <2>5. QED
    BY <2>4 DEF ExistsBijection
<1>2. ASSUME NEW u \in UnitsOf(f, A) PROVE u[1] \in A /\ u \in block(u[1])
  BY DEF UnitsOf
<1>3. ASSUME NEW u \in UnitsOf(f, A)
      PROVE  map[u] \in UnitsOf(g, B) /\ map[u][1] \in part[u[1]]
  <2>1. map[u] \in units(u[1])
    BY <1>1, <1>2 DEF Bijection, Injection
  <2> HIDE DEF map, pick
  <2>2. PICK b \in part[u[1]] : map[u] \in {b} \X (1 .. g[b])
    BY <2>1 DEF UnitsOf
  <2>3. b \in B
    BY <1>2, <2>2
  <2>4. map[u][1] = b
    BY <2>2
  <2>5. QED
    BY <2>2, <2>3, <2>4 DEF UnitsOf
<1>4. ASSUME NEW u \in UnitsOf(f, A), NEW v \in UnitsOf(f, A), map[u] = map[v] PROVE u = v
  <2>1. u[1] = v[1]
    BY <1>2, <1>3, <1>4
  <2>2. pick[u[1]] \in Injection(block(u[1]), units(u[1]))
    BY <1>1, <1>2 DEF Bijection
  <2>3. u \in block(u[1]) /\ v \in block(u[1]) /\ pick[u[1]][u] = pick[u[1]][v]
    BY <1>2, <1>4, <2>1
  <2>4. QED
    BY <2>2, <2>3 DEF Injection, IsInjective
<1>5. map \in Injection(UnitsOf(f, A), UnitsOf(g, B))
  <2>1. map \in [UnitsOf(f, A) -> UnitsOf(g, B)]
    BY <1>3
  <2>2. \A u \in UnitsOf(f, A), v \in UnitsOf(f, A) : map[u] = map[v] => u = v
    BY <1>4
  <2>3. DOMAIN map = UnitsOf(f, A)
    OBVIOUS
  <2> HIDE DEF map
  <2>4. QED
    BY <2>1, <2>2, <2>3 DEF Injection, IsInjective
<1>6. ASSUME \A b \in B : \E a \in A : b \in part[a]
      PROVE  map \in Surjection(UnitsOf(f, A), UnitsOf(g, B))
  <2> SUFFICES ASSUME NEW v \in UnitsOf(g, B)
               PROVE  \E u \in UnitsOf(f, A) : map[u] = v
    BY <1>5 DEF Injection, Surjection
  <2>1. PICK b \in B : v \in {b} \X (1 .. g[b])
    BY DEF UnitsOf
  <2>2. PICK a \in A : b \in part[a]
    BY <1>6
  <2>3. v \in units(a)
    BY <2>1, <2>2 DEF UnitsOf
  <2>4. PICK u \in block(a) : pick[a][u] = v
    BY <1>1, <2>3 DEF Bijection, Surjection
  <2>5. u \in UnitsOf(f, A) /\ u[1] = a
    BY DEF UnitsOf
  <2>6. QED
    BY <2>4, <2>5
<1> HIDE DEF map
<1>7. /\ IsFiniteSet(UnitsOf(f, A)) /\ IsFiniteSet(UnitsOf(g, B))
      /\ Cardinality(UnitsOf(f, A)) <= Cardinality(UnitsOf(g, B))
  BY <1>5, UnitsFinite, FS_Injection
<1>8. ASSUME \A b \in B : \E a \in A : b \in part[a]
      PROVE  Cardinality(UnitsOf(f, A)) = Cardinality(UnitsOf(g, B))
  BY <1>5, <1>6, <1>7, <1>8, FS_Injection
<1>9. QED
  BY <1>7, <1>8 DEF Total

\* Members with no value may be left out.
LEMMA TotalSupport ==
  ASSUME NEW A, NEW B, B \subseteq A, NEW f, NEW g,
         \A a \in A : g[a] = IF a \in B THEN f[a] ELSE 0
  PROVE  Total(g, A) = Total(f, B)
<1>1. \A u : u \in UnitsOf(g, A) <=> u \in UnitsOf(f, B)
  BY DEF UnitsOf
<1>2. UnitsOf(g, A) = UnitsOf(f, B)
  BY <1>1
<1>3. QED
  BY <1>2 DEF Total

\* Members of equal value add up to a product.
LEMMA TotalConstant ==
  ASSUME NEW A, IsFiniteSet(A), NEW n \in Nat, NEW f, \A a \in A : f[a] = n
  PROVE  Total(f, A) = Cardinality(A) * n /\ Cardinality(A) \in Nat
<1>1. UnitsOf(f, A) = A \X (1 .. n)
  BY DEF UnitsOf
<1>2. IsFiniteSet(1 .. n) /\ Cardinality(1 .. n) = n
  BY FS_Interval
<1>3. Cardinality(A \X (1 .. n)) = Cardinality(A) * Cardinality(1 .. n)
  BY <1>2, FS_Product
<1>4. QED
  BY <1>1, <1>2, <1>3, FS_CardinalityType DEF Total

\* Totals add up member by member: the units of g are moved on top of those of f.
LEMMA TotalSum ==
  ASSUME NEW A, IsFiniteSet(A), NEW f, NEW g, NEW h,
         \A a \in A : f[a] \in Nat /\ g[a] \in Nat /\ h[a] = f[a] + g[a]
  PROVE  Total(h, A) = Total(f, A) + Total(g, A)
<1> DEFINE low == UnitsOf(f, A)
           high == UnitsOf(h, A) \ low
           map == [u \in UnitsOf(g, A) |-> <<u[1], f[u[1]] + u[2]>>]
<1>1. /\ IsFiniteSet(UnitsOf(h, A)) /\ IsFiniteSet(low) /\ IsFiniteSet(UnitsOf(g, A))
  BY UnitsFinite
<1>2. low \subseteq UnitsOf(h, A)
  BY DEF UnitsOf
<1>3. ASSUME NEW u \in UnitsOf(g, A)
      PROVE  u[1] \in A /\ u[2] \in 1 .. g[u[1]] /\ u = <<u[1], u[2]>>
  BY DEF UnitsOf
<1>4. ASSUME NEW u \in UnitsOf(g, A) PROVE map[u] \in high
  <2>1. /\ u[1] \in A /\ u[2] \in 1 .. g[u[1]]
        /\ f[u[1]] + u[2] \in 1 .. h[u[1]] /\ f[u[1]] + u[2] \notin 1 .. f[u[1]]
    BY <1>3
  <2>2. map[u] = <<u[1], f[u[1]] + u[2]>>
    OBVIOUS
  <2>3. QED
    BY <2>1, <2>2 DEF UnitsOf
<1>5. ASSUME NEW u \in UnitsOf(g, A), NEW v \in UnitsOf(g, A), map[u] = map[v] PROVE u = v
  <2>1. u[1] = v[1] /\ f[u[1]] + u[2] = f[v[1]] + v[2]
    BY <1>5
  <2>2. f[u[1]] \in Nat /\ u[2] \in Nat /\ v[2] \in Nat
    BY <1>3
  <2>3. u[2] = v[2]
    BY <2>1, <2>2
  <2>4. QED
    BY <1>3, <2>1, <2>3
<1>6. ASSUME NEW w \in high PROVE \E u \in UnitsOf(g, A) : map[u] = w
  <2>1. PICK a \in A : w \in {a} \X (1 .. h[a])
    BY DEF UnitsOf
  <2>2. w[1] = a /\ w[2] \in 1 .. h[a] /\ w = <<a, w[2]>>
    BY <2>1
  <2>3. w[2] \notin 1 .. f[a]
    BY <2>1, <2>2 DEF UnitsOf
  <2>4. w[2] - f[a] \in 1 .. g[a] /\ f[a] + (w[2] - f[a]) = w[2]
    BY <2>2, <2>3
  <2>5. <<a, w[2] - f[a]>> \in UnitsOf(g, A)
    BY <2>4 DEF UnitsOf
  <2>6. map[<<a, w[2] - f[a]>>] = <<a, w[2]>>
    BY <2>4, <2>5
  <2>7. QED
    BY <2>2, <2>5, <2>6
<1>7. map \in Bijection(UnitsOf(g, A), high)
  <2>1. map \in [UnitsOf(g, A) -> high]
    BY <1>4
  <2>2. DOMAIN map = UnitsOf(g, A)
    OBVIOUS
  <2> HIDE DEF map
  <2>3. QED
    BY <1>5, <1>6, <2>1, <2>2 DEF Bijection, Injection, Surjection, IsInjective
<1>8. IsFiniteSet(high) /\ Cardinality(high) = Cardinality(UnitsOf(g, A))
  <2>1. ExistsBijection(UnitsOf(g, A), high)
    BY <1>7 DEF ExistsBijection
  <2> HIDE DEF high
  <2>2. QED
    BY <1>1, <2>1, FS_Bijection
<1>9. Cardinality(high) = Cardinality(UnitsOf(h, A)) - Cardinality(low)
  <2>1. UnitsOf(h, A) \cap low = low
    BY <1>2
  <2>2. Cardinality(high) = Cardinality(UnitsOf(h, A)) - Cardinality(UnitsOf(h, A) \cap low)
    <3> HIDE DEF low
    <3>1. QED
      BY <1>1, FS_Difference
  <2>3. QED
    BY <2>1, <2>2
<1>10. Cardinality(UnitsOf(h, A)) \in Nat /\ Cardinality(low) \in Nat
  BY <1>1, FS_CardinalityType
<1>11. QED
  BY <1>8, <1>9, <1>10 DEF Total

\* Totals over disjoint sets add up.
LEMMA TotalUnion ==
  ASSUME NEW A, IsFiniteSet(A), NEW B, IsFiniteSet(B), A \cap B = {},
         NEW f, \A x \in A \cup B : f[x] \in Nat
  PROVE  Total(f, A \cup B) = Total(f, A) + Total(f, B)
<1>1. UnitsOf(f, A \cup B) = UnitsOf(f, A) \cup UnitsOf(f, B)
  BY DEF UnitsOf
<1>2. UnitsOf(f, A) \cap UnitsOf(f, B) = {}
  BY DEF UnitsOf
<1>3. IsFiniteSet(UnitsOf(f, A)) /\ IsFiniteSet(UnitsOf(f, B))
  BY UnitsFinite
<1> DEFINE a == UnitsOf(f, A)
           b == UnitsOf(f, B)
<1>4. Total(f, A \cup B) = Total(f, A) + Total(f, B) - Cardinality({})
  <2>1. Cardinality(a \cup b) = Cardinality(a) + Cardinality(b) - Cardinality(a \cap b)
    <3> HIDE DEF a, b
    <3>1. IsFiniteSet(a) /\ IsFiniteSet(b)
      BY <1>3 DEF a, b
    <3>2. QED
      BY <3>1, FS_Union
  <2>2. QED
    BY <1>1, <1>2, <2>1 DEF Total
<1>5. QED
  BY <1>4, TotalType, FS_EmptySet
=============================================================================
