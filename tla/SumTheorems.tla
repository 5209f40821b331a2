---------------------------- MODULE SumTheorems ----------------------------
(***************************************************************************)
(* What SumFunctionOnSet of the community modules computes, for every      *)
(* finite set: the recursive function behind it exists, and the sum does   *)
(* not depend on the order in which it takes the elements.                 *)
(***************************************************************************)
EXTENDS Integers, FiniteSets, FiniteSetsExt, Functions, FiniteSetTheorems, TLAPS

\* The element that the folds take first.
First(s) == CHOOSE x \in s : TRUE

\* g sums fun over every set of the family D.
SumsOver(g, fun, D) ==
  g = [s \in D |-> IF s = {} THEN 0 ELSE fun[First(s)] + g[s \ {First(s)}]]

UpTo(S, n) == {u \in SUBSET S : Cardinality(u) <= n}

\* A nonempty family of subsets of a finite set has a minimal member.
LEMMA MinimalMember ==
  ASSUME NEW S, IsFiniteSet(S), NEW B \in SUBSET (SUBSET S), B # {}
  PROVE  \E u \in B : \A v \in B : v \subseteq u => v = u
<1>1. B \subseteq FiniteSubsetsOf(S)
  BY FS_Subset DEF FiniteSubsetsOf
<1>2. PICK u \in B : \A v \in B : <<v, u>> \notin StrictSubsetOrdering(S)
  BY <1>1, FS_StrictSubsetOrderingWellFounded, WFMin
<1>3. \A v \in B : v \subseteq u => v = u
  BY <1>2 DEF StrictSubsetOrdering
<1>4. QED
  BY <1>3

\* Taking an element out of a finite set.
LEMMA TakeFirst ==
  ASSUME NEW S, IsFiniteSet(S), S # {}
  PROVE  /\ First(S) \in S
         /\ IsFiniteSet(S \ {First(S)})
         /\ Cardinality(S \ {First(S)}) = Cardinality(S) - 1
         /\ S \ {First(S)} # S
<1>1. First(S) \in S
  BY DEF First
<1>2. QED
  BY <1>1, FS_RemoveElement

\* What the sums are, set by set.
LEMMA SumsAt ==
  ASSUME NEW g, NEW fun, NEW D, SumsOver(g, fun, D), NEW s \in D
  PROVE  g[s] = IF s = {} THEN 0 ELSE fun[First(s)] + g[s \ {First(s)}]
BY DEF SumsOver

\* Sums over the subsets with at most n elements exist.
LEMMA SumsExistUpTo ==
  ASSUME NEW S, IsFiniteSet(S), NEW fun, NEW n \in Nat
  PROVE  \E g : SumsOver(g, fun, UpTo(S, n))
<1> DEFINE Missing == {m \in Nat : ~ \E g : SumsOver(g, fun, UpTo(S, m))}
<1> SUFFICES ASSUME Missing # {} PROVE FALSE
  OBVIOUS
<1>1. PICK m \in Missing : \A k \in Missing : <<k, m>> \notin OpToRel(<, Nat)
  BY NatLessThanWellFounded, WFMin
<1>2. m \in Nat /\ \A k \in Nat : k < m => \E g : SumsOver(g, fun, UpTo(S, k))
  BY <1>1 DEF OpToRel
<1>3. ~ \E g : SumsOver(g, fun, UpTo(S, m))
  BY <1>1
<1> HIDE DEF Missing
<1>4. \A s \in SUBSET S : Cardinality(s) \in Nat /\ (Cardinality(s) = 0 => s = {})
  BY FS_Subset, FS_CardinalityType, FS_EmptySet
<1>5. \A s \in SUBSET S : s # {} =>
        /\ s \ {First(s)} \in SUBSET S
        /\ Cardinality(s \ {First(s)}) = Cardinality(s) - 1
  BY FS_Subset, TakeFirst
<1>6. CASE m = 0
  <2> DEFINE g == [s \in UpTo(S, m) |-> 0]
  <2>1. \A s \in UpTo(S, m) : s = {}
    <3> SUFFICES ASSUME NEW s \in UpTo(S, m) PROVE s = {}
      OBVIOUS
    <3>1. s \in SUBSET S /\ Cardinality(s) <= 0
      BY <1>6 DEF UpTo
    <3>2. Cardinality(s) = 0
      BY <1>4, <3>1
    <3>3. QED
      BY <1>4, <3>1, <3>2
  <2>2. SumsOver(g, fun, UpTo(S, m))
    BY <2>1 DEF SumsOver
  <2>3. QED
    BY <1>3, <2>2
<1>7. CASE m # 0
  <2>1. m - 1 \in Nat /\ m - 1 < m
    BY <1>2, <1>7
  <2>2. PICK h : SumsOver(h, fun, UpTo(S, m - 1))
    BY <1>2, <2>1
  <2> DEFINE g == [s \in UpTo(S, m) |->
                     IF s = {} THEN 0 ELSE fun[First(s)] + h[s \ {First(s)}]]
  <2>3. UpTo(S, m - 1) \subseteq UpTo(S, m)
    <3> SUFFICES ASSUME NEW s \in SUBSET S, Cardinality(s) <= m - 1
                 PROVE  Cardinality(s) <= m
      BY DEF UpTo
    <3>1. Cardinality(s) \in Nat /\ m \in Nat
      BY <1>2, <1>4
    <3>2. QED
      BY <3>1
  <2>4. \A s \in UpTo(S, m - 1) : g[s] = h[s]
    <3> SUFFICES ASSUME NEW s \in UpTo(S, m - 1) PROVE g[s] = h[s]
      OBVIOUS
    <3>1. h[s] = IF s = {} THEN 0 ELSE fun[First(s)] + h[s \ {First(s)}]
      BY <2>2, SumsAt
    <3>2. g[s] = IF s = {} THEN 0 ELSE fun[First(s)] + h[s \ {First(s)}]
      BY <2>3
    <3>3. QED
      BY <3>1, <3>2
  <2>5. \A s \in UpTo(S, m) : s # {} => s \ {First(s)} \in UpTo(S, m - 1)
    <3> SUFFICES ASSUME NEW s \in SUBSET S, Cardinality(s) <= m, s # {}
                 PROVE  Cardinality(s \ {First(s)}) <= m - 1 /\ s \ {First(s)} \in SUBSET S
      BY DEF UpTo
    <3>1. Cardinality(s) \in Nat /\ m \in Nat
      BY <1>2, <1>4
    <3>2. QED
      BY <1>5, <3>1
  <2>6. \A s \in UpTo(S, m) : s # {} => g[s \ {First(s)}] = h[s \ {First(s)}]
    BY <2>4, <2>5
  <2>7. g = [s \in UpTo(S, m) |->
               IF s = {} THEN 0 ELSE fun[First(s)] + g[s \ {First(s)}]]
    BY <2>6
  <2>8. SumsOver(g, fun, UpTo(S, m))
    BY <2>7 DEF SumsOver
  <2>9. QED
    BY <1>3, <2>8
<1>8. QED
  BY <1>6, <1>7

\* The function that the definition of the sum chooses sums over all subsets.
LEMMA SumsExist ==
  ASSUME NEW S, IsFiniteSet(S), NEW fun
  PROVE  \E g : SumsOver(g, fun, SUBSET S) /\ SumFunctionOnSet(fun, S) = g[S]
<1> DEFINE Sums(g) == g = [s \in SUBSET S |->
                      IF s = {} THEN 0 ELSE fun[First(s)] + g[s \ {First(s)}]]
<1>1. SumFunctionOnSet(fun, S) = (CHOOSE g : Sums(g))[S]
  BY DEF SumFunctionOnSet, FoldFunctionOnSet, MapThenFoldSet, First
<1>2. Cardinality(S) \in Nat
  BY FS_CardinalityType
<1>3. UpTo(S, Cardinality(S)) = SUBSET S
  BY <1>2, FS_Subset DEF UpTo
<1>4. PICK h : SumsOver(h, fun, UpTo(S, Cardinality(S)))
  BY <1>2, SumsExistUpTo
<1>5. SumsOver(h, fun, SUBSET S)
  BY <1>3, <1>4
<1>6. Sums(h)
  BY <1>5 DEF SumsOver
<1> HIDE DEF Sums
<1>7. Sums(CHOOSE g : Sums(g))
  BY <1>6
<1>8. SumsOver(CHOOSE g : Sums(g), fun, SUBSET S)
  BY <1>7 DEF SumsOver, Sums
<1>9. QED
  BY <1>1, <1>8

\* Two functions that sum over the subsets of finite sets agree on the sets
\* that both sum over, if what they sum agrees there.
LEMMA SumsAgree ==
  ASSUME NEW S, NEW T, NEW f1, NEW f2, NEW g, NEW h,
         SumsOver(g, f1, SUBSET S), SumsOver(h, f2, SUBSET T),
         NEW U, IsFiniteSet(U), U \subseteq S, U \subseteq T, \A x \in U : f1[x] = f2[x]
  PROVE  g[U] = h[U]
<1> DEFINE Differ == {u \in SUBSET U : g[u] # h[u]}
<1> SUFFICES ASSUME Differ # {} PROVE FALSE
  OBVIOUS
<1>1. Differ \in SUBSET (SUBSET U)
  OBVIOUS
<1> HIDE DEF Differ
<1>2. PICK u \in Differ : \A v \in Differ : v \subseteq u => v = u
  BY <1>1, MinimalMember
<1> USE DEF Differ
<1>3. u \in SUBSET U /\ IsFiniteSet(u) /\ g[u] # h[u]
  BY <1>2, FS_Subset
<1>4. \A v \in SUBSET U : v \subseteq u /\ v # u => g[v] = h[v]
  BY <1>2
<1> HIDE DEF Differ
<1>5. /\ g[u] = IF u = {} THEN 0 ELSE f1[First(u)] + g[u \ {First(u)}]
      /\ h[u] = IF u = {} THEN 0 ELSE f2[First(u)] + h[u \ {First(u)}]
  BY <1>3, SumsAt
<1>6. u # {}
  BY <1>3, <1>5
<1>7. First(u) \in u /\ u \ {First(u)} # u
  BY <1>3, <1>6, TakeFirst
<1>8. g[u \ {First(u)}] = h[u \ {First(u)}]
  BY <1>3, <1>4, <1>7
<1>9. f1[First(u)] = f2[First(u)]
  BY <1>3, <1>7
<1>10. QED
  BY <1>3, <1>5, <1>6, <1>8, <1>9

\* The sum over no element.
LEMMA SumEmpty ==
  ASSUME NEW fun
  PROVE  SumFunctionOnSet(fun, {}) = 0
<1>1. PICK g : SumsOver(g, fun, SUBSET {}) /\ SumFunctionOnSet(fun, {}) = g[{}]
  BY SumsExist, FS_EmptySet
<1>2. QED
  BY <1>1, SumsAt

\* Sums depend on the values on the set only.
LEMMA SumEqual ==
  ASSUME NEW S, IsFiniteSet(S), NEW f1, NEW f2, \A x \in S : f1[x] = f2[x]
  PROVE  SumFunctionOnSet(f1, S) = SumFunctionOnSet(f2, S)
<1>1. PICK g : SumsOver(g, f1, SUBSET S) /\ SumFunctionOnSet(f1, S) = g[S]
  BY SumsExist
<1>2. PICK h : SumsOver(h, f2, SUBSET S) /\ SumFunctionOnSet(f2, S) = h[S]
  BY SumsExist
<1>3. S \subseteq S
  OBVIOUS
<1>4. g[S] = h[S]
  BY <1>1, <1>2, <1>3, SumsAgree
<1>5. QED
  BY <1>1, <1>2, <1>4

\* The sum takes one element after the other.
LEMMA SumFirst ==
  ASSUME NEW S, IsFiniteSet(S), S # {}, NEW fun
  PROVE  SumFunctionOnSet(fun, S) = fun[First(S)] + SumFunctionOnSet(fun, S \ {First(S)})
<1> DEFINE T == S \ {First(S)}
<1>1. PICK g : SumsOver(g, fun, SUBSET S) /\ SumFunctionOnSet(fun, S) = g[S]
  BY SumsExist
<1>2. First(S) \in S /\ IsFiniteSet(T) /\ T \subseteq S
  BY TakeFirst
<1> HIDE DEF T
<1>3. PICK h : SumsOver(h, fun, SUBSET T) /\ SumFunctionOnSet(fun, T) = h[T]
  BY <1>2, SumsExist
<1>4. T \subseteq T /\ \A x \in T : fun[x] = fun[x]
  OBVIOUS
<1>5. g[T] = h[T]
  BY <1>1, <1>2, <1>3, <1>4, SumsAgree
<1>6. g[S] = fun[First(S)] + g[T]
  BY <1>1, SumsAt DEF T
<1>7. QED
  BY <1>1, <1>3, <1>5, <1>6 DEF T

\* A sum of naturals is a natural.
LEMMA SumType ==
  ASSUME NEW S, IsFiniteSet(S), NEW fun, \A x \in S : fun[x] \in Nat
  PROVE  SumFunctionOnSet(fun, S) \in Nat
<1> DEFINE Bad == {u \in SUBSET S : SumFunctionOnSet(fun, u) \notin Nat}
<1> SUFFICES ASSUME Bad # {} PROVE FALSE
  OBVIOUS
<1>1. Bad \in SUBSET (SUBSET S)
  OBVIOUS
<1> HIDE DEF Bad
<1>2. PICK u \in Bad : \A v \in Bad : v \subseteq u => v = u
  BY <1>1, MinimalMember
<1> USE DEF Bad
<1>3. u \in SUBSET S /\ IsFiniteSet(u) /\ SumFunctionOnSet(fun, u) \notin Nat
  BY <1>2, FS_Subset
<1>4. \A v \in SUBSET S : v \subseteq u /\ v # u => SumFunctionOnSet(fun, v) \in Nat
  BY <1>2
<1> HIDE DEF Bad
<1>5. u # {}
  BY <1>3, SumEmpty
<1>6. First(u) \in u /\ u \ {First(u)} # u
  BY <1>3, <1>5, TakeFirst
<1>7. SumFunctionOnSet(fun, u) = fun[First(u)] + SumFunctionOnSet(fun, u \ {First(u)})
  BY <1>3, <1>5, SumFirst
<1>8. SumFunctionOnSet(fun, u \ {First(u)}) \in Nat /\ fun[First(u)] \in Nat
  BY <1>3, <1>4, <1>6
<1>9. QED
  BY <1>3, <1>7, <1>8

\* The sum may take any element first.
LEMMA SumTake ==
  ASSUME NEW S, IsFiniteSet(S), NEW fun, \A x \in S : fun[x] \in Nat, NEW a \in S
  PROVE  SumFunctionOnSet(fun, S) = fun[a] + SumFunctionOnSet(fun, S \ {a})
<1> DEFINE Sum(u) == SumFunctionOnSet(fun, u)
           Bad == {u \in SUBSET S : \E x \in u : Sum(u) # fun[x] + Sum(u \ {x})}
<1>1. \A u \in SUBSET S : IsFiniteSet(u) /\ Sum(u) \in Nat
  BY FS_Subset, SumType
<1> SUFFICES ASSUME Bad # {} PROVE FALSE
  OBVIOUS
<1>2. Bad \in SUBSET (SUBSET S)
  OBVIOUS
<1> HIDE DEF Bad
<1>3. PICK u \in Bad : \A v \in Bad : v \subseteq u => v = u
  BY <1>2, MinimalMember
<1> USE DEF Bad
<1>4. PICK c \in u : Sum(u) # fun[c] + Sum(u \ {c})
  BY <1>3
<1>5. u \in SUBSET S
  BY <1>3
<1>6. \A v \in SUBSET S : v \subseteq u /\ v # u =>
        \A x \in v : Sum(v) = fun[x] + Sum(v \ {x})
  BY <1>3
<1> HIDE DEF Bad
<1> DEFINE b == First(u)
           rest == (u \ {b}) \ {c}
<1>7. b \in u /\ Sum(u) = fun[b] + Sum(u \ {b})
  BY <1>1, <1>4, <1>5, TakeFirst, SumFirst
<1> HIDE DEF b, Sum
<1>8. b # c
  BY <1>4, <1>7
<1>9. Sum(u \ {b}) = fun[c] + Sum(rest)
  BY <1>4, <1>5, <1>6, <1>7, <1>8
<1>10. Sum(u \ {c}) = fun[b] + Sum(rest)
  <2>1. (u \ {c}) \ {b} = rest
    OBVIOUS
  <2>2. Sum(u \ {c}) = fun[b] + Sum((u \ {c}) \ {b})
    BY <1>4, <1>5, <1>6, <1>7, <1>8
  <2>3. QED
    BY <2>1, <2>2
<1>11. fun[b] \in Nat /\ fun[c] \in Nat /\ Sum(rest) \in Nat
  BY <1>1, <1>4, <1>5, <1>7
<1>12. QED
  BY <1>4, <1>7, <1>9, <1>10, <1>11

\* One element more.
LEMMA SumAdd ==
  ASSUME NEW S, IsFiniteSet(S), NEW fun, NEW a, a \notin S,
         \A x \in S \cup {a} : fun[x] \in Nat
  PROVE  SumFunctionOnSet(fun, S \cup {a}) = fun[a] + SumFunctionOnSet(fun, S)
<1>1. IsFiniteSet(S \cup {a}) /\ a \in S \cup {a} /\ (S \cup {a}) \ {a} = S
  BY FS_AddElement
<1> DEFINE T == S \cup {a}
<1>2. SumFunctionOnSet(fun, T) = fun[a] + SumFunctionOnSet(fun, T \ {a})
  <2> HIDE DEF T
  <2>1. IsFiniteSet(T) /\ a \in T /\ \A x \in T : fun[x] \in Nat
    BY <1>1 DEF T
  <2>2. QED
    BY <2>1, SumTake
<1>3. QED
  BY <1>1, <1>2

\* The value of one element changes.
LEMMA SumChange ==
  ASSUME NEW S, IsFiniteSet(S), NEW f1, NEW f2, NEW a \in S,
         \A x \in S : f1[x] \in Nat /\ f2[x] \in Nat,
         \A x \in S \ {a} : f1[x] = f2[x]
  PROVE  /\ SumFunctionOnSet(f1, S) \in Nat /\ SumFunctionOnSet(f2, S) \in Nat
         /\ SumFunctionOnSet(f2, S) + f1[a] = SumFunctionOnSet(f1, S) + f2[a]
<1> DEFINE T == S \ {a}
<1>1. IsFiniteSet(T)
  BY FS_RemoveElement
<1>2. /\ SumFunctionOnSet(f1, S) = f1[a] + SumFunctionOnSet(f1, T)
      /\ SumFunctionOnSet(f2, S) = f2[a] + SumFunctionOnSet(f2, T)
  BY SumTake
<1>3. SumFunctionOnSet(f1, T) = SumFunctionOnSet(f2, T)
  BY <1>1, SumEqual
<1>4. SumFunctionOnSet(f1, T) \in Nat
  BY <1>1, SumType
<1>5. QED
  BY <1>2, <1>3, <1>4

\* A value changes that need not be one of the summands.
LEMMA SumUpdate ==
  ASSUME NEW S, IsFiniteSet(S), NEW f1, NEW f2, NEW a,
         \A x \in S : f1[x] \in Nat /\ f2[x] \in Nat,
         \A x \in S : x # a => f1[x] = f2[x]
  PROVE  /\ SumFunctionOnSet(f1, S) \in Nat /\ SumFunctionOnSet(f2, S) \in Nat
         /\ a \notin S => SumFunctionOnSet(f2, S) = SumFunctionOnSet(f1, S)
         /\ a \in S => SumFunctionOnSet(f2, S) + f1[a] = SumFunctionOnSet(f1, S) + f2[a]
<1>1. SumFunctionOnSet(f1, S) \in Nat /\ SumFunctionOnSet(f2, S) \in Nat
  BY SumType
<1>2. CASE a \in S
  BY <1>1, <1>2, SumChange
<1>3. CASE a \notin S
  BY <1>1, <1>3, SumEqual
<1>4. QED
  BY <1>2, <1>3

\* A sum of zeros.
LEMMA SumZero ==
  ASSUME NEW S, IsFiniteSet(S), NEW fun, \A x \in S : fun[x] = 0
  PROVE  SumFunctionOnSet(fun, S) = 0
<1> DEFINE Bad == {u \in SUBSET S : SumFunctionOnSet(fun, u) # 0}
<1> SUFFICES ASSUME Bad # {} PROVE FALSE
  OBVIOUS
<1>1. Bad \in SUBSET (SUBSET S)
  OBVIOUS
<1> HIDE DEF Bad
<1>2. PICK u \in Bad : \A v \in Bad : v \subseteq u => v = u
  BY <1>1, MinimalMember
<1> USE DEF Bad
<1>3. u \in SUBSET S /\ IsFiniteSet(u) /\ SumFunctionOnSet(fun, u) # 0
  BY <1>2, FS_Subset
<1>4. u # {}
  BY <1>3, SumEmpty
<1>5. First(u) \in u /\ u \ {First(u)} # u
  BY <1>3, <1>4, TakeFirst
<1>6. SumFunctionOnSet(fun, u) = fun[First(u)] + SumFunctionOnSet(fun, u \ {First(u)})
  BY <1>3, <1>4, SumFirst
<1>7. SumFunctionOnSet(fun, u \ {First(u)}) = 0 /\ fun[First(u)] = 0
  BY <1>2, <1>3, <1>5
<1>8. QED
  BY <1>3, <1>6, <1>7

\* Smaller values have a smaller sum.
LEMMA SumMonotone ==
  ASSUME NEW S, IsFiniteSet(S), NEW f1, NEW f2,
         \A x \in S : f1[x] \in Nat /\ f2[x] \in Nat /\ f1[x] <= f2[x]
  PROVE  SumFunctionOnSet(f1, S) <= SumFunctionOnSet(f2, S)
<1> DEFINE Bad == {u \in SUBSET S : ~(SumFunctionOnSet(f1, u) <= SumFunctionOnSet(f2, u))}
<1> SUFFICES ASSUME Bad # {} PROVE FALSE
  OBVIOUS
<1>1. Bad \in SUBSET (SUBSET S)
  OBVIOUS
<1> HIDE DEF Bad
<1>2. PICK u \in Bad : \A v \in Bad : v \subseteq u => v = u
  BY <1>1, MinimalMember
<1> USE DEF Bad
<1>3. /\ u \in SUBSET S /\ IsFiniteSet(u)
      /\ ~(SumFunctionOnSet(f1, u) <= SumFunctionOnSet(f2, u))
  BY <1>2, FS_Subset
<1>4. u # {}
  BY <1>3, SumEmpty
<1>5. First(u) \in u /\ u \ {First(u)} # u /\ IsFiniteSet(u \ {First(u)})
  BY <1>3, <1>4, TakeFirst
<1>6. /\ SumFunctionOnSet(f1, u) = f1[First(u)] + SumFunctionOnSet(f1, u \ {First(u)})
      /\ SumFunctionOnSet(f2, u) = f2[First(u)] + SumFunctionOnSet(f2, u \ {First(u)})
  BY <1>3, <1>4, SumFirst
<1>7. SumFunctionOnSet(f1, u \ {First(u)}) <= SumFunctionOnSet(f2, u \ {First(u)})
  BY <1>2, <1>3, <1>5
<1>8. /\ SumFunctionOnSet(f1, u \ {First(u)}) \in Nat
      /\ SumFunctionOnSet(f2, u \ {First(u)}) \in Nat
  BY <1>3, <1>5, SumType
<1>9. f1[First(u)] \in Nat /\ f2[First(u)] \in Nat /\ f1[First(u)] <= f2[First(u)]
  BY <1>3, <1>5
<1>10. QED
  BY <1>3, <1>6, <1>7, <1>8, <1>9

\* A weighted sum lies between the least and the greatest multiple of the sum
\* of the weights.
LEMMA SumWithin ==
  ASSUME NEW S, IsFiniteSet(S), NEW w, NEW v, NEW lo \in Nat, NEW hi \in Nat,
         \A x \in S : w[x] \in Nat /\ v[x] \in Nat,
         \A x \in S : lo * w[x] <= v[x] /\ v[x] <= hi * w[x]
  PROVE  /\ lo * SumFunctionOnSet(w, S) <= SumFunctionOnSet(v, S)
         /\ SumFunctionOnSet(v, S) <= hi * SumFunctionOnSet(w, S)
<1> DEFINE Within(u) == /\ lo * SumFunctionOnSet(w, u) <= SumFunctionOnSet(v, u)
                       /\ SumFunctionOnSet(v, u) <= hi * SumFunctionOnSet(w, u)
           Bad == {u \in SUBSET S : ~Within(u)}
<1> SUFFICES ASSUME Bad # {} PROVE FALSE
  OBVIOUS
<1>1. Bad \in SUBSET (SUBSET S)
  OBVIOUS
<1> HIDE DEF Bad
<1>2. PICK u \in Bad : \A t \in Bad : t \subseteq u => t = u
  BY <1>1, MinimalMember
<1> USE DEF Bad
<1>3. u \in SUBSET S /\ IsFiniteSet(u) /\ ~Within(u)
  BY <1>2, FS_Subset
<1>4. u # {}
  BY <1>3, SumEmpty
<1> DEFINE rest == u \ {First(u)}
           W == SumFunctionOnSet(w, rest)
           V == SumFunctionOnSet(v, rest)
<1>5. First(u) \in u /\ rest # u /\ IsFiniteSet(rest) /\ rest \in SUBSET S
  BY <1>3, <1>4, TakeFirst
<1>6. /\ SumFunctionOnSet(w, u) = w[First(u)] + W
      /\ SumFunctionOnSet(v, u) = v[First(u)] + V
  BY <1>3, <1>4, SumFirst
<1>7. lo * W <= V /\ V <= hi * W
  BY <1>2, <1>3, <1>5
<1>8. W \in Nat /\ V \in Nat
  BY <1>5, SumType
<1>9. /\ w[First(u)] \in Nat /\ v[First(u)] \in Nat
      /\ lo * w[First(u)] <= v[First(u)] /\ v[First(u)] <= hi * w[First(u)]
  BY <1>3, <1>5
<1> HIDE DEF W, V
<1>10. /\ lo * (w[First(u)] + W) = lo * w[First(u)] + lo * W
       /\ hi * (w[First(u)] + W) = hi * w[First(u)] + hi * W
  BY <1>8, <1>9
<1>11. lo * w[First(u)] \in Nat /\ lo * W \in Nat /\ hi * w[First(u)] \in Nat /\ hi * W \in Nat
  BY <1>8, <1>9
<1>12. Within(u)
  BY <1>6, <1>7, <1>8, <1>9, <1>10, <1>11
<1>13. QED
  BY <1>3, <1>12

\* Values up to a bound have a sum up to the bound for each.
LEMMA SumBounded ==
  ASSUME NEW S, IsFiniteSet(S), NEW fun, NEW c \in Nat,
         \A x \in S : fun[x] \in Nat /\ fun[x] <= c
  PROVE  SumFunctionOnSet(fun, S) <= c * Cardinality(S)
<1> DEFINE Bad == {u \in SUBSET S : ~(SumFunctionOnSet(fun, u) <= c * Cardinality(u))}
<1> SUFFICES ASSUME Bad # {} PROVE FALSE
  OBVIOUS
<1>1. Bad \in SUBSET (SUBSET S)
  OBVIOUS
<1> HIDE DEF Bad
<1>2. PICK u \in Bad : \A v \in Bad : v \subseteq u => v = u
  BY <1>1, MinimalMember
<1> USE DEF Bad
<1>3. u \in SUBSET S /\ IsFiniteSet(u) /\ ~(SumFunctionOnSet(fun, u) <= c * Cardinality(u))
  BY <1>2, FS_Subset
<1>4. u # {}
  BY <1>3, SumEmpty, FS_EmptySet
<1> DEFINE rest == u \ {First(u)}
           V == SumFunctionOnSet(fun, rest)
           n == Cardinality(rest)
           x == fun[First(u)]
<1>5. /\ First(u) \in u /\ rest # u /\ IsFiniteSet(rest) /\ rest \in SUBSET S
      /\ n = Cardinality(u) - 1 /\ Cardinality(u) \in Nat
  BY <1>3, <1>4, TakeFirst, FS_CardinalityType
<1>6. SumFunctionOnSet(fun, u) = x + V
  BY <1>3, <1>4, SumFirst
<1>7. V <= c * n
  BY <1>2, <1>3, <1>5
<1>8. V \in Nat /\ x \in Nat /\ x <= c /\ n \in Nat
  BY <1>3, <1>5, SumType, FS_CardinalityType
<1>9. Cardinality(u) = n + 1
  BY <1>5, <1>8
<1> HIDE DEF V, n, x
<1>10. c * (n + 1) = c * n + c /\ c * n \in Nat
  BY <1>8
<1>11. x + V <= c * n + c
  BY <1>7, <1>8, <1>10
<1>12. QED
  BY <1>3, <1>6, <1>9, <1>10, <1>11

\* The sum is positive as soon as there is something to add.
LEMMA SumPositive ==
  ASSUME NEW S, IsFiniteSet(S), S # {}, NEW fun, \A x \in S : fun[x] \in Nat \ {0}
  PROVE  SumFunctionOnSet(fun, S) \in Nat \ {0}
<1>1. First(S) \in S /\ IsFiniteSet(S \ {First(S)})
  BY TakeFirst
<1>2. SumFunctionOnSet(fun, S \ {First(S)}) \in Nat
  BY <1>1, SumType
<1>3. SumFunctionOnSet(fun, S) = fun[First(S)] + SumFunctionOnSet(fun, S \ {First(S)})
  BY SumFirst
<1>4. fun[First(S)] \in Nat \ {0}
  BY <1>1
<1>5. QED
  BY <1>2, <1>3, <1>4

\* Sets without a common element.
LEMMA DisjointUnion ==
  ASSUME NEW A, NEW B, IsFiniteSet(A), IsFiniteSet(B), A \cap B = {}
  PROVE  Cardinality(A \cup B) = Cardinality(A) + Cardinality(B)
<1>1. Cardinality(A) \in Nat /\ Cardinality(B) \in Nat /\ Cardinality({}) = 0
  BY FS_CardinalityType, FS_EmptySet
<1>2. Cardinality(A \cup B) = Cardinality(A) + Cardinality(B) - Cardinality(A \cap B)
  BY FS_Union
<1>3. Cardinality(A \cap B) = 0
  BY <1>1
<1>4. QED
  BY <1>1, <1>2, <1>3

\* Those of S for which at is d, and is in D.
Class(S, at, d) == {s \in S : at[s] = d}
Among(S, at, D) == {s \in S : at[s] \in D}

\* Summing the sizes of classes counts the members of all of them.
LEMMA SumOfClasses ==
  ASSUME NEW D, IsFiniteSet(D), NEW S, IsFiniteSet(S), NEW at, NEW fun,
         \A d \in D : fun[d] = Cardinality(Class(S, at, d))
  PROVE  SumFunctionOnSet(fun, D) = Cardinality(Among(S, at, D))
<1> DEFINE Bad == {u \in SUBSET D : SumFunctionOnSet(fun, u) # Cardinality(Among(S, at, u))}
<1> SUFFICES ASSUME Bad # {} PROVE FALSE
  OBVIOUS
<1>1. Bad \in SUBSET (SUBSET D)
  OBVIOUS
<1> HIDE DEF Bad
<1>2. PICK u \in Bad : \A v \in Bad : v \subseteq u => v = u
  BY <1>1, MinimalMember
<1> USE DEF Bad
<1>3. /\ u \in SUBSET D /\ IsFiniteSet(u)
      /\ SumFunctionOnSet(fun, u) # Cardinality(Among(S, at, u))
  BY <1>2, FS_Subset
<1>4. u # {}
  <2>1. Among(S, at, {}) = {}
    BY DEF Among
  <2>2. QED
    BY <1>3, <2>1, SumEmpty, FS_EmptySet
<1> DEFINE rest == u \ {First(u)}
           this == Class(S, at, First(u))
<1>5. First(u) \in u /\ rest # u /\ rest \subseteq u /\ rest \in SUBSET D
  BY <1>3, <1>4, TakeFirst
<1>6. SumFunctionOnSet(fun, u) = fun[First(u)] + SumFunctionOnSet(fun, rest)
  BY <1>3, <1>4, SumFirst
<1>7. SumFunctionOnSet(fun, rest) = Cardinality(Among(S, at, rest))
  BY <1>2, <1>5
<1>8. fun[First(u)] = Cardinality(this)
  BY <1>3, <1>5
<1>9. /\ Among(S, at, u) = this \cup Among(S, at, rest) /\ this \cap Among(S, at, rest) = {}
      /\ this \in SUBSET S /\ Among(S, at, rest) \in SUBSET S
  BY <1>5 DEF Among, Class
<1> HIDE DEF rest, this, Bad
<1>10. Cardinality(Among(S, at, u)) = Cardinality(this) + Cardinality(Among(S, at, rest))
  <2>1. IsFiniteSet(this) /\ IsFiniteSet(Among(S, at, rest))
    BY <1>9, FS_Subset
  <2>2. QED
    BY <1>9, <2>1, DisjointUnion
<1>11. QED
  BY <1>3, <1>6, <1>7, <1>8, <1>10

-----------------------------------------------------------------------------
(* The least and the greatest of a finite set of naturals *)

\* A finite set of naturals has an upper bound.
LEMMA FiniteNatSetBounded ==
  ASSUME NEW S \in SUBSET Nat, IsFiniteSet(S)
  PROVE  \E b \in Nat : \A x \in S : x <= b
<1> DEFINE Unbounded == {U \in FiniteSubsetsOf(S) : ~ \E b \in Nat : \A x \in U : x <= b}
<1> SUFFICES ASSUME Unbounded # {} PROVE FALSE
  BY DEF FiniteSubsetsOf
<1>1. PICK U \in Unbounded :
        \A V \in Unbounded : <<V, U>> \notin StrictSubsetOrdering(S)
  BY FS_StrictSubsetOrderingWellFounded, WFMin
<1>2. PICK x \in U : TRUE
  <2>1. U # {}
    BY DEF FiniteSubsetsOf
  <2>2. QED
    BY <2>1
<1>3. IsFiniteSet(U \ {x}) /\ IsFiniteSet(U) /\ U \in SUBSET S
  BY FS_RemoveElement DEF FiniteSubsetsOf
<1>4. U \ {x} \notin Unbounded
  BY <1>1, <1>2 DEF StrictSubsetOrdering, FiniteSubsetsOf
<1>5. PICK b \in Nat : \A y \in U \ {x} : y <= b
  BY <1>3, <1>4 DEF FiniteSubsetsOf
<1>6. x \in Nat /\ U \subseteq Nat
  BY <1>2 DEF FiniteSubsetsOf
<1>7. \A y \in U : y <= b + x
  BY <1>5, <1>6
<1>8. b + x \in Nat
  BY <1>6
<1>9. U \in Unbounded
  BY <1>1
<1>10. QED
  BY <1>7, <1>8, <1>9

\* Max picks an element of a finite nonempty set of naturals.
LEMMA MaxOfNats ==
  ASSUME NEW S \in SUBSET Nat, IsFiniteSet(S), S # {}
  PROVE  Max(S) \in S /\ \A x \in S : Max(S) >= x
<1> DEFINE Bounds == {b \in Nat : \A x \in S : x <= b}
<1>1. Bounds # {}
  BY FiniteNatSetBounded
<1>2. PICK b \in Bounds : \A d \in Bounds : <<d, b>> \notin OpToRel(<, Nat)
  BY <1>1, NatLessThanWellFounded, WFMin
<1>3. b \in Nat /\ \A x \in S : x \in Nat /\ x <= b
  OBVIOUS
<1>4. \A d \in Bounds : ~ (d < b)
  BY <1>2 DEF OpToRel
<1>5. b \in S
  <2> SUFFICES ASSUME b \notin S PROVE FALSE
    OBVIOUS
  <2>1. PICK y \in S : TRUE
    OBVIOUS
  <2>2. \A x \in S : x <= b - 1
    <3>1. ASSUME NEW x \in S PROVE x <= b - 1
      <4>1. x # b /\ x <= b /\ x \in Nat
        BY <1>3
      <4>2. QED
        BY <1>3, <4>1
    <3>2. QED
      BY <3>1
  <2>3. b - 1 \in Nat
    BY <1>3, <2>1, <2>2
  <2>4. b - 1 \in Bounds
    BY <2>2, <2>3
  <2>5. QED
    BY <1>3, <1>4, <2>4
<1>6. \A x \in S : b >= x
  BY <1>3
<1>7. QED
  BY <1>5, <1>6 DEF Max

\* Min picks an element of a nonempty set of naturals.
LEMMA MinOfNats ==
  ASSUME NEW S \in SUBSET Nat, S # {}
  PROVE  Min(S) \in S /\ \A x \in S : Min(S) <= x
<1>1. PICK b \in S : \A d \in S : <<d, b>> \notin OpToRel(<, Nat)
  BY NatLessThanWellFounded, WFMin
<1>2. \A d \in S : d \in Nat /\ b \in Nat /\ ~ (d < b)
  BY <1>1 DEF OpToRel
<1>3. \A d \in S : b <= d
  BY <1>2
<1>4. QED
  BY <1>3 DEF Min

=============================================================================
