----------------------------- MODULE SumTheorems -----------------------------
(***************************************************************************)
(* Facts about the sum of a function over a finite set, SumFunctionOnSet of    *)
(* the community module Functions, and about the least element of a set of      *)
(* naturals.  A finite set with a bad subset has a smallest bad subset: this    *)
(* takes the place of induction on the size of a set.                          *)
(***************************************************************************)
EXTENDS Integers, Functions, FiniteSetTheorems, TLAPS

\* A set of naturals has a least element.
LEMMA LeastNat ==
  ASSUME NEW T \in SUBSET Nat, T # {}
  PROVE  \E n \in T : \A m \in T : n <= m
<1>1. PICK n \in T : \A m \in T : ~ (<<m, n>> \in OpToRel(<, Nat))
  BY NatLessThanWellFounded, WFMin, Zenon
<1>2. \A m \in T : ~ (m < n)
  BY <1>1 DEF OpToRel
<1>3. QED
  BY <1>2

\* A family of subsets of a finite set has a minimal member.
LEMMA MinimalSubset ==
  ASSUME NEW S, IsFiniteSet(S), NEW B \in SUBSET (SUBSET S), B # {}
  PROVE  \E b \in B : IsFiniteSet(b) /\ \A c \in SUBSET b : c # b => c \notin B
<1>1. IsWellFoundedOn(StrictSubsetOrdering(S), SUBSET S)
  BY FS_StrictSubsetOrderingWellFounded, FS_FiniteSubsetsOfFinite
<1>2. PICK b \in B : \A c \in B : ~ (<<c, b>> \in StrictSubsetOrdering(S))
  BY <1>1, WFMin, Zenon
<1>3. \A c \in SUBSET b : c # b => c \notin B
  BY <1>2 DEF StrictSubsetOrdering
<1>4. QED
  BY <1>3, FS_Subset

-----------------------------------------------------------------------------
(* The equation that SumFunctionOnSet obeys *)

Some(s) == CHOOSE x \in s : TRUE

\* g sums f over every subset of S.
Sums(g, f, S) ==
  g = [s \in SUBSET S |-> IF s = {} THEN 0 ELSE f[Some(s)] + g[s \ {Some(s)}]]

\* SumFunctionOnSet is the recursive function its definition chooses.
LEMMA SumIsASum ==
  \A f, S : SumFunctionOnSet(f, S) = (CHOOSE g : Sums(g, f, S))[S]
BY DEF SumFunctionOnSet, FoldFunctionOnSet, MapThenFoldSet, Sums, Some

\* A chosen element belongs to its set.
LEMMA SomeOf == \A s : s # {} => Some(s) \in s
  BY DEF Some

\* Two functions that sum f agree on the subsets both know.
LEMMA SumsAgree ==
  ASSUME NEW f, NEW S, IsFiniteSet(S), NEW T \in SUBSET S,
         NEW g, NEW h, Sums(g, f, S), Sums(h, f, T)
  PROVE  g[T] = h[T]
<1> DEFINE B == {s \in SUBSET T : g[s] # h[s]}
<1> SUFFICES ASSUME B # {} PROVE FALSE
  OBVIOUS
<1>1. IsFiniteSet(T) /\ B \in SUBSET (SUBSET T)
  BY FS_Subset
<1>2. PICK s \in B : \A c \in SUBSET s : c # s => c \notin B
  <2> HIDE DEF B
  <2>1. QED
    BY <1>1, MinimalSubset
<1>3. s # {} => s \ {Some(s)} \in SUBSET s /\ s \ {Some(s)} # s
  BY SomeOf
<1>4. s # {} => g[s \ {Some(s)}] = h[s \ {Some(s)}]
  BY <1>2, <1>3
<1>5. /\ g[s] = IF s = {} THEN 0 ELSE f[Some(s)] + g[s \ {Some(s)}]
      /\ h[s] = IF s = {} THEN 0 ELSE f[Some(s)] + h[s \ {Some(s)}]
  BY DEF Sums
<1>6. QED
  BY <1>4, <1>5

\* What the sum over a finite set is made of.
LEMMA SumDef ==
  ASSUME NEW f, NEW S, IsFiniteSet(S)
  PROVE  SumFunctionOnSet(f, S) =
           IF S = {} THEN 0 ELSE f[Some(S)] + SumFunctionOnSet(f, S \ {Some(S)})
<1> DEFINE Rhs(s) == IF s = {} THEN 0
                     ELSE f[Some(s)] + SumFunctionOnSet(f, s \ {Some(s)})
           B == {s \in SUBSET S : SumFunctionOnSet(f, s) # Rhs(s)}
<1> SUFFICES ASSUME B # {} PROVE FALSE
  BY DEF B
<1>1. B \in SUBSET (SUBSET S)
  OBVIOUS
<1>2. PICK t \in B : IsFiniteSet(t) /\ \A c \in SUBSET t : c # t => c \notin B
  <2> HIDE DEF B
  <2>1. QED
    BY <1>1, MinimalSubset
<1> DEFINE G == [u \in SUBSET t |-> IF u = t THEN Rhs(t) ELSE SumFunctionOnSet(f, u)]
<1>3. Sums(G, f, t)
  <2>1. ASSUME NEW u \in SUBSET t
        PROVE  G[u] = IF u = {} THEN 0 ELSE f[Some(u)] + G[u \ {Some(u)}]
    <3>1. u # {} => u \ {Some(u)} \in SUBSET t /\ u \ {Some(u)} # t
      BY SomeOf
    <3>2. u # {} => G[u \ {Some(u)}] = SumFunctionOnSet(f, u \ {Some(u)})
      BY <3>1
    <3>3. G[u] = Rhs(u)
      BY <1>2
    <3>4. QED
      BY <3>2, <3>3
  <2>2. G = [u \in SUBSET t |-> G[u]]
    OBVIOUS
  <2> HIDE DEF G
  <2>3. QED
    BY <2>1, <2>2, Zenon DEF Sums
<1> DEFINE h == CHOOSE g : Sums(g, f, t)
<1>4. Sums(h, f, t)
  BY <1>3, Zenon
<1>5. SumFunctionOnSet(f, t) = h[t]
  BY SumIsASum
<1>6. G[t] = Rhs(t)
  OBVIOUS
<1>7. h[t] = G[t]
  <2> HIDE DEF h, G
  <2>1. QED
    BY <1>2, <1>3, <1>4, SumsAgree
<1>8. QED
  BY <1>2, <1>5, <1>6, <1>7

\* The sum over no element.
LEMMA SumEmpty == \A f : SumFunctionOnSet(f, {}) = 0
  BY SumDef, FS_EmptySet

\* A sum of integers is an integer.
LEMMA SumInt ==
  ASSUME NEW f, NEW S, IsFiniteSet(S), \A x \in S : f[x] \in Int
  PROVE  SumFunctionOnSet(f, S) \in Int
<1> DEFINE B == {s \in SUBSET S : SumFunctionOnSet(f, s) \notin Int}
<1> SUFFICES ASSUME B # {} PROVE FALSE
  BY DEF B
<1>1. B \in SUBSET (SUBSET S)
  OBVIOUS
<1>2. PICK t \in B : IsFiniteSet(t) /\ \A c \in SUBSET t : c # t => c \notin B
  <2> HIDE DEF B
  <2>1. QED
    BY <1>1, MinimalSubset
<1>3. t # {} => t \ {Some(t)} \in SUBSET t /\ t \ {Some(t)} # t /\ Some(t) \in S
  BY SomeOf
<1>4. t # {} => SumFunctionOnSet(f, t \ {Some(t)}) \in Int
  BY <1>2, <1>3
<1>5. SumFunctionOnSet(f, t) =
        IF t = {} THEN 0 ELSE f[Some(t)] + SumFunctionOnSet(f, t \ {Some(t)})
  BY <1>2, SumDef
<1>6. SumFunctionOnSet(f, t) \in Int
  BY <1>3, <1>4, <1>5
<1>7. QED
  BY <1>6

\* Any element can be taken out of a sum: the order of adding does not matter.
LEMMA SumRemove ==
  ASSUME NEW f, NEW S, IsFiniteSet(S), \A x \in S : f[x] \in Int, NEW y \in S
  PROVE  SumFunctionOnSet(f, S) = f[y] + SumFunctionOnSet(f, S \ {y})
<1> DEFINE Free(s, x) == SumFunctionOnSet(f, s) = f[x] + SumFunctionOnSet(f, s \ {x})
           B == {s \in SUBSET S : \E x \in s : ~Free(s, x)}
<1> SUFFICES ASSUME B # {} PROVE FALSE
  BY DEF B
<1>1. B \in SUBSET (SUBSET S)
  OBVIOUS
<1>2. PICK t \in B : IsFiniteSet(t) /\ \A c \in SUBSET t : c # t => c \notin B
  <2> HIDE DEF B
  <2>1. QED
    BY <1>1, MinimalSubset
<1>3. PICK a \in t : ~Free(t, a)
  OBVIOUS
<1> DEFINE p == Some(t)
           rest == t \ {p}
           both == rest \ {a}
<1>4. p \in t /\ p \in S /\ a \in S
  BY SomeOf
<1>5. SumFunctionOnSet(f, t) = f[p] + SumFunctionOnSet(f, rest)
  BY <1>2, <1>4, SumDef
<1>6. p # a
  BY <1>3, <1>5
<1> HIDE DEF p
<1>7. Free(rest, a) /\ Free(t \ {a}, p)
  <2>1. \A c \in SUBSET t : c # t => \A x \in c : Free(c, x)
    BY <1>2
  <2>2. /\ rest \in SUBSET t /\ rest # t /\ a \in rest
        /\ t \ {a} \in SUBSET t /\ t \ {a} # t /\ p \in t \ {a}
    BY <1>4, <1>6
  <2> HIDE DEF Free
  <2>3. QED
    BY <2>1, <2>2
<1>8. (t \ {a}) \ {p} = both
  OBVIOUS
<1>9. f[p] \in Int /\ f[a] \in Int /\ SumFunctionOnSet(f, both) \in Int
  <2>1. IsFiniteSet(both) /\ \A x \in both : f[x] \in Int
    BY FS_Subset
  <2>2. QED
    BY <1>4, <2>1, SumInt
<1>10. SumFunctionOnSet(f, t) = f[a] + SumFunctionOnSet(f, t \ {a})
  <2>1. SumFunctionOnSet(f, t \ {a}) = f[p] + SumFunctionOnSet(f, both)
    BY <1>7, <1>8
  <2>2. SumFunctionOnSet(f, rest) = f[a] + SumFunctionOnSet(f, both)
    BY <1>7
  <2> HIDE DEF both
  <2>3. QED
    BY <1>5, <1>9, <2>1, <2>2
<1>11. QED
  BY <1>3, <1>10

\* Adding one element to a set adds its value to the sum.
LEMMA SumAddElement ==
  ASSUME NEW f, NEW S, IsFiniteSet(S), NEW y, y \notin S, \A x \in S \cup {y} : f[x] \in Int
  PROVE  SumFunctionOnSet(f, S \cup {y}) = SumFunctionOnSet(f, S) + f[y]
<1>1. IsFiniteSet(S \cup {y}) /\ (S \cup {y}) \ {y} = S
  BY FS_AddElement
<1>2. SumFunctionOnSet(f, S) \in Int
  BY SumInt
<1>3. SumFunctionOnSet(f, S \cup {y}) = f[y] + SumFunctionOnSet(f, S)
  BY <1>1, SumRemove
<1>4. QED
  BY <1>2, <1>3

\* Functions that agree on a set have the same sum over it.
LEMMA SumEqual ==
  ASSUME NEW f, NEW g, NEW S, IsFiniteSet(S), \A x \in S : f[x] = g[x]
  PROVE  SumFunctionOnSet(f, S) = SumFunctionOnSet(g, S)
<1> DEFINE B == {s \in SUBSET S : SumFunctionOnSet(f, s) # SumFunctionOnSet(g, s)}
<1> SUFFICES ASSUME B # {} PROVE FALSE
  BY DEF B
<1>1. B \in SUBSET (SUBSET S)
  OBVIOUS
<1>2. PICK t \in B : IsFiniteSet(t) /\ \A c \in SUBSET t : c # t => c \notin B
  <2> HIDE DEF B
  <2>1. QED
    BY <1>1, MinimalSubset
<1>3. t # {} => t \ {Some(t)} \in SUBSET t /\ t \ {Some(t)} # t /\ Some(t) \in S
  BY SomeOf
<1>4. t # {} => SumFunctionOnSet(f, t \ {Some(t)}) = SumFunctionOnSet(g, t \ {Some(t)})
  BY <1>2, <1>3
<1>5. /\ SumFunctionOnSet(f, t) =
           IF t = {} THEN 0 ELSE f[Some(t)] + SumFunctionOnSet(f, t \ {Some(t)})
      /\ SumFunctionOnSet(g, t) =
           IF t = {} THEN 0 ELSE g[Some(t)] + SumFunctionOnSet(g, t \ {Some(t)})
  BY <1>2, SumDef
<1>6. SumFunctionOnSet(f, t) = SumFunctionOnSet(g, t)
  BY <1>3, <1>4, <1>5
<1>7. QED
  BY <1>6

\* Where a part T of the terms grows by h, the sum grows by the sum of h over T.
LEMMA SumChange ==
  ASSUME NEW S, IsFiniteSet(S), NEW T \in SUBSET S, NEW f, NEW g, NEW h,
         \A x \in S : f[x] \in Int, \A x \in T : h[x] \in Int,
         \A x \in T : g[x] = f[x] + h[x], \A x \in S \ T : g[x] = f[x]
  PROVE  SumFunctionOnSet(g, S) = SumFunctionOnSet(f, S) + SumFunctionOnSet(h, T)
<1> DEFINE Grows(s) == SumFunctionOnSet(g, s)
                         = SumFunctionOnSet(f, s) + SumFunctionOnSet(h, s \cap T)
           B == {s \in SUBSET S : ~Grows(s)}
<1> SUFFICES ASSUME B # {} PROVE FALSE
  <2>1. S \cap T = T
    OBVIOUS
  <2>2. QED
    BY <2>1 DEF B
<1>1. B \in SUBSET (SUBSET S)
  OBVIOUS
<1>2. PICK t \in B : IsFiniteSet(t) /\ \A c \in SUBSET t : c # t => c \notin B
  <2> HIDE DEF B
  <2>1. QED
    BY <1>1, MinimalSubset
<1>3. t # {}
  <2>1. /\ SumFunctionOnSet(g, {}) = 0 /\ SumFunctionOnSet(f, {}) = 0
        /\ SumFunctionOnSet(h, {}) = 0
    BY SumEmpty
  <2>2. {} \cap T = {}
    OBVIOUS
  <2>3. Grows({})
    BY <2>1, <2>2
  <2>4. QED
    BY <2>3
<1>4. PICK p \in t : p \in S
  BY <1>3
<1> DEFINE rest == t \ {p}
<1>5. IsFiniteSet(rest) /\ IsFiniteSet(rest \cap T) /\ IsFiniteSet(t \cap T)
  BY <1>2, FS_Subset
<1>6. Grows(rest)
  <2>1. rest \in SUBSET t /\ rest # t
    OBVIOUS
  <2>2. QED
    BY <1>2, <2>1
<1>7. /\ SumFunctionOnSet(f, rest) \in Int
      /\ SumFunctionOnSet(h, rest \cap T) \in Int
  BY <1>5, SumInt
<1>8. SumFunctionOnSet(f, t) = f[p] + SumFunctionOnSet(f, rest)
  BY <1>2, SumRemove
<1>9. SumFunctionOnSet(g, t) = g[p] + SumFunctionOnSet(g, rest)
  <2>1. \A x \in t : g[x] \in Int
    OBVIOUS
  <2>2. QED
    BY <1>2, <2>1, SumRemove
<1>10. CASE p \in T
  <2>1. SumFunctionOnSet(h, t \cap T) = h[p] + SumFunctionOnSet(h, rest \cap T)
    <3>1. p \in t \cap T /\ (t \cap T) \ {p} = rest \cap T
      BY <1>10
    <3>2. \A x \in t \cap T : h[x] \in Int
      OBVIOUS
    <3>3. QED
      BY <1>5, <3>1, <3>2, SumRemove
  <2>2. g[p] = f[p] + h[p] /\ f[p] \in Int /\ h[p] \in Int
    BY <1>4, <1>10
  <2>3. SumFunctionOnSet(g, rest)
          = SumFunctionOnSet(f, rest) + SumFunctionOnSet(h, rest \cap T)
    BY <1>6
  <2> HIDE DEF rest, B
  <2>4. Grows(t)
    BY <1>7, <1>8, <1>9, <2>1, <2>2, <2>3
  <2>5. QED
    BY <2>4 DEF B
<1>11. CASE p \notin T
  <2>1. SumFunctionOnSet(h, t \cap T) = SumFunctionOnSet(h, rest \cap T)
    <3>1. t \cap T = rest \cap T
      BY <1>11
    <3>2. QED
      BY <3>1, Zenon
  <2>2. g[p] = f[p] /\ f[p] \in Int
    BY <1>4, <1>11
  <2>3. SumFunctionOnSet(g, rest)
          = SumFunctionOnSet(f, rest) + SumFunctionOnSet(h, rest \cap T)
    BY <1>6
  <2> HIDE DEF rest, B
  <2>4. Grows(t)
    BY <1>7, <1>8, <1>9, <2>1, <2>2, <2>3
  <2>5. QED
    BY <2>4 DEF B
<1>12. QED
  BY <1>10, <1>11

\* Replacing one term replaces its share of the sum.
LEMMA SumReplace ==
  ASSUME NEW S, IsFiniteSet(S), NEW f \in [S -> Int], NEW g \in [S -> Int],
         NEW y \in S, \A x \in S \ {y} : g[x] = f[x]
  PROVE  SumFunction(g) = SumFunction(f) - f[y] + g[y]
<1> DEFINE rest == S \ {y}
<1>1. \A x \in rest : f[x] = g[x]
  OBVIOUS
<1>2. IsFiniteSet(rest) /\ \A x \in rest : f[x] \in Int
  BY FS_Subset
<1>3. SumFunctionOnSet(f, rest) \in Int
  BY <1>2, SumInt
<1>4. SumFunctionOnSet(f, rest) = SumFunctionOnSet(g, rest)
  BY <1>1, <1>2, SumEqual
<1>5. SumFunctionOnSet(f, S) = f[y] + SumFunctionOnSet(f, rest)
  BY SumRemove
<1>6. SumFunctionOnSet(g, S) = g[y] + SumFunctionOnSet(g, rest)
  BY SumRemove
<1>7. SumFunction(f) = SumFunctionOnSet(f, S) /\ SumFunction(g) = SumFunctionOnSet(g, S)
  BY DEF SumFunction
<1> HIDE DEF rest
<1>8. QED
  BY <1>1, <1>3, <1>4, <1>5, <1>6, <1>7

\* One term more adds its share to the sum.
LEMMA SumExtend ==
  ASSUME NEW S, IsFiniteSet(S), NEW y, y \notin S, NEW f \in [S -> Int],
         NEW g \in [S \cup {y} -> Int], \A x \in S : g[x] = f[x]
  PROVE  SumFunction(g) = SumFunction(f) + g[y] /\ SumFunction(f) \in Int
<1>1. /\ SumFunction(f) = SumFunctionOnSet(f, S)
      /\ SumFunction(g) = SumFunctionOnSet(g, S \cup {y})
  BY DEF SumFunction
<1>2. SumFunctionOnSet(f, S) = SumFunctionOnSet(g, S)
  BY SumEqual
<1>3. SumFunctionOnSet(g, S \cup {y}) = SumFunctionOnSet(g, S) + g[y]
  BY SumAddElement
<1>4. SumFunctionOnSet(f, S) \in Int
  BY SumInt
<1>5. QED
  BY <1>1, <1>2, <1>3, <1>4

\* The sum of no terms.
LEMMA SumOfNone ==
  ASSUME NEW f, DOMAIN f = {}
  PROVE  SumFunction(f) = 0
BY SumEmpty DEF SumFunction

\* The sum of one term.
LEMMA SumOfOne ==
  ASSUME NEW y, NEW f \in [{y} -> Int]
  PROVE  SumFunction(f) = f[y]
<1>1. IsFiniteSet({y}) /\ \A x \in {y} : f[x] \in Int
  BY FS_Singleton
<1>2. SumFunctionOnSet(f, {y}) = f[y] + SumFunctionOnSet(f, {y} \ {y})
  BY <1>1, SumRemove
<1>3. SumFunctionOnSet(f, {y} \ {y}) = 0
  <2>1. {y} \ {y} = {}
    OBVIOUS
  <2>2. QED
    BY <2>1, SumEmpty
<1>4. QED
  BY <1>1, <1>2, <1>3 DEF SumFunction

\* A sum of zeros is zero.
LEMMA SumOfZeros ==
  ASSUME NEW S, IsFiniteSet(S)
  PROVE  SumFunctionOnSet([x \in S |-> 0], S) = 0
<1> DEFINE z == [x \in S |-> 0]
<1>1. SumFunctionOnSet(z, S) = SumFunctionOnSet(z, S) + SumFunctionOnSet(z, S)
  <2>1. \A x \in S : z[x] \in Int /\ z[x] = z[x] + z[x]
    OBVIOUS
  <2>2. S \in SUBSET S /\ S \ S = {}
    OBVIOUS
  <2> HIDE DEF z
  <2>3. \A x \in S \ S : z[x] = z[x]
    OBVIOUS
  <2>4. QED
    BY <2>1, <2>2, <2>3, SumChange
<1>2. SumFunctionOnSet(z, S) \in Int
  BY SumInt
<1> DEFINE t == SumFunctionOnSet(z, S)
<1>3. t = t + t /\ t \in Int
  BY <1>1, <1>2
<1> HIDE DEF t
<1>4. t = 0
  BY <1>3
<1>5. QED
  BY <1>4 DEF t

=============================================================================
