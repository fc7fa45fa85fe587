-------------------------------- MODULE Sums --------------------------------
(***************************************************************************)
(* Sums of a function over a finite set, as SumFunctionOnSet computes them *)
(* for the ledger and for the quota counters: the recursion behind it has  *)
(* a solution, and the sum does not depend on the order it adds up in.     *)
(***************************************************************************)
EXTENDS Integers, FiniteSets, Functions, FiniteSetTheorems, WellFoundedInduction, TLAPS

\* The element the fold of SumFunctionOnSet takes first.
First(s) == CHOOSE x \in s : TRUE
Rest(s)  == s \ {First(s)}

\* g holds the sum of f over every subset of S.
Adds(g, f, S) ==
  g = [s \in SUBSET S |-> IF s = {} THEN 0 ELSE f[First(s)] + g[Rest(s)]]

LEMMA FirstOfRest ==
  ASSUME NEW s, s # {}
  PROVE  First(s) \in s /\ Rest(s) \subseteq s /\ Rest(s) # s
BY DEF First, Rest

LEMMA SumIsAdder ==
  ASSUME NEW f, NEW S
  PROVE  SumFunctionOnSet(f, S) = (CHOOSE g : Adds(g, f, S))[S]
BY Zenon DEF SumFunctionOnSet, FoldFunctionOnSet, MapThenFoldSet, Adds, First, Rest

\* Induction on finite sets: a set of subsets with no smallest member is empty.
LEMMA SmallestSubset ==
  ASSUME NEW S, IsFiniteSet(S), NEW Bad, Bad \subseteq SUBSET S, Bad # {}
  PROVE  \E s \in Bad : \A u \in SUBSET s : u # s => u \notin Bad
<1>1. FiniteSubsetsOf(S) = SUBSET S
  BY FS_FiniteSubsetsOfFinite
<1>2. IsWellFoundedOn(StrictSubsetOrdering(S), SUBSET S)
  BY <1>1, FS_StrictSubsetOrderingWellFounded
<1>3. PICK s \in Bad : \A u \in Bad : ~(<<u, s>> \in StrictSubsetOrdering(S))
  BY <1>2, WFMin
<1>4. \A u \in Bad : u \subseteq s => u = s
  BY <1>3 DEF StrictSubsetOrdering
<1> QED BY <1>4

\* Two solutions agree where both are defined.
LEMMA AddersAgree ==
  ASSUME NEW S, IsFiniteSet(S), NEW T, IsFiniteSet(T), NEW f, NEW g, NEW h,
         Adds(g, f, S), Adds(h, f, T), NEW s, s \subseteq S, s \subseteq T
  PROVE  g[s] = h[s]
<1> DEFINE Bad == {u \in SUBSET s : g[u] # h[u]}
<1> SUFFICES ASSUME Bad # {} PROVE FALSE  OBVIOUS
<1>1. IsFiniteSet(s)  BY FS_Subset
<1>2. PICK u \in Bad : \A v \in SUBSET u : v # u => v \notin Bad
  <2> HIDE DEF Bad
  <2>1. Bad \subseteq SUBSET s  BY DEF Bad
  <2> QED BY <1>1, <2>1, SmallestSubset
<1>3. /\ g[u] = IF u = {} THEN 0 ELSE f[First(u)] + g[Rest(u)]
      /\ h[u] = IF u = {} THEN 0 ELSE f[First(u)] + h[Rest(u)]
  BY DEF Adds
<1>4. u # {}  BY <1>3
<1>5. g[Rest(u)] = h[Rest(u)]  BY <1>2, <1>4, FirstOfRest
<1> QED BY <1>3, <1>4, <1>5

\* There is one for every finite set.
LEMMA AdderExists ==
  ASSUME NEW S, IsFiniteSet(S), NEW f
  PROVE  \E g : Adds(g, f, S)
<1> DEFINE Bad == {s \in SUBSET S : ~\E g : Adds(g, f, s)}
<1> SUFFICES ASSUME Bad # {} PROVE FALSE  OBVIOUS
<1>1. PICK s \in Bad : \A u \in SUBSET s : u # s => u \notin Bad
  <2> HIDE DEF Bad
  <2>1. Bad \subseteq SUBSET S  BY DEF Bad
  <2> QED BY <2>1, SmallestSubset
<1> DEFINE G(u) == CHOOSE g : Adds(g, f, u)
           h == [u \in SUBSET s |-> IF u = {} THEN 0 ELSE f[First(u)] + G(Rest(u))[Rest(u)]]
<1>2. \A u \in SUBSET s : u # s => Adds(G(u), f, u)
  BY <1>1
<1>3. \A u \in SUBSET s : IsFiniteSet(u)
  BY FS_Subset
<1> HIDE DEF G
<1>4. ASSUME NEW v \in SUBSET s, v # s PROVE h[v] = G(v)[v]
  <2>1. CASE v = {}
    <3>1. Adds(G(v), f, v)  BY <1>2, <1>4
    <3> QED BY <2>1, <3>1 DEF Adds
  <2>2. CASE v # {}
    <3>1. Rest(v) \in SUBSET s /\ Rest(v) # s /\ Rest(v) \subseteq v
      BY <1>4, <2>2, FirstOfRest
    <3>2. Adds(G(v), f, v) /\ Adds(G(Rest(v)), f, Rest(v))
      BY <1>2, <1>4, <3>1
    <3>3. G(v)[Rest(v)] = G(Rest(v))[Rest(v)]
      <4>1. PICK g, k : g = G(v) /\ k = G(Rest(v))  OBVIOUS
      <4>2. /\ Adds(g, f, v) /\ Adds(k, f, Rest(v))
            /\ IsFiniteSet(v) /\ IsFiniteSet(Rest(v)) /\ Rest(v) \subseteq v
        BY <1>3, <3>1, <3>2, <4>1
      <4>3. g[Rest(v)] = k[Rest(v)]
        BY <4>2, AddersAgree
      <4> QED BY <4>1, <4>3
    <3>4. G(v)[v] = f[First(v)] + G(v)[Rest(v)]
      BY <2>2, <3>2 DEF Adds
    <3> QED BY <2>2, <3>3, <3>4
  <2> QED BY <2>1, <2>2
<1>5. \A u \in SUBSET s : h[u] = IF u = {} THEN 0 ELSE f[First(u)] + h[Rest(u)]
  <2> SUFFICES ASSUME NEW u \in SUBSET s, u # {} PROVE h[u] = f[First(u)] + h[Rest(u)]
    OBVIOUS
  <2>1. Rest(u) \in SUBSET s /\ Rest(u) # s
    BY FirstOfRest
  <2>2. h[Rest(u)] = G(Rest(u))[Rest(u)]
    BY <1>4, <2>1
  <2> HIDE DEF Bad
  <2> QED BY <2>2
<1>6. Adds(h, f, s)
  <2>1. h = [u \in SUBSET s |-> h[u]]  OBVIOUS
  <2> HIDE DEF h, Bad
  <2>2. [u \in SUBSET s |-> h[u]] = [u \in SUBSET s |-> IF u = {} THEN 0 ELSE f[First(u)] + h[Rest(u)]]
    BY <1>5
  <2> QED BY <2>1, <2>2 DEF Adds
<1> QED BY <1>6

\* The recursion of the sum, with the element the fold takes first.
LEMMA SumUnfold ==
  ASSUME NEW S, IsFiniteSet(S), NEW f, S # {}
  PROVE  SumFunctionOnSet(f, S) = f[First(S)] + SumFunctionOnSet(f, Rest(S))
<1> DEFINE g == CHOOSE g : Adds(g, f, S)
           h == CHOOSE h : Adds(h, f, Rest(S))
<1>1. Rest(S) \subseteq S /\ IsFiniteSet(Rest(S))
  BY FirstOfRest, FS_Subset
<1>2. Adds(g, f, S) /\ Adds(h, f, Rest(S))
  BY <1>1, AdderExists
<1>3. SumFunctionOnSet(f, S) = g[S] /\ SumFunctionOnSet(f, Rest(S)) = h[Rest(S)]
  BY SumIsAdder
<1> HIDE DEF g, h
<1>4. g[Rest(S)] = h[Rest(S)]
  BY <1>1, <1>2, AddersAgree
<1>5. g[S] = f[First(S)] + g[Rest(S)]
  BY <1>2 DEF Adds
<1> QED BY <1>3, <1>4, <1>5

\* Nothing adds up to nothing.
THEOREM SumEmpty == \A f : SumFunctionOnSet(f, {}) = 0
<1> SUFFICES ASSUME NEW f PROVE SumFunctionOnSet(f, {}) = 0  OBVIOUS
<1> DEFINE g == CHOOSE g : Adds(g, f, {})
<1>1. Adds(g, f, {})  BY FS_EmptySet, AdderExists
<1>2. SumFunctionOnSet(f, {}) = g[{}]  BY SumIsAdder
<1> HIDE DEF g
<1>3. g[{}] = 0  BY <1>1 DEF Adds
<1> QED BY <1>2, <1>3

\* The sum of integers is an integer.
THEOREM SumInt ==
  ASSUME NEW S, IsFiniteSet(S), NEW f, \A x \in S : f[x] \in Int
  PROVE  SumFunctionOnSet(f, S) \in Int
<1> DEFINE Bad == {s \in SUBSET S : SumFunctionOnSet(f, s) \notin Int}
<1> SUFFICES ASSUME Bad # {} PROVE FALSE  OBVIOUS
<1>1. PICK s \in Bad : \A u \in SUBSET s : u # s => u \notin Bad
  <2> HIDE DEF Bad
  <2>1. Bad \subseteq SUBSET S  BY DEF Bad
  <2> QED BY <2>1, SmallestSubset
<1>2. s # {}  BY SumEmpty
<1>3. IsFiniteSet(s)  BY FS_Subset
<1>4. First(s) \in s /\ Rest(s) \subseteq s /\ Rest(s) # s  BY <1>2, FirstOfRest
<1>5. SumFunctionOnSet(f, Rest(s)) \in Int  BY <1>1, <1>4
<1>6. SumFunctionOnSet(f, s) = f[First(s)] + SumFunctionOnSet(f, Rest(s))
  BY <1>2, <1>3, SumUnfold
<1>7. f[First(s)] \in Int  BY <1>4
<1> QED BY <1>5, <1>6, <1>7

\* Any element may be taken out first.
THEOREM SumTakeOut ==
  ASSUME NEW S, IsFiniteSet(S), NEW f, \A y \in S : f[y] \in Int, NEW x \in S
  PROVE  SumFunctionOnSet(f, S) = f[x] + SumFunctionOnSet(f, S \ {x})
<1> DEFINE Bad == {s \in SUBSET S :
                     \E y \in s : SumFunctionOnSet(f, s) # f[y] + SumFunctionOnSet(f, s \ {y})}
<1> SUFFICES ASSUME Bad # {} PROVE FALSE  OBVIOUS
<1>1. PICK s \in Bad : \A u \in SUBSET s : u # s => u \notin Bad
  <2> HIDE DEF Bad
  <2>1. Bad \subseteq SUBSET S  BY DEF Bad
  <2> QED BY <2>1, SmallestSubset
<1>2. PICK y \in s : SumFunctionOnSet(f, s) # f[y] + SumFunctionOnSet(f, s \ {y})
  BY <1>1
<1> DEFINE p == First(s)
<1>3. /\ p \in s /\ Rest(s) = s \ {p} /\ IsFiniteSet(s) /\ IsFiniteSet((s \ {p}) \ {y})
      /\ IsFiniteSet(s \ {y}) /\ IsFiniteSet(s \ {p})
  BY FS_Subset, FirstOfRest DEF Rest
<1>4. SumFunctionOnSet(f, s) = f[p] + SumFunctionOnSet(f, s \ {p})
  BY <1>3, SumUnfold
<1> HIDE DEF p
<1>5. p # y  BY <1>2, <1>4
<1>6. SumFunctionOnSet(f, s \ {p}) = f[y] + SumFunctionOnSet(f, (s \ {p}) \ {y})
  <2>1. s \ {p} \in SUBSET s /\ s \ {p} # s /\ y \in s \ {p}  BY <1>3, <1>5
  <2> QED BY <1>1, <2>1
<1>7. SumFunctionOnSet(f, s \ {y}) = f[p] + SumFunctionOnSet(f, (s \ {y}) \ {p})
  <2>1. s \ {y} \in SUBSET s /\ s \ {y} # s /\ p \in s \ {y}  BY <1>3, <1>5
  <2> QED BY <1>1, <2>1
<1>8. (s \ {y}) \ {p} = (s \ {p}) \ {y}  OBVIOUS
<1>9. SumFunctionOnSet(f, (s \ {p}) \ {y}) \in Int /\ f[p] \in Int /\ f[y] \in Int
  <2>1. \A z \in (s \ {p}) \ {y} : f[z] \in Int  OBVIOUS
  <2> QED BY <1>3, <2>1, SumInt
<1>10. PICK t \in Int : t = SumFunctionOnSet(f, (s \ {p}) \ {y})  BY <1>9
<1>11. SumFunctionOnSet(f, s \ {y}) = f[p] + t  BY <1>7, <1>8, <1>10
<1>12. SumFunctionOnSet(f, s) = f[p] + (f[y] + t)  BY <1>4, <1>6, <1>10
<1> HIDE DEF Bad
<1> QED BY <1>2, <1>9, <1>11, <1>12

\* A new element adds its value.
THEOREM SumAdd ==
  ASSUME NEW S, IsFiniteSet(S), NEW f, NEW x, x \notin S, \A y \in S \union {x} : f[y] \in Int
  PROVE  SumFunctionOnSet(f, S \union {x}) = f[x] + SumFunctionOnSet(f, S)
<1>1. IsFiniteSet(S \union {x})  BY FS_AddElement
<1>2. (S \union {x}) \ {x} = S  OBVIOUS
<1> QED BY <1>1, <1>2, SumTakeOut

\* Only the values on the set count.
THEOREM SumSame ==
  ASSUME NEW S, IsFiniteSet(S), NEW f, NEW g, \A x \in S : f[x] = g[x]
  PROVE  SumFunctionOnSet(f, S) = SumFunctionOnSet(g, S)
<1> DEFINE Bad == {s \in SUBSET S : SumFunctionOnSet(f, s) # SumFunctionOnSet(g, s)}
<1> SUFFICES ASSUME Bad # {} PROVE FALSE  OBVIOUS
<1>1. PICK s \in Bad : \A u \in SUBSET s : u # s => u \notin Bad
  <2> HIDE DEF Bad
  <2>1. Bad \subseteq SUBSET S  BY DEF Bad
  <2> QED BY <2>1, SmallestSubset
<1>2. s # {}  BY SumEmpty
<1>3. IsFiniteSet(s)  BY FS_Subset
<1>4. First(s) \in s /\ Rest(s) \subseteq s /\ Rest(s) # s  BY <1>2, FirstOfRest
<1>5. SumFunctionOnSet(f, Rest(s)) = SumFunctionOnSet(g, Rest(s))  BY <1>1, <1>4
<1>6. /\ SumFunctionOnSet(f, s) = f[First(s)] + SumFunctionOnSet(f, Rest(s))
      /\ SumFunctionOnSet(g, s) = g[First(s)] + SumFunctionOnSet(g, Rest(s))
  BY <1>2, <1>3, SumUnfold
<1>7. f[First(s)] = g[First(s)]  BY <1>4
<1> QED BY <1>5, <1>6, <1>7

\* Zeros add up to zero.
THEOREM SumZero ==
  ASSUME NEW S, IsFiniteSet(S), NEW f, \A x \in S : f[x] = 0
  PROVE  SumFunctionOnSet(f, S) = 0
<1> DEFINE Bad == {s \in SUBSET S : SumFunctionOnSet(f, s) # 0}
<1> SUFFICES ASSUME Bad # {} PROVE FALSE  OBVIOUS
<1>1. PICK s \in Bad : \A u \in SUBSET s : u # s => u \notin Bad
  <2> HIDE DEF Bad
  <2>1. Bad \subseteq SUBSET S  BY DEF Bad
  <2> QED BY <2>1, SmallestSubset
<1>2. s # {}  BY SumEmpty
<1>3. IsFiniteSet(s)  BY FS_Subset
<1>4. First(s) \in s /\ Rest(s) \subseteq s /\ Rest(s) # s  BY <1>2, FirstOfRest
<1>5. SumFunctionOnSet(f, Rest(s)) = 0  BY <1>1, <1>4
<1>6. SumFunctionOnSet(f, s) = f[First(s)] + SumFunctionOnSet(f, Rest(s))
  BY <1>2, <1>3, SumUnfold
<1>7. f[First(s)] = 0  BY <1>4
<1> QED BY <1>5, <1>6, <1>7

\* Nothing positive adds up to nothing positive.
THEOREM SumNotPositive ==
  ASSUME NEW S, IsFiniteSet(S), NEW f, \A x \in S : f[x] \in Int /\ f[x] <= 0
  PROVE  SumFunctionOnSet(f, S) <= 0
<1> DEFINE Bad == {s \in SUBSET S : ~(SumFunctionOnSet(f, s) <= 0)}
<1> SUFFICES ASSUME Bad # {} PROVE FALSE  OBVIOUS
<1>1. PICK s \in Bad : \A u \in SUBSET s : u # s => u \notin Bad
  <2> HIDE DEF Bad
  <2>1. Bad \subseteq SUBSET S  BY DEF Bad
  <2> QED BY <2>1, SmallestSubset
<1>2. s # {}  BY SumEmpty
<1>3. IsFiniteSet(s)  BY FS_Subset
<1>4. First(s) \in s /\ Rest(s) \subseteq s /\ Rest(s) # s  BY <1>2, FirstOfRest
<1>5. SumFunctionOnSet(f, Rest(s)) <= 0  BY <1>1, <1>4
<1>6. SumFunctionOnSet(f, s) = f[First(s)] + SumFunctionOnSet(f, Rest(s))
  BY <1>2, <1>3, SumUnfold
<1>7. f[First(s)] \in Int /\ f[First(s)] <= 0  BY <1>4
<1>8. SumFunctionOnSet(f, Rest(s)) \in Int
  <2>1. IsFiniteSet(Rest(s)) /\ \A x \in Rest(s) : f[x] \in Int  BY <1>3, <1>4, FS_Subset
  <2> QED BY <2>1, SumInt
<1> QED BY <1>5, <1>6, <1>7, <1>8

\* One value that changes changes the sum by as much.
THEOREM SumChange ==
  ASSUME NEW S, IsFiniteSet(S), NEW f, NEW g, \A y \in S : f[y] \in Int /\ g[y] \in Int,
         NEW x \in S, \A y \in S \ {x} : g[y] = f[y]
  PROVE  SumFunctionOnSet(g, S) = SumFunctionOnSet(f, S) + (g[x] - f[x])
<1>1. IsFiniteSet(S \ {x})  BY FS_Subset
<1>2. SumFunctionOnSet(g, S \ {x}) = SumFunctionOnSet(f, S \ {x})
  BY <1>1, SumSame
<1>3. /\ SumFunctionOnSet(f, S) = f[x] + SumFunctionOnSet(f, S \ {x})
      /\ SumFunctionOnSet(g, S) = g[x] + SumFunctionOnSet(g, S \ {x})
  BY SumTakeOut
<1>4. SumFunctionOnSet(f, S \ {x}) \in Int
  BY <1>1, SumInt
<1> QED BY <1>2, <1>3, <1>4
=============================================================================
