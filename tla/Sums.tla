-------------------------------- MODULE Sums --------------------------------
(***************************************************************************)
(* Lemmas about SumFunctionOnSet of the community module Functions: a sum  *)
(* of natural numbers over a finite set counts units, so that adding an    *)
(* element to the set adds its number.                                     *)
(***************************************************************************)
EXTENDS FiniteSetTheorems, TLAPS

\* As many elements as the numbers f[x] of the x in S add up to.
Units(f, S) == UNION {{x} \X (1 .. f[x]) : x \in S}

LEMMA UnitsOfOne ==
  ASSUME NEW x, NEW n \in Nat
  PROVE  IsFiniteSet({x} \X (1 .. n)) /\ Cardinality({x} \X (1 .. n)) = n
<1>1. IsFiniteSet({x}) /\ Cardinality({x}) = 1
  BY FS_Singleton
<1>2. IsFiniteSet(1 .. n) /\ Cardinality(1 .. n) = n
  BY FS_Interval
<1>3. /\ IsFiniteSet({x} \X (1 .. n))
      /\ Cardinality({x} \X (1 .. n)) = Cardinality({x}) * Cardinality(1 .. n)
  BY <1>1, <1>2, FS_Product, Zenon
<1>4. 1 * n = n
  OBVIOUS
<1>5. QED
  BY <1>1, <1>2, <1>3, <1>4

LEMMA UnitsFinite ==
  ASSUME NEW S, IsFiniteSet(S), NEW f, \A x \in S : f[x] \in Nat
  PROVE  IsFiniteSet(Units(f, S)) /\ Cardinality(Units(f, S)) \in Nat
<1> DEFINE parts == {{x} \X (1 .. f[x]) : x \in S}
           part == [x \in S |-> {x} \X (1 .. f[x])]
<1>1. part \in Surjection(S, parts)
  BY DEF Surjection
<1>2. IsFiniteSet(parts)
  BY <1>1, FS_Surjection
<1>3. ASSUME NEW T \in parts PROVE IsFiniteSet(T)
  <2>1. PICK x \in S : T = {x} \X (1 .. f[x])
    OBVIOUS
  <2>2. QED
    BY <2>1, UnitsOfOne
<1>4. IsFiniteSet(UNION parts)
  BY <1>2, <1>3, FS_UNION
<1>5. QED
  BY <1>4, FS_CardinalityType DEF Units

LEMMA UnitsAdd ==
  ASSUME NEW S, IsFiniteSet(S), NEW f, \A y \in S : f[y] \in Nat,
         NEW x, x \notin S, f[x] \in Nat
  PROVE  Cardinality(Units(f, S \cup {x})) = f[x] + Cardinality(Units(f, S))
<1> DEFINE U == Units(f, S)
           V == {x} \X (1 .. f[x])
<1>1. IsFiniteSet(U) /\ Cardinality(U) \in Nat /\ IsFiniteSet(V) /\ Cardinality(V) = f[x]
  BY UnitsFinite, UnitsOfOne
<1>2. Units(f, S \cup {x}) = U \cup V
  BY DEF Units
<1>3. U \cap V = {}
  BY DEF Units
<1>4. Cardinality(U \cap V) = 0
  BY <1>3, FS_EmptySet
<1> HIDE DEF U, V
<1>5. Cardinality(U \cup V) = Cardinality(U) + Cardinality(V) - Cardinality(U \cap V)
  BY <1>1, FS_Union
<1>6. \A m, n \in Nat : m + n - 0 = n + m
  OBVIOUS
<1>7. Cardinality(U \cup V) = f[x] + Cardinality(U)
  BY <1>1, <1>4, <1>5, <1>6
<1>8. QED
  BY <1>2, <1>7 DEF U

-----------------------------------------------------------------------------
(* The recursion behind SumFunctionOnSet has one solution, which counts units. *)

Picked(s) == CHOOSE x \in s : TRUE

Solves(f, S, sum) ==
  sum = [s \in SUBSET S |-> IF s = {} THEN 0 ELSE f[Picked(s)] + sum[s \ {Picked(s)}]]

LEMMA SumUnfolds ==
  ASSUME NEW f, NEW S
  PROVE  SumFunctionOnSet(f, S) = (CHOOSE sum : Solves(f, S, sum))[S]
BY DEF SumFunctionOnSet, FoldFunctionOnSet, MapThenFoldSet, Solves, Picked

LEMMA UnitsSolve ==
  ASSUME NEW S, IsFiniteSet(S), NEW f, \A x \in S : f[x] \in Nat
  PROVE  Solves(f, S, [s \in SUBSET S |-> Cardinality(Units(f, s))])
<1> DEFINE sum == [s \in SUBSET S |-> Cardinality(Units(f, s))]
<1>1. ASSUME NEW s \in SUBSET S, s # {}
      PROVE  sum[s] = f[Picked(s)] + sum[s \ {Picked(s)}]
  <2>1. Picked(s) \in s
    BY <1>1 DEF Picked
  <2> DEFINE x == Picked(s)
             rest == s \ {x}
  <2>2. x \in S /\ x \notin rest /\ rest \cup {x} = s /\ rest \in SUBSET S
    BY <2>1
  <2>3. IsFiniteSet(rest) /\ f[x] \in Nat /\ \A y \in rest : f[y] \in Nat
    BY <2>2, FS_Subset
  <2> HIDE DEF x, rest
  <2>4. Cardinality(Units(f, rest \cup {x})) = f[x] + Cardinality(Units(f, rest))
    BY <2>2, <2>3, UnitsAdd
  <2>5. QED
    BY <2>2, <2>4 DEF x, rest
<1>2. sum[{}] = 0
  BY FS_EmptySet DEF Units
<1>3. QED
  BY <1>1, <1>2 DEF Solves

LEMMA SumsUnique ==
  ASSUME NEW S, IsFiniteSet(S), NEW f, NEW one, Solves(f, S, one), NEW two, Solves(f, S, two)
  PROVE  one[S] = two[S]
<1> DEFINE bad == {s \in SUBSET S : one[s] # two[s]}
<1>1. SUFFICES ASSUME bad # {} PROVE FALSE
  OBVIOUS
<1>2. IsWellFoundedOn(StrictSubsetOrdering(S), SUBSET S)
  BY FS_StrictSubsetOrderingWellFounded, FS_FiniteSubsetsOfFinite
<1>3. PICK s \in bad : \A r \in bad : <<r, s>> \notin StrictSubsetOrdering(S)
  BY <1>1, <1>2, WFMin
<1>4. s # {}
  BY DEF Solves
<1>5. Picked(s) \in s
  BY <1>4 DEF Picked
<1>6. s \ {Picked(s)} \in SUBSET S /\ <<s \ {Picked(s)}, s>> \in StrictSubsetOrdering(S)
  BY <1>5 DEF StrictSubsetOrdering
<1>7. one[s \ {Picked(s)}] = two[s \ {Picked(s)}]
  BY <1>3, <1>6
<1>8. QED
  BY <1>4, <1>7 DEF Solves

LEMMA SumIsUnits ==
  ASSUME NEW S, IsFiniteSet(S), NEW f, \A x \in S : f[x] \in Nat
  PROVE  SumFunctionOnSet(f, S) = Cardinality(Units(f, S))
<1> DEFINE units == [s \in SUBSET S |-> Cardinality(Units(f, s))]
           sum == CHOOSE sum : Solves(f, S, sum)
<1>1. Solves(f, S, units)
  BY UnitsSolve
<1>2. Solves(f, S, sum)
  BY <1>1
<1> HIDE DEF sum
<1>3. sum[S] = units[S]
  BY <1>1, <1>2, SumsUnique
<1>4. QED
  BY <1>3, SumUnfolds DEF sum

-----------------------------------------------------------------------------
(* What other modules use. *)

LEMMA SumEmpty ==
  ASSUME NEW f
  PROVE  SumFunctionOnSet(f, {}) = 0
<1>1. IsFiniteSet({}) /\ Units(f, {}) = {} /\ Cardinality({}) = 0
  BY FS_EmptySet DEF Units
<1>2. QED
  BY <1>1, SumIsUnits

LEMMA SumType ==
  ASSUME NEW S, IsFiniteSet(S), NEW f, \A x \in S : f[x] \in Nat
  PROVE  SumFunctionOnSet(f, S) \in Nat
BY UnitsFinite, SumIsUnits

LEMMA SumAdd ==
  ASSUME NEW S, IsFiniteSet(S), NEW f, \A y \in S : f[y] \in Nat,
         NEW x, x \notin S, f[x] \in Nat
  PROVE  SumFunctionOnSet(f, S \cup {x}) = f[x] + SumFunctionOnSet(f, S)
<1>1. IsFiniteSet(S \cup {x}) /\ \A y \in S \cup {x} : f[y] \in Nat
  BY FS_AddElement
<1>2. QED
  BY <1>1, UnitsAdd, SumIsUnits

\* A sum depends on the numbers of the set's elements only.
LEMMA SumSame ==
  ASSUME NEW S, IsFiniteSet(S), NEW f, NEW g, \A x \in S : f[x] \in Nat /\ g[x] = f[x]
  PROVE  SumFunctionOnSet(g, S) = SumFunctionOnSet(f, S)
<1>1. Units(g, S) = Units(f, S)
  BY DEF Units
<1>2. QED
  BY <1>1, SumIsUnits

\* The sum grows by the number of an element that is added.
LEMMA SumGrows ==
  ASSUME NEW S, IsFiniteSet(S), NEW x, x \notin S, NEW f, NEW g,
         \A y \in S : f[y] \in Nat /\ g[y] = f[y], g[x] \in Nat
  PROVE  SumFunctionOnSet(g, S \cup {x}) = g[x] + SumFunctionOnSet(f, S)
<1>1. SumFunctionOnSet(g, S) = SumFunctionOnSet(f, S)
  BY SumSame
<1>2. \A y \in S : g[y] \in Nat
  OBVIOUS
<1>3. QED
  BY <1>1, <1>2, SumAdd

\* g is f, a function of numbers with a finite domain, and possibly a number at x.
Completes(g, T, f, x) ==
  /\ DOMAIN g = T /\ DOMAIN f = T \ {x} /\ IsFiniteSet(T \ {x})
  /\ \A y \in T \ {x} : f[y] \in Nat /\ g[y] = f[y]
  /\ x \in T => g[x] \in Nat

\* What the numbers of a function add up to, with or without one of them.
LEMMA SumSplits ==
  ASSUME NEW T, NEW x, NEW f, NEW g, Completes(g, T, f, x)
  PROVE  /\ SumFunction(f) \in Nat
         /\ SumFunction(g) = (IF x \in T THEN g[x] ELSE 0) + SumFunction(f)
<1> USE DEF Completes
<1>1. SumFunction(f) = SumFunctionOnSet(f, T \ {x}) /\ SumFunction(g) = SumFunctionOnSet(g, T)
  BY DEF SumFunction
<1>2. SumFunctionOnSet(f, T \ {x}) \in Nat
  BY SumType
<1>3. CASE x \in T
  <2>1. (T \ {x}) \cup {x} = T /\ x \notin T \ {x}
    BY <1>3
  <2>2. SumFunctionOnSet(g, (T \ {x}) \cup {x}) = g[x] + SumFunctionOnSet(f, T \ {x})
    BY <1>3, <2>1, SumGrows
  <2>3. SumFunction(g) = g[x] + SumFunction(f)
    BY <1>1, <2>1, <2>2, Zenon
  <2>4. QED
    BY <1>1, <1>2, <1>3, <2>3
<1>4. CASE x \notin T
  <2>1. T \ {x} = T
    BY <1>4
  <2>2. SumFunctionOnSet(g, T) = SumFunctionOnSet(f, T)
    BY <2>1, SumSame
  <2>3. SumFunction(g) = SumFunction(f) /\ SumFunction(f) \in Nat
    BY <1>1, <1>2, <2>1, <2>2, Zenon
  <2>4. \A n \in Nat : 0 + n = n
    OBVIOUS
  <2>5. SumFunction(g) = 0 + SumFunction(f)
    BY <2>3, <2>4, Zenon
  <2>6. (IF x \in T THEN g[x] ELSE 0) = 0
    BY <1>4
  <2>7. QED
    BY <2>3, <2>5, <2>6, Zenon
<1>5. QED
  BY <1>3, <1>4

\* Two functions that agree on all but x: their sums differ by their numbers at x.
AgreeBut(x, f, T, g, U) ==
  /\ DOMAIN f = T /\ DOMAIN g = U /\ U \ {x} = T \ {x} /\ IsFiniteSet(T \ {x})
  /\ \A y \in T : f[y] \in Nat
  /\ \A y \in U : g[y] \in Nat
  /\ \A y \in T \ {x} : g[y] = f[y]

LEMMA SumsApart ==
  ASSUME NEW T, NEW U, NEW x, NEW f, NEW g, AgreeBut(x, f, T, g, U)
  PROVE  \E n \in Nat : /\ SumFunction(f) = (IF x \in T THEN f[x] ELSE 0) + n
                        /\ SumFunction(g) = (IF x \in U THEN g[x] ELSE 0) + n
<1> USE DEF AgreeBut
<1> DEFINE h == [y \in T \ {x} |-> f[y]]
<1>1. /\ DOMAIN h = T \ {x}
      /\ \A y \in T \ {x} : h[y] \in Nat /\ f[y] = h[y] /\ g[y] = h[y]
      /\ \A y \in U \ {x} : h[y] \in Nat /\ g[y] = h[y]
  OBVIOUS
<1> HIDE DEF h
<1>2. Completes(f, T, h, x) /\ Completes(g, U, h, x)
  BY <1>1 DEF Completes
<1>3. SumFunction(h) \in Nat /\ SumFunction(f) = (IF x \in T THEN f[x] ELSE 0) + SumFunction(h)
  BY <1>2, SumSplits
<1>4. SumFunction(g) = (IF x \in U THEN g[x] ELSE 0) + SumFunction(h)
  BY <1>2, SumSplits
<1>5. QED
  BY <1>3, <1>4, Zenon

=============================================================================
