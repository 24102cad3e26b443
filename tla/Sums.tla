-------------------------------- MODULE Sums --------------------------------
(***************************************************************************)
(* Lemmas about sums: what SumFunction and SumFunctionOnSet of Functions   *)
(* return.  They are defined by recursion over a set whose elements are    *)
(* taken out in an order that CHOOSE fixes; what follows says that the     *)
(* recursion has a solution on every finite set, and only one, and hence   *)
(* that a sum does not depend on that order.                               *)
(*                                                                         *)
(* Induction is over a set of subsets and not over a predicate: the good   *)
(* ones are all of them, or else there is a smallest bad one.              *)
(***************************************************************************)
EXTENDS Integers, FiniteSets, Functions, FiniteSetTheorems, WellFoundedInduction, TLAPS

\* The element that is taken out first.
Any(s) == CHOOSE x \in s : TRUE

\* Equation that defines a sum on the subsets of S.
Solves(g, f, S) == g = [s \in SUBSET S |-> IF s = {} THEN 0 ELSE f[Any(s)] + g[s \ {Any(s)}]]
TheSums(f, S) == CHOOSE g : Solves(g, f, S)

\* The library's definition, unfolded once.
LEMMA SumIsThat == \A f, S : SumFunctionOnSet(f, S) = TheSums(f, S)[S]
BY DEF SumFunctionOnSet, FoldFunctionOnSet, MapThenFoldSet, TheSums, Solves, Any

\* Among some subsets of a finite set there is one with none of them inside.
LEMMA Minimal ==
    ASSUME NEW S, IsFiniteSet(S), NEW Bad \in SUBSET SUBSET S, Bad # {}
    PROVE  \E T \in Bad : \A U \in SUBSET T : U # T => U \notin Bad
<1>1. SUBSET S = FiniteSubsetsOf(S)
  BY FS_FiniteSubsetsOfFinite
<1>2. IsWellFoundedOn(StrictSubsetOrdering(S), SUBSET S)
  BY <1>1, FS_StrictSubsetOrderingWellFounded
<1>3. \E T \in Bad : \A U \in Bad : ~(<<U, T>> \in StrictSubsetOrdering(S))
  BY <1>2, WFMin
<1> QED BY <1>3 DEF StrictSubsetOrdering

\* What a set inherits from its proper subsets, every finite set has.
LEMMA Induction ==
    ASSUME NEW S, IsFiniteSet(S), NEW Good,
           \A T \in SUBSET S : (\A U \in SUBSET T : U # T => U \in Good) => T \in Good
    PROVE  \A T \in SUBSET S : T \in Good
<1> DEFINE Bad == {T \in SUBSET S : T \notin Good}
<1> SUFFICES ASSUME Bad # {} PROVE FALSE
  OBVIOUS
<1>1. Bad \in SUBSET SUBSET S
  OBVIOUS
<1> HIDE DEF Bad
<1>2. PICK T \in Bad : \A U \in SUBSET T : U # T => U \notin Bad
  BY <1>1, Minimal
<1> QED BY <1>2 DEF Bad
-----------------------------------------------------------------------------
\* Two solutions of the equation agree where both are defined.
LEMMA SumsAgree ==
    ASSUME NEW f, NEW S, NEW T, IsFiniteSet(S), IsFiniteSet(T),
           NEW g, NEW h, Solves(g, f, S), Solves(h, f, T)
    PROVE  \A U \in SUBSET S : U \in SUBSET T => g[U] = h[U]
<1> DEFINE Good == {U \in SUBSET S : U \in SUBSET T => g[U] = h[U]}
<1>1. ASSUME NEW U \in SUBSET S, \A V \in SUBSET U : V # U => V \in Good
      PROVE  U \in Good
  <2> SUFFICES ASSUME U \in SUBSET T PROVE g[U] = h[U]
    OBVIOUS
  <2>1. CASE U = {}
    BY <2>1 DEF Solves
  <2>2. CASE U # {}
    <3>1. Any(U) \in U
      BY <2>2 DEF Any
    <3>2. U \ {Any(U)} \in SUBSET U /\ U \ {Any(U)} # U
      BY <3>1
    <3>3. g[U \ {Any(U)}] = h[U \ {Any(U)}]
      BY <1>1, <3>2
    <3>4. g[U] = f[Any(U)] + g[U \ {Any(U)}]
      BY <2>2 DEF Solves
    <3>5. h[U] = f[Any(U)] + h[U \ {Any(U)}]
      BY <2>2 DEF Solves
    <3> QED BY <3>3, <3>4, <3>5
  <2> QED BY <2>1, <2>2
<1>2. \A U \in SUBSET S : U \in Good
  <2> HIDE DEF Good
  <2> QED BY <1>1, Induction
<1> QED BY <1>2

\* Every finite set has a solution.
LEMMA SumsExist ==
    ASSUME NEW f, NEW S, IsFiniteSet(S)
    PROVE  \A T \in SUBSET S : Solves(TheSums(f, T), f, T)
<1> DEFINE Good == {T \in SUBSET S : Solves(TheSums(f, T), f, T)}
<1>1. ASSUME NEW T \in SUBSET S, \A U \in SUBSET T : U # T => U \in Good
      PROVE  T \in Good
  <2> DEFINE Less(U) == U \ {Any(U)}
             R(U) == TheSums(f, U)
             G == [U \in SUBSET T |-> IF U = {} THEN 0 ELSE f[Any(U)] + R(Less(U))[Less(U)]]
  <2>1. ASSUME NEW U \in SUBSET T, U # {}
        PROVE  Less(U) \in SUBSET T /\ Less(U) # T /\ Less(U) \subseteq U
    BY <2>1 DEF Any
  <2>2. ASSUME NEW U \in SUBSET T, U # T PROVE Solves(R(U), f, U) /\ IsFiniteSet(U)
    BY <1>1, <2>2, FS_Subset
  <2>3. ASSUME NEW U \in SUBSET T, U # T PROVE R(U)[U] = G[U]
    <3>1. CASE U = {}
      BY <2>2, <2>3, <3>1 DEF Solves
    <3>2. CASE U # {}
      <4>1. R(U)[U] = f[Any(U)] + R(U)[Less(U)]
        BY <2>2, <2>3, <3>2 DEF Solves
      <4>2. R(U)[Less(U)] = R(Less(U))[Less(U)]
        <5>1. Solves(R(U), f, U) /\ IsFiniteSet(U)
          BY <2>2, <2>3
        <5>2. Solves(R(Less(U)), f, Less(U)) /\ IsFiniteSet(Less(U)) /\ Less(U) \in SUBSET U
          BY <2>1, <2>2, <2>3, <3>2
        <5> HIDE DEF Less, R
        <5> QED BY <5>1, <5>2, SumsAgree
      <4> QED BY <3>2, <4>1, <4>2
    <3> QED BY <3>1, <3>2
  <2>4. Solves(G, f, T)
    <3>1. \A U \in SUBSET T : U # {} => R(Less(U))[Less(U)] = G[Less(U)]
      BY <2>1, <2>3
    <3> HIDE DEF R
    <3> QED BY <3>1 DEF Solves
  <2>5. Solves(TheSums(f, T), f, T)
    <3> HIDE DEF G
    <3> QED BY <2>4 DEF TheSums
  <2> QED BY <2>5
<1>2. \A T \in SUBSET S : T \in Good
  <2> HIDE DEF Good
  <2> QED BY <1>1, Induction
<1> QED BY <1>2

\* The sum over the empty set, and the recursion.
LEMMA SumRecursion ==
    ASSUME NEW f, NEW S, IsFiniteSet(S)
    PROVE  SumFunctionOnSet(f, S) = IF S = {} THEN 0
                                    ELSE f[Any(S)] + SumFunctionOnSet(f, S \ {Any(S)})
<1>1. Solves(TheSums(f, S), f, S)
  BY SumsExist
<1>2. CASE S = {}
  BY <1>1, <1>2, SumIsThat DEF Solves
<1>3. CASE S # {}
  <2> DEFINE T == S \ {Any(S)}
  <2>1. T \in SUBSET S /\ IsFiniteSet(T)
    BY FS_Subset
  <2>2. Solves(TheSums(f, T), f, T)
    BY <2>1, SumsExist
  <2>3. TheSums(f, S)[T] = TheSums(f, T)[T]
    <3> HIDE DEF T
    <3> QED BY <1>1, <2>1, <2>2, SumsAgree
  <2>4. TheSums(f, S)[S] = f[Any(S)] + TheSums(f, S)[T]
    BY <1>1, <1>3 DEF Solves
  <2> QED BY <1>3, <2>3, <2>4, SumIsThat
<1> QED BY <1>2, <1>3

\* Nothing sums up to nothing.
LEMMA SumEmpty == \A f : SumFunctionOnSet(f, {}) = 0
BY SumRecursion, FS_EmptySet

\* Integers sum up to an integer.
LEMMA SumType ==
    ASSUME NEW f, NEW S, IsFiniteSet(S), \A x \in S : f[x] \in Int
    PROVE  SumFunctionOnSet(f, S) \in Int
<1> DEFINE Good == {T \in SUBSET S : SumFunctionOnSet(f, T) \in Int}
<1>1. ASSUME NEW T \in SUBSET S, \A U \in SUBSET T : U # T => U \in Good
      PROVE  T \in Good
  <2>1. IsFiniteSet(T)
    BY FS_Subset
  <2>2. CASE T = {}
    BY <2>2, SumEmpty
  <2>3. CASE T # {}
    <3>1. Any(T) \in T
      BY <2>3 DEF Any
    <3>2. SumFunctionOnSet(f, T \ {Any(T)}) \in Int
      BY <1>1, <3>1
    <3>3. SumFunctionOnSet(f, T) = f[Any(T)] + SumFunctionOnSet(f, T \ {Any(T)})
      BY <2>1, <2>3, SumRecursion
    <3> QED BY <3>1, <3>2, <3>3
  <2> QED BY <2>2, <2>3
<1>2. \A T \in SUBSET S : T \in Good
  <2> HIDE DEF Good
  <2> QED BY <1>1, Induction
<1> QED BY <1>2

\* A sum of natural numbers is one.
LEMMA SumNotNegative ==
    ASSUME NEW f, NEW S, IsFiniteSet(S), \A x \in S : f[x] \in Nat
    PROVE  SumFunctionOnSet(f, S) \in Nat
<1> DEFINE Good == {T \in SUBSET S : SumFunctionOnSet(f, T) \in Nat}
<1>1. ASSUME NEW T \in SUBSET S, \A U \in SUBSET T : U # T => U \in Good
      PROVE  T \in Good
  <2>1. IsFiniteSet(T)
    BY FS_Subset
  <2>2. CASE T = {}
    BY <2>2, SumEmpty
  <2>3. CASE T # {}
    <3>1. Any(T) \in T
      BY <2>3 DEF Any
    <3>2. SumFunctionOnSet(f, T \ {Any(T)}) \in Nat
      BY <1>1, <3>1
    <3>3. SumFunctionOnSet(f, T) = f[Any(T)] + SumFunctionOnSet(f, T \ {Any(T)})
      BY <2>1, <2>3, SumRecursion
    <3> QED BY <3>1, <3>2, <3>3
  <2> QED BY <2>2, <2>3
<1>2. \A T \in SUBSET S : T \in Good
  <2> HIDE DEF Good
  <2> QED BY <1>1, Induction
<1> QED BY <1>2

\* Any element may be taken out first.
LEMMA SumRemove ==
    ASSUME NEW f, NEW S, IsFiniteSet(S), \A x \in S : f[x] \in Int
    PROVE  \A x \in S : SumFunctionOnSet(f, S) = f[x] + SumFunctionOnSet(f, S \ {x})
<1> DEFINE Sum(T) == SumFunctionOnSet(f, T)
           Good == {T \in SUBSET S : \A x \in T : Sum(T) = f[x] + Sum(T \ {x})}
<1>1. ASSUME NEW T \in SUBSET S, \A U \in SUBSET T : U # T => U \in Good
      PROVE  T \in Good
  <2> SUFFICES ASSUME NEW x \in T PROVE Sum(T) = f[x] + Sum(T \ {x})
    OBVIOUS
  <2>1. PICK y \in T : Sum(T) = f[y] + Sum(T \ {y})
    <3>1. IsFiniteSet(T) /\ Any(T) \in T
      BY FS_Subset DEF Any
    <3> QED BY <3>1, SumRecursion
  <2> HIDE DEF Sum
  <2>2. CASE x = y
    BY <2>1, <2>2
  <2>3. CASE x # y
    <3> DEFINE rest == Sum((T \ {x}) \ {y})
    <3>1. Sum(T \ {y}) = f[x] + rest
      <4>1. Sum(T \ {y}) = f[x] + Sum((T \ {y}) \ {x})
        BY <1>1, <2>3
      <4>2. (T \ {y}) \ {x} = (T \ {x}) \ {y}
        OBVIOUS
      <4> QED BY <4>1, <4>2
    <3>2. Sum(T \ {x}) = f[y] + rest
      BY <1>1, <2>3
    <3>3. rest \in Int
      <4>1. (T \ {x}) \ {y} \in SUBSET S /\ IsFiniteSet((T \ {x}) \ {y})
        BY FS_Subset
      <4> QED BY <4>1, SumType DEF Sum
    <3>4. f[x] \in Int /\ f[y] \in Int
      OBVIOUS
    <3> HIDE DEF rest
    <3> QED BY <2>1, <3>1, <3>2, <3>3, <3>4
  <2> QED BY <2>2, <2>3
<1>2. \A T \in SUBSET S : T \in Good
  <2> HIDE DEF Good
  <2> QED BY <1>1, Induction
<1> QED BY <1>2

\* Only the values on the set matter.
LEMMA SumSame ==
    ASSUME NEW f, NEW g, NEW S, IsFiniteSet(S), \A x \in S : f[x] = g[x]
    PROVE  SumFunctionOnSet(f, S) = SumFunctionOnSet(g, S)
<1> DEFINE Good == {T \in SUBSET S : SumFunctionOnSet(f, T) = SumFunctionOnSet(g, T)}
<1>1. ASSUME NEW T \in SUBSET S, \A U \in SUBSET T : U # T => U \in Good
      PROVE  T \in Good
  <2>1. IsFiniteSet(T)
    BY FS_Subset
  <2>2. CASE T = {}
    BY <2>2, SumEmpty
  <2>3. CASE T # {}
    <3>1. Any(T) \in T
      BY <2>3 DEF Any
    <3>2. SumFunctionOnSet(f, T \ {Any(T)}) = SumFunctionOnSet(g, T \ {Any(T)})
      BY <1>1, <3>1
    <3>3. /\ SumFunctionOnSet(f, T) = f[Any(T)] + SumFunctionOnSet(f, T \ {Any(T)})
          /\ SumFunctionOnSet(g, T) = g[Any(T)] + SumFunctionOnSet(g, T \ {Any(T)})
      BY <2>1, <2>3, SumRecursion
    <3> QED BY <3>1, <3>2, <3>3
  <2> QED BY <2>2, <2>3
<1>2. \A T \in SUBSET S : T \in Good
  <2> HIDE DEF Good
  <2> QED BY <1>1, Induction
<1> QED BY <1>2

\* One more summand, with the others as they were.
LEMMA SumAdd ==
    ASSUME NEW S, IsFiniteSet(S), NEW x, x \notin S,
           NEW f, \A y \in S : f[y] \in Int,
           NEW g, \A y \in S : g[y] = f[y], g[x] \in Int
    PROVE  SumFunctionOnSet(g, S \union {x}) = SumFunctionOnSet(f, S) + g[x]
<1>1. IsFiniteSet(S \union {x}) /\ (S \union {x}) \ {x} = S
  BY FS_AddElement
<1>2. SumFunctionOnSet(g, S \union {x}) = g[x] + SumFunctionOnSet(g, S)
  BY <1>1, SumRemove
<1>3. SumFunctionOnSet(g, S) = SumFunctionOnSet(f, S) /\ SumFunctionOnSet(f, S) \in Int
  BY SumSame, SumType
<1> QED BY <1>2, <1>3

\* One summand changes.
LEMMA SumChange ==
    ASSUME NEW S, IsFiniteSet(S), NEW x \in S,
           NEW f, \A y \in S : f[y] \in Int,
           NEW g, \A y \in S \ {x} : g[y] = f[y], g[x] \in Int
    PROVE  SumFunctionOnSet(g, S) = SumFunctionOnSet(f, S) - f[x] + g[x]
<1> DEFINE T == S \ {x}
<1>1. IsFiniteSet(T) /\ x \notin T /\ T \union {x} = S
  BY FS_Subset
<1> HIDE DEF T
<1>2. \A y \in T : g[y] = f[y] /\ f[y] \in Int
  BY DEF T
<1>3. SumFunctionOnSet(g, S) = SumFunctionOnSet(f, T) + g[x]
  BY <1>1, <1>2, SumAdd
<1>4. SumFunctionOnSet(f, S) = f[x] + SumFunctionOnSet(f, T)
  BY SumRemove DEF T
<1>5. SumFunctionOnSet(f, T) \in Int
  BY <1>1, <1>2, SumType
<1>6. f[x] \in Int
  OBVIOUS
<1> QED BY <1>3, <1>4, <1>5, <1>6
-----------------------------------------------------------------------------
\* The same of the sum over the whole domain of a function.
LEMMA TotalType ==
    ASSUME NEW f, IsFiniteSet(DOMAIN f), \A x \in DOMAIN f : f[x] \in Nat
    PROVE  SumFunction(f) \in Nat
BY SumNotNegative DEF SumFunction

\* A function with one more argument.
LEMMA TotalAdd ==
    ASSUME NEW f, IsFiniteSet(DOMAIN f), NEW x, x \notin DOMAIN f,
           \A y \in DOMAIN f : f[y] \in Int,
           NEW g, DOMAIN g = DOMAIN f \union {x},
           \A y \in DOMAIN f : g[y] = f[y], g[x] \in Int
    PROVE  SumFunction(g) = SumFunction(f) + g[x]
<1>1. SumFunctionOnSet(g, DOMAIN f \union {x}) = SumFunctionOnSet(f, DOMAIN f) + g[x]
  BY SumAdd
<1> QED BY <1>1 DEF SumFunction
=============================================================================
