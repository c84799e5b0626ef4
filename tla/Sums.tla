-------------------------------- MODULE Sums --------------------------------
(* Facts about the sums of finitely many natural numbers that the limits of   *)
(* the components are stated with (SumFunctionOnSet, SumFunction).  The       *)
(* library states induction for an operator, which no prover here can         *)
(* instantiate; here it is stated for a set of sets.                          *)
EXTENDS Integers, FiniteSets, Functions, FiniteSetTheorems, TLAPS

-----------------------------------------------------------------------------
(* Induction *)

(* A set of natural numbers has a least one. *)
LEMMA LeastNat ==
  ASSUME NEW B \in SUBSET Nat, B # {}
  PROVE  \E m \in B : \A n \in B : m <= n
  <1>1. IsWellFoundedOn(OpToRel(<,Nat), Nat)
    BY NatLessThanWellFounded
  <1>2. \E m \in B : \A n \in B : ~ (<<n, m>> \in OpToRel(<,Nat))
    BY <1>1, WFMin
  <1>3. \A m, n \in Nat : <<n, m>> \in OpToRel(<, Nat) <=> n < m
    BY DEF OpToRel
  <1>4. PICK m \in B : \A n \in B : ~ (<<n, m>> \in OpToRel(<,Nat))
    BY <1>2
  <1>5. \A n \in B : m <= n
    <2> TAKE n \in B
    <2>1. ~ (n < m)
      BY <1>3, <1>4
    <2> QED
      BY <2>1
  <1> QED
    BY <1>5

(* What holds of no element, and of a set if it holds of the set less any one
   element, holds of all parts of a finite set. *)
LEMMA SetInduction ==
  ASSUME NEW S, IsFiniteSet(S), NEW Good,
         {} \in Good,
         \A T \in SUBSET S : T # {} /\ (\A x \in T : T \ {x} \in Good) => T \in Good
  PROVE  \A T \in SUBSET S : T \in Good
  <1> SUFFICES ASSUME NEW R \in SUBSET S, R \notin Good PROVE FALSE
    OBVIOUS
  <1> DEFINE Bad == {T \in SUBSET S : T \notin Good}
             B == {Cardinality(T) : T \in Bad}
  <1>1. \A T \in SUBSET S : IsFiniteSet(T) /\ Cardinality(T) \in Nat
    BY FS_Subset, FS_CardinalityType
  <1>2. B \in SUBSET Nat /\ B # {}
    BY <1>1
  <1> HIDE DEF B
  <1>3. PICK m \in B : \A n \in B : m <= n
    BY <1>2, LeastNat
  <1>4. PICK T \in Bad : m = Cardinality(T)
    BY <1>3 DEF B
  <1>5. \A x \in T : Cardinality(T \ {x}) < Cardinality(T)
    <2> TAKE x \in T
    <2>1. Cardinality(T \ {x}) = Cardinality(T) - 1
      BY <1>1, FS_RemoveElement
    <2> QED
      BY <1>1, <2>1
  <1>6. \A x \in T : T \ {x} \notin Bad
    <2> SUFFICES ASSUME NEW x \in T, T \ {x} \in Bad PROVE FALSE
      OBVIOUS
    <2>1. Cardinality(T \ {x}) \in B
      BY DEF B
    <2> QED
      BY <2>1, <1>1, <1>3, <1>4, <1>5
  <1>7. \A x \in T : T \ {x} \in Good
    BY <1>6
  <1> QED
    BY <1>7

-----------------------------------------------------------------------------
(* What the sum unfolds to: a function of the parts of S *)

Pick(T) == CHOOSE x \in T : TRUE
Unfolds(f, S, g) ==
  g = [T \in SUBSET S |-> IF T = {} THEN 0 ELSE f[Pick(T)] + g[T \ {Pick(T)}]]

LEMMA Picked == \A T : T # {} => Pick(T) \in T
  BY DEF Pick

(* There is one such function at most ... *)
LEMMA UnfoldsOnce ==
  ASSUME NEW f, NEW S, IsFiniteSet(S), NEW g, NEW h, Unfolds(f, S, g), Unfolds(f, S, h)
  PROVE  g = h
  <1> DEFINE Good == {T \in SUBSET S : g[T] = h[T]}
  <1>1. \A T \in SUBSET S : T \in Good
    <2>1. {} \in Good
      BY DEF Unfolds
    <2>2. \A T \in SUBSET S : T # {} /\ (\A x \in T : T \ {x} \in Good) => T \in Good
      BY Picked DEF Unfolds
    <2> HIDE DEF Good
    <2> QED
      BY <2>1, <2>2, SetInduction
  <1> QED
    BY <1>1 DEF Unfolds

(* ... which does for a part what it does for the whole ... *)
LEMMA UnfoldsInside ==
  ASSUME NEW f, NEW S, NEW g, Unfolds(f, S, g), NEW T \in SUBSET S
  PROVE  Unfolds(f, T, [U \in SUBSET T |-> g[U]])
  <1> DEFINE h == [U \in SUBSET T |-> g[U]]
  <1>1. \A U \in SUBSET T : g[U] = IF U = {} THEN 0 ELSE f[Pick(U)] + g[U \ {Pick(U)}]
    BY DEF Unfolds
  <1>2. \A U \in SUBSET T : h[U] = g[U] /\ h[U \ {Pick(U)}] = g[U \ {Pick(U)}]
    OBVIOUS
  <1>3. h = [U \in SUBSET T |-> IF U = {} THEN 0 ELSE f[Pick(U)] + h[U \ {Pick(U)}]]
    BY <1>1, <1>2
  <1> QED
    BY <1>3 DEF Unfolds

(* ... and there is one: on the parts of T that are not T from any of the
   functions for T without an element, and on T from those. *)
LEMMA UnfoldsSome ==
  ASSUME NEW f, NEW S, IsFiniteSet(S)
  PROVE  \E g : Unfolds(f, S, g)
  <1> DEFINE Good == {T \in SUBSET S : \E g : Unfolds(f, T, g)}
  <1>1. {} \in Good
    <2>1. Unfolds(f, {}, [T \in SUBSET {} |-> 0])
      BY DEF Unfolds
    <2> QED
      BY <2>1
  <1>2. ASSUME NEW T \in SUBSET S, T # {}, \A x \in T : T \ {x} \in Good
        PROVE  T \in Good
    <2> DEFINE G(x) == CHOOSE g : Unfolds(f, T \ {x}, g)
    <2>1. \A x \in T : Unfolds(f, T \ {x}, G(x))
      BY <1>2
    <2>2. \A U \in SUBSET T : U # T => \E x \in T : U \in SUBSET (T \ {x})
      OBVIOUS
    <2> DEFINE P(U) == CHOOSE x \in T : U \in SUBSET (T \ {x})
    <2>3. \A U \in SUBSET T : U # T => P(U) \in T /\ U \in SUBSET (T \ {P(U)})
      BY <2>2
    <2> HIDE DEF G, P
    <2>4. \A x, y \in T : \A U \in SUBSET T : 
            U \in SUBSET (T \ {x}) /\ U \in SUBSET (T \ {y}) => G(x)[U] = G(y)[U]
      <3> TAKE x, y \in T
      <3> DEFINE V  == T \ {x, y}
                 gx == [U \in SUBSET V |-> G(x)[U]]
                 gy == [U \in SUBSET V |-> G(y)[U]]
      <3>0. V \in SUBSET (T \ {x}) /\ V \in SUBSET (T \ {y})
        OBVIOUS
      <3> HIDE DEF V
      <3>1. Unfolds(f, V, gx)
        BY <2>1, <3>0, UnfoldsInside
      <3>2. Unfolds(f, V, gy)
        BY <2>1, <3>0, UnfoldsInside
      <3>3. IsFiniteSet(V)
        BY FS_Subset DEF V
      <3> HIDE DEF gx, gy
      <3>4. gx = gy
        BY <3>1, <3>2, <3>3, UnfoldsOnce
      <3> QED
        BY <3>4 DEF gx, gy, V
    <2> DEFINE g0 == [U \in SUBSET T |-> G(P(U))[U]]
               g  == [U \in SUBSET T |-> IF U = {} THEN 0 ELSE f[Pick(U)] + g0[U \ {Pick(U)}]]
    <2>5. \A U \in SUBSET T : U # T => g0[U] = g[U]
      <3> SUFFICES ASSUME NEW U \in SUBSET T, U # T PROVE g0[U] = g[U]
        OBVIOUS
      <3>1. g0[U] = G(P(U))[U] /\ P(U) \in T /\ U \in SUBSET (T \ {P(U)})
        BY <2>3
      <3>2. g0[U] = IF U = {} THEN 0 ELSE f[Pick(U)] + G(P(U))[U \ {Pick(U)}]
        BY <2>1, <3>1 DEF Unfolds
      <3>3. CASE U = {}
        BY <3>2, <3>3
      <3>4. CASE U # {}
        <4> DEFINE W == U \ {Pick(U)}
        <4>1. W \in SUBSET T /\ W # T /\ W \in SUBSET (T \ {P(U)})
          BY <3>1, <3>4, Picked
        <4>2. g0[W] = G(P(W))[W] /\ P(W) \in T /\ W \in SUBSET (T \ {P(W)})
          BY <2>3, <4>1
        <4>3. G(P(U))[W] = g0[W]
          BY <2>4, <3>1, <4>1, <4>2
        <4> QED
          BY <3>2, <3>4, <4>3
      <3> QED
        BY <3>3, <3>4
    <2>6. Unfolds(f, T, g)
      <3>1. \A U \in SUBSET T : U # {} => U \ {Pick(U)} \in SUBSET T /\ U \ {Pick(U)} # T
        BY Picked
      <3> HIDE DEF g0
      <3> QED
        BY <2>5, <3>1 DEF Unfolds
    <2> QED
      BY <2>6
  <1> HIDE DEF Good
  <1>3. \A T \in SUBSET S : T \in Good
    BY <1>1, <1>2, SetInduction
  <1> QED
    BY <1>3 DEF Good

(* The sum is that function, at S. *)
LEMMA SumUnfolds ==
  ASSUME NEW f, NEW S
  PROVE  SumFunctionOnSet(f, S) = (CHOOSE g : Unfolds(f, S, g))[S]
  BY DEF SumFunctionOnSet, FoldFunctionOnSet, MapThenFoldSet, Unfolds, Pick

-----------------------------------------------------------------------------
(* Sums *)

LEMMA SumOfNone ==
  ASSUME NEW f
  PROVE  SumFunctionOnSet(f, {}) = 0
  <1>1. Unfolds(f, {}, CHOOSE g : Unfolds(f, {}, g))
    BY UnfoldsSome, FS_EmptySet
  <1> QED
    BY <1>1, SumUnfolds DEF Unfolds

(* The sum takes the elements one by one, as CHOOSE picks them ... *)
LEMMA SumOfPicked ==
  ASSUME NEW f, NEW S, IsFiniteSet(S), S # {}
  PROVE  SumFunctionOnSet(f, S) = f[Pick(S)] + SumFunctionOnSet(f, S \ {Pick(S)})
  <1> DEFINE T == S \ {Pick(S)}
             g == CHOOSE g : Unfolds(f, S, g)
             h == CHOOSE h : Unfolds(f, T, h)
             k == [U \in SUBSET T |-> g[U]]
  <1>1. IsFiniteSet(T) /\ T \in SUBSET S
    BY FS_Subset
  <1>2. Unfolds(f, S, g) /\ Unfolds(f, T, h)
    BY <1>1, UnfoldsSome
  <1>3. Unfolds(f, T, k)
    BY <1>1, <1>2, UnfoldsInside
  <1>4. SumFunctionOnSet(f, S) = g[S] /\ SumFunctionOnSet(f, T) = h[T]
    BY SumUnfolds
  <1> HIDE DEF g, h, k
  <1>5. k = h
    BY <1>1, <1>2, <1>3, UnfoldsOnce
  <1>6. g[S] = f[Pick(S)] + g[T]
    BY <1>2 DEF Unfolds
  <1>7. k[T] = g[T]
    BY DEF k
  <1> QED
    BY <1>4, <1>5, <1>6, <1>7

(* Natural numbers add up to one. *)
LEMMA SumType ==
  ASSUME NEW S, IsFiniteSet(S), NEW f, \A x \in S : f[x] \in Nat
  PROVE  SumFunctionOnSet(f, S) \in Nat
  <1> DEFINE Good == {T \in SUBSET S : SumFunctionOnSet(f, T) \in Nat}
  <1>1. {} \in Good
    BY SumOfNone
  <1>2. ASSUME NEW T \in SUBSET S, T # {}, \A x \in T : T \ {x} \in Good
        PROVE  T \in Good
    <2>1. IsFiniteSet(T) /\ Pick(T) \in T
      BY <1>2, FS_Subset, Picked
    <2>2. SumFunctionOnSet(f, T) = f[Pick(T)] + SumFunctionOnSet(f, T \ {Pick(T)})
      BY <1>2, <2>1, SumOfPicked
    <2> QED
      BY <1>2, <2>1, <2>2
  <1> HIDE DEF Good
  <1>3. \A T \in SUBSET S : T \in Good
    BY <1>1, <1>2, SetInduction
  <1> QED
    BY <1>3 DEF Good

(* ... and any of them may be the first. *)
LEMMA SumWithout ==
  ASSUME NEW S, IsFiniteSet(S), NEW f, \A x \in S : f[x] \in Nat, NEW x \in S
  PROVE  SumFunctionOnSet(f, S) = f[x] + SumFunctionOnSet(f, S \ {x})
  <1> DEFINE Sum(T) == SumFunctionOnSet(f, T)
             Good == {T \in SUBSET S : \A y \in T : Sum(T) = f[y] + Sum(T \ {y})}
  <1>1. {} \in Good
    OBVIOUS
  <1>2. ASSUME NEW T \in SUBSET S, T # {}, \A y \in T : T \ {y} \in Good
        PROVE  T \in Good
    <2> DEFINE p == Pick(T)
    <2>1. IsFiniteSet(T) /\ p \in T
      BY <1>2, FS_Subset, Picked
    <2>2. Sum(T) = f[p] + Sum(T \ {p})
      BY <1>2, <2>1, SumOfPicked
    <2> HIDE DEF p
    <2>3. ASSUME NEW y \in T PROVE Sum(T) = f[y] + Sum(T \ {y})
      <3>1. CASE y = p
        BY <2>2, <3>1
      <3>2. CASE y # p
        <4>1. Sum(T \ {p}) = f[y] + Sum((T \ {p}) \ {y})
          BY <1>2, <2>1, <3>2
        <4>2. Sum(T \ {y}) = f[p] + Sum((T \ {y}) \ {p})
          BY <1>2, <2>1, <3>2
        <4>3. (T \ {p}) \ {y} = (T \ {y}) \ {p}
          OBVIOUS
        <4>4. IsFiniteSet((T \ {p}) \ {y})
          BY <2>1, FS_Subset
        <4>5. Sum((T \ {p}) \ {y}) \in Nat
          BY <4>4, SumType
        <4> HIDE DEF Sum
        <4> QED
          BY <2>1, <2>2, <4>1, <4>2, <4>3, <4>5
      <3> QED
        BY <3>1, <3>2
    <2> QED
      BY <2>3
  <1> HIDE DEF Good
  <1>3. \A T \in SUBSET S : T \in Good
    BY <1>1, <1>2, SetInduction
  <1> QED
    BY <1>3 DEF Good

(* One element more. *)
LEMMA SumWith ==
  ASSUME NEW S, IsFiniteSet(S), NEW f, \A y \in S : f[y] \in Nat,
         NEW x, x \notin S, f[x] \in Nat
  PROVE  SumFunctionOnSet(f, S \union {x}) = f[x] + SumFunctionOnSet(f, S)
  <1>1. IsFiniteSet(S \union {x}) /\ (S \union {x}) \ {x} = S
    BY FS_AddElement
  <1>2. \A y \in S \union {x} : f[y] \in Nat
    OBVIOUS
  <1> QED
    BY <1>1, <1>2, SumWithout

(* If the elements of S are found among those of T, each as one of its own that
   counts no less, then there are finitely many and their sum is no greater. *)
LEMMA SumAtMost ==
  ASSUME NEW S, NEW T, IsFiniteSet(T), NEW f, NEW g, NEW h \in [S -> T],
         \A x, y \in S : h[x] = h[y] => x = y,
         \A y \in T : g[y] \in Nat,
         \A x \in S : f[x] \in Nat /\ f[x] <= g[h[x]]
  PROVE  IsFiniteSet(S) /\ SumFunctionOnSet(f, S) <= SumFunctionOnSet(g, T)
  <1>1. IsFiniteSet(S)
    <2>1. h \in Injection(S, T)
      BY DEF Injection, IsInjective
    <2> QED
      BY <2>1, FS_Injection
  <1> DEFINE Image(R) == {h[x] : x \in R}
             Good == {R \in SUBSET S : \A U \in SUBSET T :
                        Image(R) \subseteq U => SumFunctionOnSet(f, R) <= SumFunctionOnSet(g, U)}
  <1>2. \A U \in SUBSET T : SumFunctionOnSet(g, U) \in Nat
    BY FS_Subset, SumType
  <1>3. {} \in Good
    BY <1>2, SumOfNone
  <1>4. ASSUME NEW R \in SUBSET S, R # {}, \A x \in R : R \ {x} \in Good
        PROVE  R \in Good
    <2> SUFFICES ASSUME NEW U \in SUBSET T, Image(R) \subseteq U
                 PROVE  SumFunctionOnSet(f, R) <= SumFunctionOnSet(g, U)
      OBVIOUS
    <2>1. PICK x \in R : TRUE
      BY <1>4
    <2>2. IsFiniteSet(R) /\ IsFiniteSet(U) /\ IsFiniteSet(R \ {x}) /\ IsFiniteSet(U \ {h[x]})
      BY <1>1, FS_Subset
    <2>3. SumFunctionOnSet(f, R) = f[x] + SumFunctionOnSet(f, R \ {x})
      BY <2>1, <2>2, SumWithout
    <2>4. SumFunctionOnSet(g, U) = g[h[x]] + SumFunctionOnSet(g, U \ {h[x]})
      BY <2>1, <2>2, SumWithout
    <2>5. Image(R \ {x}) \subseteq U \ {h[x]}
      BY <2>1
    <2>6. SumFunctionOnSet(f, R \ {x}) <= SumFunctionOnSet(g, U \ {h[x]})
      BY <1>4, <2>1, <2>5
    <2>7. /\ SumFunctionOnSet(f, R \ {x}) \in Nat /\ SumFunctionOnSet(g, U \ {h[x]}) \in Nat
          /\ f[x] \in Nat /\ g[h[x]] \in Nat /\ f[x] <= g[h[x]]
      BY <2>1, <2>2, SumType
    <2> QED
      BY <2>3, <2>4, <2>6, <2>7
  <1> HIDE DEF Good
  <1>5. \A R \in SUBSET S : R \in Good
    BY <1>1, <1>3, <1>4, SetInduction
  <1> QED
    BY <1>1, <1>5 DEF Good

(* A part has no greater sum. *)
LEMMA SumOfMore ==
  ASSUME NEW T, IsFiniteSet(T), NEW S \in SUBSET T, NEW f, NEW g,
         \A x \in T : g[x] \in Nat, \A x \in S : f[x] \in Nat /\ f[x] <= g[x]
  PROVE  SumFunctionOnSet(f, S) <= SumFunctionOnSet(g, T)
  <1> DEFINE h == [x \in S |-> x]
  <1>1. IsFiniteSet(S)
    BY FS_Subset
  <1>2. h \in [S -> T] /\ (\A x, y \in S : h[x] = h[y] => x = y) /\ \A x \in S : h[x] = x
    OBVIOUS
  <1> HIDE DEF h
  <1> QED
    BY <1>1, <1>2, SumAtMost

(* The sum of all values of a function, of a part of it, and of one value more. *)
LEMMA SumOfAll ==
  ASSUME NEW S, NEW f, DOMAIN f = S
  PROVE  SumFunction(f) = SumFunctionOnSet(f, S)
  BY DEF SumFunction

LEMMA SumOfPart ==
  ASSUME NEW T, IsFiniteSet(T), NEW S \in SUBSET T, NEW f \in [S -> Nat], NEW g \in [T -> Nat],
         \A x \in S : f[x] <= g[x]
  PROVE  SumFunction(f) \in Nat /\ SumFunction(g) \in Nat /\ SumFunction(f) <= SumFunction(g)
  <1>1. IsFiniteSet(S)
    BY FS_Subset
  <1>2. SumFunction(f) = SumFunctionOnSet(f, S) /\ SumFunction(g) = SumFunctionOnSet(g, T)
    BY SumOfAll
  <1>3. SumFunctionOnSet(f, S) \in Nat /\ SumFunctionOnSet(g, T) \in Nat
    BY <1>1, SumType
  <1>4. SumFunctionOnSet(f, S) <= SumFunctionOnSet(g, T)
    BY SumOfMore
  <1> QED
    BY <1>2, <1>3, <1>4

LEMMA SumOfOneMore ==
  ASSUME NEW S, IsFiniteSet(S), NEW x, x \notin S,
         NEW f \in [S -> Nat], NEW g \in [S \union {x} -> Nat], \A y \in S : g[y] <= f[y]
  PROVE  /\ SumFunction(f) \in Nat /\ SumFunction(g) \in Nat
         /\ SumFunction(g) <= g[x] + SumFunction(f)
  <1>1. SumFunctionOnSet(g, S \union {x}) = g[x] + SumFunctionOnSet(g, S)
    BY SumWith
  <1>2. SumFunctionOnSet(g, S) <= SumFunctionOnSet(f, S)
    BY SumOfMore
  <1>3. /\ SumFunctionOnSet(f, S) \in Nat /\ SumFunctionOnSet(g, S) \in Nat
        /\ g[x] \in Nat
    BY SumType
  <1>4. SumFunction(f) = SumFunctionOnSet(f, S)
    BY SumOfAll
  <1>5. SumFunction(g) = SumFunctionOnSet(g, S \union {x})
    BY SumOfAll
  <1> QED
    BY <1>1, <1>2, <1>3, <1>4, <1>5
=============================================================================
