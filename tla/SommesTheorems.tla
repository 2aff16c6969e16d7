--------------------------- MODULE SommesTheorems ---------------------------
(***************************************************************************)
(* Facts about SumFunctionOnSet, the sum of a function over a finite set,   *)
(* that the community module Functions defines by a fold and states no      *)
(* theorem about.  Everything rests on SommeRetire: an element can be taken *)
(* out of a sum whatever the order in which the fold visits the set.        *)
(***************************************************************************)
EXTENDS Functions, Integers, FiniteSets, FiniteSetTheorems, WellFoundedInduction, TLAPS

(* The element the fold visits first, its recursion, and the function on    *)
(* the subsets of S that satisfies it.                                      *)
Choix(s) == CHOOSE x \in s : TRUE

Corps(f, s, g) == IF s = {} THEN 0 ELSE f[Choix(s)] + g[s \ {Choix(s)}]

EstSomme(f, S, g) == g = [s \in SUBSET S |-> Corps(f, s, g)]

(* The sum, unfolded once to the recursion it stands for.                   *)
LEMMA SumIter ==
  ASSUME NEW f, NEW S
  PROVE  SumFunctionOnSet(f, S) = (CHOOSE g : EstSomme(f, S, g))[S]
BY DEF SumFunctionOnSet, FoldFunctionOnSet, MapThenFoldSet, EstSomme, Corps, Choix

(* A set of subsets of a finite set has a minimal member.                   *)
LEMMA MinimalSubset ==
  ASSUME NEW S, IsFiniteSet(S), NEW B \in SUBSET (SUBSET S), B # {}
  PROVE  \E T \in B : \A U \in B : ~(U \subseteq T /\ U # T)
<1>1. B \subseteq FiniteSubsetsOf(S)
  BY FS_Subset DEF FiniteSubsetsOf
<1>2. IsWellFoundedOn(StrictSubsetOrdering(S), FiniteSubsetsOf(S))
  BY FS_StrictSubsetOrderingWellFounded
<1>3. \E T \in B : \A U \in B : ~ (<<U, T>> \in StrictSubsetOrdering(S))
  BY <1>1, <1>2, WFMin, Zenon
<1> QED
  BY <1>3 DEF StrictSubsetOrdering

(* Two solutions of the recursion agree wherever both are defined.          *)
LEMMA SommeUnique ==
  ASSUME NEW f, NEW S, NEW R, IsFiniteSet(S), R \subseteq S,
         NEW g, EstSomme(f, S, g), NEW h, EstSomme(f, R, h)
  PROVE  \A T \in SUBSET R : g[T] = h[T]
<1> DEFINE B == {T \in SUBSET R : g[T] # h[T]}
<1> SUFFICES ASSUME B # {} PROVE FALSE
  OBVIOUS
<1>0. IsFiniteSet(R) /\ B \in SUBSET (SUBSET R)
  BY FS_Subset
<1>1. PICK T \in B : \A U \in B : ~(U \subseteq T /\ U # T)
  <2> HIDE DEF B
  <2> QED  BY <1>0, MinimalSubset
<1>2. g[T] = Corps(f, T, g) /\ h[T] = Corps(f, T, h)
  BY <1>1 DEF EstSomme
<1>3. CASE T = {}
  BY <1>1, <1>2, <1>3 DEF Corps
<1>4. CASE T # {}
  <2>1. Choix(T) \in T
    BY <1>4 DEF Choix
  <2>2. g[T \ {Choix(T)}] = h[T \ {Choix(T)}]
    BY <1>1, <2>1
  <2> QED
    BY <1>1, <1>2, <1>4, <2>2 DEF Corps
<1> QED
  BY <1>3, <1>4

(* The recursion has a solution over every finite set.                      *)
LEMMA SommeExiste ==
  ASSUME NEW f, NEW S, IsFiniteSet(S)
  PROVE  \E g : EstSomme(f, S, g)
<1> DEFINE B == {T \in SUBSET S : ~ \E g : EstSomme(f, T, g)}
<1> SUFFICES ASSUME B # {} PROVE FALSE
  OBVIOUS
<1>0. B \in SUBSET (SUBSET S)
  OBVIOUS
<1>1. PICK T \in B : \A U \in B : ~(U \subseteq T /\ U # T)
  <2> HIDE DEF B
  <2> QED  BY <1>0, MinimalSubset
<1> DEFINE G(U) == CHOOSE g : EstSomme(f, U, g)
<1>2. ASSUME NEW U \in SUBSET T, U # T
      PROVE  EstSomme(f, U, G(U))
  BY <1>1, <1>2
<1> DEFINE h == [s \in SUBSET T |->
                   IF s = {} THEN 0
                   ELSE f[Choix(s)] + G(s \ {Choix(s)})[s \ {Choix(s)}]]
<1>3. ASSUME NEW s \in SUBSET T, s # {}
      PROVE  h[s \ {Choix(s)}] = G(s \ {Choix(s)})[s \ {Choix(s)}]
  <2> DEFINE r == s \ {Choix(s)}
  <2>1. Choix(s) \in s
    BY <1>3 DEF Choix
  <2>2. r \in SUBSET T /\ r # T /\ IsFiniteSet(r)
    BY <2>1, <1>1, FS_Subset
  <2>3. G(r)[r] = Corps(f, r, G(r))
    <3> HIDE DEF G, r
    <3> QED  BY <1>2, <2>2 DEF EstSomme
  <2>4. CASE r = {}
    <3>1. G(r)[r] = 0
      BY <2>3, <2>4 DEF Corps
    <3> QED  BY <2>2, <2>4, <3>1
  <2>5. CASE r # {}
    <3> DEFINE q == r \ {Choix(r)}
    <3>1. Choix(r) \in r
      BY <2>5 DEF Choix
    <3>2. q \in SUBSET T /\ q # T /\ q \subseteq r
      BY <2>2, <3>1
    <3>3. G(r)[q] = G(q)[q]
      <4> HIDE DEF G, q, r
      <4>1. EstSomme(f, r, G(r)) /\ EstSomme(f, q, G(q))
        BY <1>2, <2>2, <3>2
      <4> QED  BY <4>1, <3>2, <2>2, SommeUnique
    <3>4. h[r] = f[Choix(r)] + G(q)[q]
      BY <2>2, <2>5
    <3>5. G(r)[r] = f[Choix(r)] + G(r)[q]
      <4> HIDE DEF G
      <4> QED  BY <2>3, <2>5 DEF Corps
    <3> QED  BY <3>3, <3>4, <3>5
  <2> QED  BY <2>4, <2>5
<1>4. EstSomme(f, T, h)
  <2>1. ASSUME NEW s \in SUBSET T
        PROVE  h[s] = Corps(f, s, h)
    <3> HIDE DEF G
    <3> QED  BY <1>3, <2>1 DEF Corps
  <2>2. h = [s \in SUBSET T |-> h[s]]
    OBVIOUS
  <2> HIDE DEF h
  <2> QED  BY <2>1, <2>2 DEF EstSomme
<1> HIDE DEF h
<1> QED  BY <1>1, <1>4

(* The sum over the empty set is 0.                                         *)
LEMMA SommeVide ==
  ASSUME NEW f
  PROVE  SumFunctionOnSet(f, {}) = 0
<1>1. PICK g : EstSomme(f, {}, g)
  BY FS_EmptySet, SommeExiste
<1>2. EstSomme(f, {}, CHOOSE g1 : EstSomme(f, {}, g1))
  BY <1>1
<1> QED  BY <1>2, SumIter DEF EstSomme, Corps

(* The sum is the first element visited plus the sum of the others.         *)
LEMMA SommeChoix ==
  ASSUME NEW f, NEW S, IsFiniteSet(S), S # {}
  PROVE  /\ Choix(S) \in S
         /\ SumFunctionOnSet(f, S) = f[Choix(S)] + SumFunctionOnSet(f, S \ {Choix(S)})
<1> DEFINE R == S \ {Choix(S)}
           g == CHOOSE x : EstSomme(f, S, x)
           h == CHOOSE x : EstSomme(f, R, x)
<1>1. Choix(S) \in S
  BY DEF Choix
<1>2. IsFiniteSet(R) /\ R \subseteq S
  BY FS_Subset
<1>3. EstSomme(f, S, g) /\ EstSomme(f, R, h)
  BY <1>2, SommeExiste
<1>4. SumFunctionOnSet(f, S) = g[S] /\ SumFunctionOnSet(f, R) = h[R]
  BY SumIter
<1> HIDE DEF g, h, R
<1>5. g[R] = h[R]
  BY <1>2, <1>3, SommeUnique
<1>6. g[S] = f[Choix(S)] + g[R]
  BY <1>3 DEF EstSomme, Corps, R
<1> QED  BY <1>1, <1>4, <1>5, <1>6 DEF R

(* A sum of integers is an integer.                                         *)
LEMMA SommeType ==
  ASSUME NEW S, IsFiniteSet(S), NEW f, \A x \in S : f[x] \in Int
  PROVE  SumFunctionOnSet(f, S) \in Int
<1> DEFINE B == {T \in SUBSET S : SumFunctionOnSet(f, T) \notin Int}
<1> SUFFICES ASSUME B # {} PROVE FALSE
  OBVIOUS
<1>1. PICK T \in B : \A U \in B : ~(U \subseteq T /\ U # T)
  <2>1. B \in SUBSET (SUBSET S)
    OBVIOUS
  <2> HIDE DEF B
  <2> QED  BY <2>1, MinimalSubset
<1>2. T \in SUBSET S /\ IsFiniteSet(T) /\ SumFunctionOnSet(f, T) \notin Int
  BY <1>1, FS_Subset
<1>3. T # {}
  BY <1>2, SommeVide
<1>4. /\ Choix(T) \in T
      /\ SumFunctionOnSet(f, T) = f[Choix(T)] + SumFunctionOnSet(f, T \ {Choix(T)})
  BY <1>2, <1>3, SommeChoix
<1>5. SumFunctionOnSet(f, T \ {Choix(T)}) \in Int
  BY <1>1, <1>2, <1>4
<1> QED  BY <1>2, <1>4, <1>5

(* Any element can be taken out of the sum.                                 *)
LEMMA SommeRetire ==
  ASSUME NEW S, IsFiniteSet(S), NEW f, \A x \in S : f[x] \in Int, NEW x \in S
  PROVE  SumFunctionOnSet(f, S) = f[x] + SumFunctionOnSet(f, S \ {x})
<1> DEFINE Ok(T) == \A y \in T : SumFunctionOnSet(f, T) = f[y] + SumFunctionOnSet(f, T \ {y})
           B == {T \in SUBSET S : ~Ok(T)}
<1> SUFFICES ASSUME B # {} PROVE FALSE
  OBVIOUS
<1>1. PICK T \in B : \A U \in B : ~(U \subseteq T /\ U # T)
  <2>1. B \in SUBSET (SUBSET S)
    OBVIOUS
  <2> HIDE DEF B
  <2> QED  BY <2>1, MinimalSubset
<1>2. T \in SUBSET S /\ IsFiniteSet(T)
  BY <1>1, FS_Subset
<1>3. PICK y \in T : SumFunctionOnSet(f, T) # f[y] + SumFunctionOnSet(f, T \ {y})
  BY <1>1
<1> DEFINE c == Choix(T)
<1>4. c \in T /\ SumFunctionOnSet(f, T) = f[c] + SumFunctionOnSet(f, T \ {c})
  BY <1>2, <1>3, SommeChoix
<1> HIDE DEF c
<1>5. c # y
  BY <1>3, <1>4
<1>6. SumFunctionOnSet(f, T \ {c}) = f[y] + SumFunctionOnSet(f, (T \ {c}) \ {y})
  BY <1>1, <1>2, <1>3, <1>4, <1>5
<1>7. SumFunctionOnSet(f, T \ {y}) = f[c] + SumFunctionOnSet(f, (T \ {y}) \ {c})
  BY <1>1, <1>2, <1>3, <1>4, <1>5
<1>8. (T \ {y}) \ {c} = (T \ {c}) \ {y}
  OBVIOUS
<1>9. IsFiniteSet((T \ {c}) \ {y}) /\ (T \ {c}) \ {y} \subseteq S
  BY <1>2, FS_Subset
<1>10. SumFunctionOnSet(f, (T \ {c}) \ {y}) \in Int
  BY <1>9, SommeType
<1>11. f[c] \in Int /\ f[y] \in Int
  BY <1>2, <1>3, <1>4
<1> DEFINE q == SumFunctionOnSet(f, (T \ {c}) \ {y})
<1>12. /\ SumFunctionOnSet(f, T) = f[c] + (f[y] + q)
       /\ f[y] + SumFunctionOnSet(f, T \ {y}) = f[y] + (f[c] + q)
  BY <1>4, <1>6, <1>7, <1>8
<1>13. f[c] + (f[y] + q) = f[y] + (f[c] + q)
  <2> HIDE DEF q
  <2> QED  BY <1>10, <1>11 DEF q
<1> QED  BY <1>3, <1>12, <1>13

(* The sum depends on the values of the function on the set only.           *)
LEMMA SommeCongruence ==
  ASSUME NEW S, IsFiniteSet(S), NEW f, NEW h, \A x \in S : f[x] = h[x]
  PROVE  SumFunctionOnSet(f, S) = SumFunctionOnSet(h, S)
<1> DEFINE B == {T \in SUBSET S : SumFunctionOnSet(f, T) # SumFunctionOnSet(h, T)}
<1> SUFFICES ASSUME B # {} PROVE FALSE
  OBVIOUS
<1>1. PICK T \in B : \A U \in B : ~(U \subseteq T /\ U # T)
  <2>1. B \in SUBSET (SUBSET S)
    OBVIOUS
  <2> HIDE DEF B
  <2> QED  BY <2>1, MinimalSubset
<1>2. T \in SUBSET S /\ IsFiniteSet(T)
  BY <1>1, FS_Subset
<1>3. T # {}
  BY <1>1, SommeVide
<1>4. /\ Choix(T) \in T
      /\ SumFunctionOnSet(f, T) = f[Choix(T)] + SumFunctionOnSet(f, T \ {Choix(T)})
      /\ SumFunctionOnSet(h, T) = h[Choix(T)] + SumFunctionOnSet(h, T \ {Choix(T)})
  BY <1>2, <1>3, SommeChoix
<1>5. SumFunctionOnSet(f, T \ {Choix(T)}) = SumFunctionOnSet(h, T \ {Choix(T)})
  BY <1>1, <1>2, <1>4
<1> QED  BY <1>1, <1>2, <1>4, <1>5

(* When the function changes at one point, so does the sum, by as much.     *)
LEMMA SommeMiseAJour ==
  ASSUME NEW S, IsFiniteSet(S), NEW f, \A y \in S : f[y] \in Int,
         NEW h, NEW x \in S, h[x] \in Int, \A y \in S \ {x} : h[y] = f[y]
  PROVE  /\ SumFunctionOnSet(f, S) \in Int
         /\ SumFunctionOnSet(h, S) \in Int
         /\ SumFunctionOnSet(h, S) = SumFunctionOnSet(f, S) - f[x] + h[x]
<1>1. IsFiniteSet(S \ {x})
  BY FS_Subset
<1>2. \A y \in S : h[y] \in Int
  OBVIOUS
<1>3. SumFunctionOnSet(f, S \ {x}) = SumFunctionOnSet(h, S \ {x})
  BY <1>1, SommeCongruence
<1>4. SumFunctionOnSet(f, S) = f[x] + SumFunctionOnSet(f, S \ {x})
  BY SommeRetire
<1>5. SumFunctionOnSet(h, S) = h[x] + SumFunctionOnSet(h, S \ {x})
  BY <1>2, SommeRetire
<1>6. SumFunctionOnSet(f, S) \in Int /\ SumFunctionOnSet(f, S \ {x}) \in Int
  BY <1>1, SommeType
<1> QED  BY <1>3, <1>4, <1>5, <1>6

(* A sum of naturals is a natural and bounds each of its terms.             *)
LEMMA SommePositive ==
  ASSUME NEW S, IsFiniteSet(S), NEW f, \A y \in S : f[y] \in Nat
  PROVE  /\ SumFunctionOnSet(f, S) \in Nat
         /\ \A x \in S : f[x] <= SumFunctionOnSet(f, S)
<1> DEFINE B == {T \in SUBSET S : SumFunctionOnSet(f, T) \notin Nat}
<1>1. B = {}
  <2> SUFFICES ASSUME B # {} PROVE FALSE
    OBVIOUS
  <2>1. PICK T \in B : \A U \in B : ~(U \subseteq T /\ U # T)
    <3>1. B \in SUBSET (SUBSET S)
      OBVIOUS
    <3> HIDE DEF B
    <3> QED  BY <3>1, MinimalSubset
  <2>2. T \in SUBSET S /\ IsFiniteSet(T) /\ T # {}
    <3>1. 0 \in Nat
      OBVIOUS
    <3> QED  BY <2>1, <3>1, FS_Subset, SommeVide
  <2>3. /\ Choix(T) \in T
        /\ SumFunctionOnSet(f, T) = f[Choix(T)] + SumFunctionOnSet(f, T \ {Choix(T)})
    BY <2>2, SommeChoix
  <2>4. SumFunctionOnSet(f, T \ {Choix(T)}) \in Nat
    BY <2>1, <2>2, <2>3
  <2> QED  BY <2>1, <2>2, <2>3, <2>4
<1>2. ASSUME NEW x \in S
      PROVE  f[x] <= SumFunctionOnSet(f, S)
  <2>1. SumFunctionOnSet(f, S) = f[x] + SumFunctionOnSet(f, S \ {x})
    BY SommeRetire
  <2>2. SumFunctionOnSet(f, S \ {x}) \in Nat
    BY <1>1
  <2> QED  BY <2>1, <2>2
<1> QED  BY <1>1, <1>2

(* A sum of zeros is 0.                                                     *)
LEMMA SommeNulle ==
  ASSUME NEW S, IsFiniteSet(S), NEW f, \A y \in S : f[y] = 0
  PROVE  SumFunctionOnSet(f, S) = 0
<1> DEFINE B == {T \in SUBSET S : SumFunctionOnSet(f, T) # 0}
<1> SUFFICES ASSUME B # {} PROVE FALSE
  OBVIOUS
<1>1. PICK T \in B : \A U \in B : ~(U \subseteq T /\ U # T)
  <2>1. B \in SUBSET (SUBSET S)
    OBVIOUS
  <2> HIDE DEF B
  <2> QED  BY <2>1, MinimalSubset
<1>2. T \in SUBSET S /\ IsFiniteSet(T) /\ T # {}
  BY <1>1, FS_Subset, SommeVide
<1>3. /\ Choix(T) \in T
      /\ SumFunctionOnSet(f, T) = f[Choix(T)] + SumFunctionOnSet(f, T \ {Choix(T)})
  BY <1>2, SommeChoix
<1>4. SumFunctionOnSet(f, T \ {Choix(T)}) = 0
  BY <1>1, <1>2, <1>3
<1> QED  BY <1>1, <1>2, <1>3, <1>4

(* A sum of equal terms is a product.                                       *)
LEMMA SommeConstante ==
  ASSUME NEW S, IsFiniteSet(S), NEW d \in Int, NEW f, \A y \in S : f[y] = d
  PROVE  SumFunctionOnSet(f, S) = Cardinality(S) * d
<1> DEFINE B == {T \in SUBSET S : SumFunctionOnSet(f, T) # Cardinality(T) * d}
<1> SUFFICES ASSUME B # {} PROVE FALSE
  OBVIOUS
<1>1. PICK T \in B : \A U \in B : ~(U \subseteq T /\ U # T)
  <2>1. B \in SUBSET (SUBSET S)
    OBVIOUS
  <2> HIDE DEF B
  <2> QED  BY <2>1, MinimalSubset
<1>2. T \in SUBSET S /\ IsFiniteSet(T)
  BY <1>1, FS_Subset
<1>3. T # {}
  <2>1. Cardinality({}) * d = 0
    BY FS_EmptySet
  <2> QED  BY <1>1, <2>1, SommeVide
<1> DEFINE R == T \ {Choix(T)}
<1>4. /\ Choix(T) \in T
      /\ SumFunctionOnSet(f, T) = f[Choix(T)] + SumFunctionOnSet(f, R)
  BY <1>2, <1>3, SommeChoix
<1>5. SumFunctionOnSet(f, R) = Cardinality(R) * d
  BY <1>1, <1>2, <1>4
<1>6. Cardinality(R) \in Nat /\ Cardinality(T) = Cardinality(R) + 1
  <2>1. IsFiniteSet(R) /\ Choix(T) \notin R /\ T = R \cup {Choix(T)}
    BY <1>2, <1>4, FS_Subset
  <2> QED  BY <2>1, FS_AddElement, FS_CardinalityType
<1>7. f[Choix(T)] = d
  BY <1>2, <1>4
<1>8. \A k \in Nat : (k + 1) * d = d + k * d
  OBVIOUS
<1>9. SumFunctionOnSet(f, T) = Cardinality(T) * d
  BY <1>4, <1>5, <1>6, <1>7, <1>8
<1> QED  BY <1>1, <1>9
=============================================================================
