------------------------------- MODULE Sumas -------------------------------
(***************************************************************************)
(* Sums over finite sets.  Stock, till and invoices are correct when a     *)
(* stored total equals a sum over rows, which the models write with        *)
(* SumFunctionOnSet of the community modules.  Its definition recurs over  *)
(* an arbitrary element: these lemmas unfold it once and give the algebra  *)
(* the invariants need.                                                    *)
(*                                                                         *)
(* A fact about every finite set is proved by a minimal counterexample:    *)
(* the sets that refute it, were there any, would have a minimal one.      *)
(***************************************************************************)
EXTENDS Integers, Functions, FiniteSets, FiniteSetTheorems, WellFoundedInduction, TLAPS

-----------------------------------------------------------------------------
(* Minimal and maximal elements *)

\* A set of naturals has a least one.
LEMMA MinimoNat ==
  ASSUME NEW X \in SUBSET Nat, X # {}
  PROVE  \E n \in X : \A m \in X : n <= m
<1> DEFINE R == OpToRel(<, Nat)
<1>1. \E n \in X : \A m \in X : <<m, n>> \notin R
  <2> HIDE DEF R
  <2>1. IsWellFoundedOn(R, Nat)
    BY NatLessThanWellFounded DEF R
  <2>2. QED
    BY <2>1, WFMin
<1>2. \A m, n \in Nat : m < n => <<m, n>> \in R
  BY DEF OpToRel
<1> HIDE DEF R
<1>3. PICK n \in X : \A m \in X : <<m, n>> \notin R
  BY <1>1
<1>4. \A m \in X : m \in Nat /\ n \in Nat /\ ~(m < n)
  BY <1>2, <1>3
<1>5. QED
  BY <1>4

\* A family of subsets of a finite set has a minimal one.
LEMMA MinimoConjunto ==
  ASSUME NEW S, IsFiniteSet(S), NEW X \in SUBSET (SUBSET S), X # {}
  PROVE  \E T \in X : \A U \in X : U \subseteq T => U = T
<1>1. IsWellFoundedOn(StrictSubsetOrdering(S), SUBSET S)
  BY FS_StrictSubsetOrderingWellFounded, FS_FiniteSubsetsOfFinite
<1>2. \E T \in X : \A U \in X : <<U, T>> \notin StrictSubsetOrdering(S)
  BY <1>1, WFMin
<1>3. QED
  BY <1>2 DEF StrictSubsetOrdering

\* A finite set of naturals has a greatest one.
LEMMA MaximoFinito ==
  ASSUME NEW S, IsFiniteSet(S), S # {}, \A x \in S : x \in Nat
  PROVE  \E n \in S : \A m \in S : n >= m
<1> DEFINE X == {T \in SUBSET S : T # {} /\ ~\E n \in T : \A m \in T : n >= m}
<1>1. SUFFICES ASSUME X # {} PROVE FALSE
  OBVIOUS
<1>2. PICK T \in X : \A U \in X : U \subseteq T => U = T
  <2>1. X \in SUBSET (SUBSET S)
    OBVIOUS
  <2> HIDE DEF X
  <2>2. QED
    BY <1>1, <2>1, MinimoConjunto
<1>3. PICK x \in T : TRUE
  OBVIOUS
<1>4. T \ {x} \notin X
  BY <1>2, <1>3
<1>5. CASE T \ {x} = {}
  <2>1. \A m \in T : x >= m
    BY <1>3, <1>5
  <2>2. QED
    BY <1>3, <2>1
<1>6. CASE T \ {x} # {}
  <2>1. PICK n \in T \ {x} : \A m \in T \ {x} : n >= m
    BY <1>4, <1>6
  <2>2. n \in Nat /\ x \in Nat /\ \A m \in T : m \in Nat
    BY <1>3
  <2>3. CASE x >= n
    <3>1. \A m \in T : x >= m
      BY <2>1, <2>2, <2>3
    <3>2. QED
      BY <1>3, <3>1
  <2>4. CASE n >= x
    <3>1. \A m \in T : n >= m
      BY <2>1, <2>2, <2>4
    <3>2. QED
      BY <3>1
  <2>5. QED
    BY <2>2, <2>3, <2>4
<1>7. QED
  BY <1>5, <1>6

-----------------------------------------------------------------------------
(* The recursion under SumFunctionOnSet *)

\* The element each step takes, the body of the recursion and the function it defines.
SumaPrimero(s) == CHOOSE x \in s : TRUE
SumaCuerpo(f, g, s) == IF s = {} THEN 0 ELSE f[SumaPrimero(s)] + g[s \ {SumaPrimero(s)}]
SumaFuncion(f, S) == CHOOSE g : g = [s \in SUBSET S |-> SumaCuerpo(f, g, s)]

\* SumFunctionOnSet is that function, at its set.
LEMMA SumaDef ==
  ASSUME NEW f, NEW S
  PROVE SumFunctionOnSet(f, S) = SumaFuncion(f, S)[S]
  BY DEF SumFunctionOnSet, FoldFunctionOnSet, MapThenFoldSet, SumaFuncion, SumaPrimero, SumaCuerpo

\* The step takes an element of its set.
LEMMA SumaPrimeroEn == ASSUME NEW s, s # {} PROVE SumaPrimero(s) \in s
  BY DEF SumaPrimero

\* The subsets of S with at most n elements.
SumaHasta(S, n) == {s \in SUBSET S : Cardinality(s) <= n}

\* The recursion has a solution: on the subsets of at most n elements, for every n.
LEMMA SumaFuncionExiste ==
  ASSUME NEW f, NEW S, IsFiniteSet(S)
  PROVE  \E g : g = [s \in SUBSET S |-> SumaCuerpo(f, g, s)]
<1> DEFINE P(n) == \E g : g = [s \in SumaHasta(S, n) |-> SumaCuerpo(f, g, s)]
<1>0. \A s \in SUBSET S : IsFiniteSet(s) /\ Cardinality(s) \in Nat /\ Cardinality(s) <= Cardinality(S)
  BY FS_Subset, FS_CardinalityType
<1>1. P(0)
  <2> DEFINE g == [s \in SumaHasta(S, 0) |-> 0]
  <2>1. \A s \in SumaHasta(S, 0) : s = {}
    BY <1>0, FS_EmptySet DEF SumaHasta
  <2>2. g = [s \in SumaHasta(S, 0) |-> SumaCuerpo(f, g, s)]
    BY <2>1 DEF SumaCuerpo
  <2>3. QED
    BY <2>2
<1>2. ASSUME NEW n \in Nat, P(n) PROVE P(n + 1)
  <2>1. PICK g : g = [s \in SumaHasta(S, n) |-> SumaCuerpo(f, g, s)]
    BY <1>2
  <2> DEFINE h == [s \in SumaHasta(S, n + 1) |-> SumaCuerpo(f, g, s)]
  <2>2. ASSUME NEW s \in SumaHasta(S, n + 1), s # {}
        PROVE  s \ {SumaPrimero(s)} \in SumaHasta(S, n)
    <3>1. SumaPrimero(s) \in s
      BY <2>2, SumaPrimeroEn
    <3>2. IsFiniteSet(s) /\ Cardinality(s) \in Nat /\ Cardinality(s) <= n + 1
      BY <1>0 DEF SumaHasta
    <3>3. Cardinality(s \ {SumaPrimero(s)}) = Cardinality(s) - 1
      BY <3>1, <3>2, FS_RemoveElement
    <3>4. QED
      BY <3>2, <3>3 DEF SumaHasta
  <2>3. \A s \in SumaHasta(S, n) : s \in SumaHasta(S, n + 1) /\ h[s] = g[s]
    <3>1. \A s \in SumaHasta(S, n) : s \in SumaHasta(S, n + 1)
      BY <1>0 DEF SumaHasta
    <3>2. QED
      BY <2>1, <3>1
  <2>4. \A s \in SumaHasta(S, n + 1) : SumaCuerpo(f, g, s) = SumaCuerpo(f, h, s)
    BY <2>2, <2>3 DEF SumaCuerpo
  <2>5. h = [s \in SumaHasta(S, n + 1) |-> SumaCuerpo(f, h, s)]
    BY <2>4
  <2>6. QED
    BY <2>5
<1> HIDE DEF P
<1>3. \A n \in Nat : P(n)
  <2> DEFINE X == {n \in Nat : ~P(n)}
  <2>1. SUFFICES ASSUME X # {} PROVE FALSE
    OBVIOUS
  <2>2. PICK n \in X : \A m \in X : n <= m
    BY <2>1, MinimoNat
  <2>3. n # 0 /\ n - 1 \in Nat /\ (n - 1) + 1 = n
    BY <1>1, <2>2
  <2>4. P(n - 1)
    BY <2>2, <2>3
  <2>5. QED
    BY <1>2, <2>2, <2>3, <2>4
<1>4. SumaHasta(S, Cardinality(S)) = SUBSET S
  BY <1>0 DEF SumaHasta
<1>5. P(Cardinality(S))
  BY <1>3, FS_CardinalityType
<1>6. QED
  BY <1>4, <1>5 DEF P

\* So it satisfies its equation at every subset.
LEMMA SumaFuncionEn ==
  ASSUME NEW f, NEW S, IsFiniteSet(S), NEW T \in SUBSET S
  PROVE  SumaFuncion(f, S)[T] = SumaCuerpo(f, SumaFuncion(f, S), T)
<1> DEFINE I == SumaFuncion(f, S)
<1>1. I = [s \in SUBSET S |-> SumaCuerpo(f, I, s)]
  BY SumaFuncionExiste DEF SumaFuncion
<1> HIDE DEF I
<1>2. I[T] = SumaCuerpo(f, I, T)
  BY <1>1
<1>3. QED
  BY <1>2 DEF I

\* It does not depend on the set it was defined for.
LEMMA SumaFuncionUnica ==
  ASSUME NEW f, NEW S, IsFiniteSet(S), NEW T \in SUBSET S, NEW U \in SUBSET T
  PROVE  SumaFuncion(f, S)[U] = SumaFuncion(f, T)[U]
<1>1. IsFiniteSet(T)
  BY FS_Subset
<1> DEFINE X == {s \in SUBSET T : SumaFuncion(f, S)[s] # SumaFuncion(f, T)[s]}
<1>2. SUFFICES ASSUME X # {} PROVE FALSE
  OBVIOUS
<1>3. PICK s \in X : \A u \in X : u \subseteq s => u = s
  <2>1. X \in SUBSET (SUBSET T)
    OBVIOUS
  <2> HIDE DEF X
  <2>2. QED
    BY <1>1, <1>2, <2>1, MinimoConjunto
<1>4. SumaFuncion(f, S)[s] = SumaCuerpo(f, SumaFuncion(f, S), s) /\ SumaFuncion(f, T)[s] = SumaCuerpo(f, SumaFuncion(f, T), s)
  <2>1. s \in SUBSET T /\ s \in SUBSET S
    BY <1>3
  <2>2. SumaFuncion(f, S)[s] = SumaCuerpo(f, SumaFuncion(f, S), s)
    BY <2>1, SumaFuncionEn
  <2>3. SumaFuncion(f, T)[s] = SumaCuerpo(f, SumaFuncion(f, T), s)
    BY <1>1, <2>1, SumaFuncionEn
  <2>4. QED
    BY <2>2, <2>3
<1>5. CASE s = {}
  BY <1>3, <1>4, <1>5 DEF SumaCuerpo
<1>6. CASE s # {}
  <2>1. SumaPrimero(s) \in s
    BY <1>6, SumaPrimeroEn
  <2>2. s \ {SumaPrimero(s)} \notin X
    BY <1>3, <2>1
  <2>3. SumaFuncion(f, S)[s \ {SumaPrimero(s)}] = SumaFuncion(f, T)[s \ {SumaPrimero(s)}]
    BY <1>3, <2>2
  <2>4. QED
    BY <1>3, <1>4, <1>6, <2>3 DEF SumaCuerpo
<1>7. QED
  BY <1>5, <1>6

\* The sum unfolds: one element, and the rest.
LEMMA SumaPaso ==
  ASSUME NEW f, NEW S, IsFiniteSet(S)
  PROVE  SumFunctionOnSet(f, S) =
           IF S = {} THEN 0 ELSE f[SumaPrimero(S)] + SumFunctionOnSet(f, S \ {SumaPrimero(S)})
<1>1. SumaFuncion(f, S)[S] = SumaCuerpo(f, SumaFuncion(f, S), S)
  BY SumaFuncionEn
<1>2. SumaFuncion(f, S)[S \ {SumaPrimero(S)}] = SumaFuncion(f, S \ {SumaPrimero(S)})[S \ {SumaPrimero(S)}]
  BY SumaFuncionUnica
<1>3. QED
  BY <1>1, <1>2, SumaDef DEF SumaCuerpo

-----------------------------------------------------------------------------
(* The algebra of sums *)

\* Nothing adds up to zero.
LEMMA SumaVacia == ASSUME NEW f PROVE SumFunctionOnSet(f, {}) = 0
  BY SumaPaso, FS_EmptySet

\* A sum that is not empty has a first term.
LEMMA SumaElige ==
  ASSUME NEW f, NEW S, IsFiniteSet(S), S # {}
  PROVE  /\ SumaPrimero(S) \in S /\ IsFiniteSet(S \ {SumaPrimero(S)})
         /\ SumFunctionOnSet(f, S) = f[SumaPrimero(S)] + SumFunctionOnSet(f, S \ {SumaPrimero(S)})
  BY SumaPaso, SumaPrimeroEn, FS_RemoveElement

\* A sum of integers is one.
LEMMA SumaEntera ==
  ASSUME NEW f, NEW S, IsFiniteSet(S), \A x \in S : f[x] \in Int
  PROVE  SumFunctionOnSet(f, S) \in Int
<1> DEFINE X == {T \in SUBSET S : SumFunctionOnSet(f, T) \notin Int}
<1>1. SUFFICES ASSUME X # {} PROVE FALSE
  OBVIOUS
<1>2. PICK T \in X : \A U \in X : U \subseteq T => U = T
  <2>1. X \in SUBSET (SUBSET S)
    OBVIOUS
  <2> HIDE DEF X
  <2>2. QED
    BY <1>1, <2>1, MinimoConjunto
<1>3. T \in SUBSET S /\ IsFiniteSet(T) /\ SumFunctionOnSet(f, T) \notin Int
  BY <1>2, FS_Subset
<1>4. T # {}
  <2>1. SumFunctionOnSet(f, {}) \in Int
    BY SumaVacia
  <2>2. QED
    BY <1>3, <2>1
<1>5. /\ SumaPrimero(T) \in T
      /\ SumFunctionOnSet(f, T) = f[SumaPrimero(T)] + SumFunctionOnSet(f, T \ {SumaPrimero(T)})
  BY <1>3, <1>4, SumaElige
<1>6. SumFunctionOnSet(f, T \ {SumaPrimero(T)}) \in Int
  BY <1>2, <1>3, <1>5
<1>7. QED
  BY <1>3, <1>5, <1>6

\* A sum of naturals is one.
LEMMA SumaNatural ==
  ASSUME NEW f, NEW S, IsFiniteSet(S), \A x \in S : f[x] \in Nat
  PROVE  SumFunctionOnSet(f, S) \in Nat
<1> DEFINE X == {T \in SUBSET S : SumFunctionOnSet(f, T) \notin Nat}
<1>1. SUFFICES ASSUME X # {} PROVE FALSE
  OBVIOUS
<1>2. PICK T \in X : \A U \in X : U \subseteq T => U = T
  <2>1. X \in SUBSET (SUBSET S)
    OBVIOUS
  <2> HIDE DEF X
  <2>2. QED
    BY <1>1, <2>1, MinimoConjunto
<1>3. T \in SUBSET S /\ IsFiniteSet(T) /\ SumFunctionOnSet(f, T) \notin Nat
  BY <1>2, FS_Subset
<1>4. T # {}
  <2>1. SumFunctionOnSet(f, {}) \in Nat
    BY SumaVacia
  <2>2. QED
    BY <1>3, <2>1
<1>5. /\ SumaPrimero(T) \in T
      /\ SumFunctionOnSet(f, T) = f[SumaPrimero(T)] + SumFunctionOnSet(f, T \ {SumaPrimero(T)})
  BY <1>3, <1>4, SumaElige
<1>6. SumFunctionOnSet(f, T \ {SumaPrimero(T)}) \in Nat
  BY <1>2, <1>3, <1>5
<1>7. QED
  BY <1>3, <1>5, <1>6

\* Any element may be taken out first.
LEMMA SumaSin ==
  ASSUME NEW f, NEW S, IsFiniteSet(S), \A y \in S : f[y] \in Int, NEW x \in S
  PROVE  SumFunctionOnSet(f, S) = f[x] + SumFunctionOnSet(f, S \ {x})
<1> DEFINE Bien(T) == \A y \in T : SumFunctionOnSet(f, T) = f[y] + SumFunctionOnSet(f, T \ {y})
           X == {T \in SUBSET S : ~Bien(T)}
<1>1. SUFFICES ASSUME X # {} PROVE FALSE
  OBVIOUS
<1>2. PICK T \in X : \A U \in X : U \subseteq T => U = T
  <2>1. X \in SUBSET (SUBSET S)
    OBVIOUS
  <2> HIDE DEF X
  <2>2. QED
    BY <1>1, <2>1, MinimoConjunto
<1>3. T \in SUBSET S /\ IsFiniteSet(T) /\ ~Bien(T)
  BY <1>2, FS_Subset
<1>4. ASSUME NEW U \in SUBSET T, U # T PROVE Bien(U)
  BY <1>2, <1>3, <1>4
<1>5. PICK y \in T : SumFunctionOnSet(f, T) # f[y] + SumFunctionOnSet(f, T \ {y})
  BY <1>3
<1> DEFINE c == SumaPrimero(T)
           TC == T \ {c}
           TY == T \ {y}
<1>6. c \in T /\ SumFunctionOnSet(f, T) = f[c] + SumFunctionOnSet(f, TC)
  BY <1>3, <1>5, SumaElige
<1>7. c # y
  BY <1>5, <1>6
<1>8. SumFunctionOnSet(f, TC) = f[y] + SumFunctionOnSet(f, TC \ {y})
  BY <1>4, <1>5, <1>6, <1>7
<1>9. SumFunctionOnSet(f, TY) = f[c] + SumFunctionOnSet(f, TY \ {c})
  BY <1>4, <1>5, <1>6, <1>7
<1>10. TC \ {y} = TY \ {c} /\ TC \ {y} \in SUBSET S /\ IsFiniteSet(TC \ {y})
  BY <1>3, FS_Subset
<1>11. SumFunctionOnSet(f, TC \ {y}) \in Int
  BY <1>10, SumaEntera
<1>12. f[c] \in Int /\ f[y] \in Int
  BY <1>3, <1>5, <1>6
<1>13. SumFunctionOnSet(f, T) # f[y] + SumFunctionOnSet(f, TY)
  BY <1>5
<1> DEFINE resto == SumFunctionOnSet(f, TC \ {y})
           a == f[c]
           b == f[y]
<1>14. /\ SumFunctionOnSet(f, T) = a + (b + resto)
       /\ SumFunctionOnSet(f, TY) = a + resto
  BY <1>6, <1>8, <1>9, <1>10
<1>15. a \in Int /\ b \in Int /\ resto \in Int
  BY <1>11, <1>12
<1> HIDE DEF TY, resto, a, b
<1>16. a + (b + resto) = b + (a + resto)
  BY <1>15
<1>17. QED
  BY <1>13, <1>14, <1>16 DEF b

\* An element more.
LEMMA SumaCon ==
  ASSUME NEW f, NEW S, IsFiniteSet(S), \A y \in S : f[y] \in Int, NEW x, x \notin S, f[x] \in Int
  PROVE  SumFunctionOnSet(f, S \cup {x}) = f[x] + SumFunctionOnSet(f, S)
<1>1. IsFiniteSet(S \cup {x}) /\ (S \cup {x}) \ {x} = S
  BY FS_AddElement
<1>2. QED
  BY <1>1, SumaSin

\* It depends on the values over its set only.
LEMMA SumaIgual ==
  ASSUME NEW f, NEW g, NEW S, IsFiniteSet(S), \A x \in S : f[x] = g[x]
  PROVE  SumFunctionOnSet(f, S) = SumFunctionOnSet(g, S)
<1> DEFINE X == {T \in SUBSET S : SumFunctionOnSet(f, T) # SumFunctionOnSet(g, T)}
<1>1. SUFFICES ASSUME X # {} PROVE FALSE
  OBVIOUS
<1>2. PICK T \in X : \A U \in X : U \subseteq T => U = T
  <2>1. X \in SUBSET (SUBSET S)
    OBVIOUS
  <2> HIDE DEF X
  <2>2. QED
    BY <1>1, <2>1, MinimoConjunto
<1>3. T \in SUBSET S /\ IsFiniteSet(T) /\ SumFunctionOnSet(f, T) # SumFunctionOnSet(g, T)
  BY <1>2, FS_Subset
<1>4. T # {}
  <2>1. SumFunctionOnSet(f, {}) = SumFunctionOnSet(g, {})
    BY SumaVacia
  <2>2. QED
    BY <1>3, <2>1
<1>5. /\ SumaPrimero(T) \in T
      /\ SumFunctionOnSet(f, T) = f[SumaPrimero(T)] + SumFunctionOnSet(f, T \ {SumaPrimero(T)})
      /\ SumFunctionOnSet(g, T) = g[SumaPrimero(T)] + SumFunctionOnSet(g, T \ {SumaPrimero(T)})
  BY <1>3, <1>4, SumaElige
<1>6. SumFunctionOnSet(f, T \ {SumaPrimero(T)}) = SumFunctionOnSet(g, T \ {SumaPrimero(T)})
  BY <1>2, <1>3, <1>5
<1>7. QED
  BY <1>3, <1>5, <1>6

\* One value changes.
LEMMA SumaCambia ==
  ASSUME NEW f, NEW g, NEW S, IsFiniteSet(S), NEW x \in S, \A y \in S : f[y] \in Int, g[x] \in Int,
         \A y \in S \ {x} : g[y] = f[y]
  PROVE  SumFunctionOnSet(g, S) = SumFunctionOnSet(f, S) - f[x] + g[x]
<1>1. IsFiniteSet(S \ {x}) /\ \A y \in S : g[y] \in Int
  BY FS_RemoveElement
<1>2. SumFunctionOnSet(g, S \ {x}) = SumFunctionOnSet(f, S \ {x})
  BY <1>1, SumaIgual
<1>3. SumFunctionOnSet(f, S) = f[x] + SumFunctionOnSet(f, S \ {x})
  BY SumaSin
<1>4. SumFunctionOnSet(g, S) = g[x] + SumFunctionOnSet(g, S \ {x})
  BY <1>1, SumaSin
<1>5. SumFunctionOnSet(f, S \ {x}) \in Int
  BY <1>1, SumaEntera
<1>6. QED
  BY <1>2, <1>3, <1>4, <1>5

\* No term of a sum of naturals exceeds it.
LEMMA SumaMayor ==
  ASSUME NEW f, NEW S, IsFiniteSet(S), \A y \in S : f[y] \in Nat, NEW x \in S
  PROVE  f[x] <= SumFunctionOnSet(f, S)
<1>1. IsFiniteSet(S \ {x})
  BY FS_RemoveElement
<1>2. SumFunctionOnSet(f, S \ {x}) \in Nat
  BY <1>1, SumaNatural
<1>3. SumFunctionOnSet(f, S) = f[x] + SumFunctionOnSet(f, S \ {x})
  BY SumaSin
<1>4. QED
  BY <1>2, <1>3
\* Elements that count zero may be left out.
LEMMA SumaFiltro ==
  ASSUME NEW f, NEW g, NEW S, IsFiniteSet(S), NEW A \in SUBSET S,
         \A x \in A : f[x] = g[x] /\ f[x] \in Int,
         \A x \in S \ A : g[x] = 0
  PROVE  SumFunctionOnSet(f, A) = SumFunctionOnSet(g, S)
<1> DEFINE X == {T \in SUBSET S : SumFunctionOnSet(f, T \cap A) # SumFunctionOnSet(g, T)}
<1>1. SUFFICES ASSUME X # {} PROVE FALSE
  <2>1. S \cap A = A
    OBVIOUS
  <2>2. QED
    BY <2>1
<1>2. PICK T \in X : \A U \in X : U \subseteq T => U = T
  <2>1. X \in SUBSET (SUBSET S)
    OBVIOUS
  <2> HIDE DEF X
  <2>2. QED
    BY <1>1, <2>1, MinimoConjunto
<1>3. T \in SUBSET S /\ IsFiniteSet(T) /\ SumFunctionOnSet(f, T \cap A) # SumFunctionOnSet(g, T)
  BY <1>2, FS_Subset
<1>4. T # {}
  <2>1. SumFunctionOnSet(f, {}) = SumFunctionOnSet(g, {}) /\ {} \cap A = {}
    BY SumaVacia
  <2>2. QED
    BY <1>3, <2>1
<1>5. PICK x : x \in T
  BY <1>4
<1> DEFINE R == T \ {x}
<1>6. SumFunctionOnSet(f, R \cap A) = SumFunctionOnSet(g, R) /\ IsFiniteSet(R) /\ IsFiniteSet(T \cap A)
  BY <1>2, <1>3, <1>5, FS_Subset
<1>7. SumFunctionOnSet(g, T) = g[x] + SumFunctionOnSet(g, R)
  <2>1. \A y \in T : g[y] \in Int
    BY <1>3
  <2>2. QED
    BY <1>3, <1>5, <2>1, SumaSin
<1>8. CASE x \in A
  <2>1. (T \cap A) \ {x} = R \cap A /\ x \in T \cap A /\ \A y \in T \cap A : f[y] \in Int
    BY <1>5, <1>8
  <2>2. SumFunctionOnSet(f, T \cap A) = f[x] + SumFunctionOnSet(f, R \cap A)
    BY <1>6, <2>1, SumaSin
  <2>3. QED
    BY <1>3, <1>6, <1>7, <1>8, <2>2
<1>9. CASE x \notin A
  <2>1. T \cap A = R \cap A /\ g[x] = 0
    BY <1>3, <1>5, <1>9
  <2>2. SumFunctionOnSet(g, R) \in Int
    <3>1. \A y \in R : g[y] \in Int
      BY <1>3
    <3>2. QED
      BY <1>6, <3>1, SumaEntera
  <2>3. SumFunctionOnSet(f, T \cap A) = SumFunctionOnSet(f, R \cap A)
    BY <2>1
  <2>4. SumFunctionOnSet(g, T) = SumFunctionOnSet(g, R)
    <3> HIDE DEF R
    <3>1. QED
      BY <1>7, <2>1, <2>2
  <2>5. QED
    BY <1>3, <1>6, <2>3, <2>4
<1>10. QED
  BY <1>8, <1>9

\* Zeros add up to zero.
LEMMA SumaCero ==
  ASSUME NEW f, NEW S, IsFiniteSet(S), \A x \in S : f[x] = 0
  PROVE  SumFunctionOnSet(f, S) = 0
<1> DEFINE e == [x \in {} |-> 0]
<1>1. SumFunctionOnSet(e, {}) = SumFunctionOnSet(f, S)
  <2>1. {} \in SUBSET S /\ \A x \in {} : e[x] = f[x] /\ e[x] \in Int
    OBVIOUS
  <2>2. \A x \in S \ {} : f[x] = 0
    OBVIOUS
  <2> HIDE DEF e
  <2>3. QED
    BY <2>1, <2>2, SumaFiltro
<1>2. QED
  BY <1>1, SumaVacia
\* The sum of the sums is the sum of the terms.
LEMMA SumaSuma ==
  ASSUME NEW f, NEW g, NEW h, NEW S, IsFiniteSet(S),
         \A x \in S : f[x] \in Int /\ g[x] \in Int /\ h[x] = f[x] + g[x]
  PROVE  SumFunctionOnSet(h, S) = SumFunctionOnSet(f, S) + SumFunctionOnSet(g, S)
<1> DEFINE X == {T \in SUBSET S : SumFunctionOnSet(h, T) # SumFunctionOnSet(f, T) + SumFunctionOnSet(g, T)}
<1>1. SUFFICES ASSUME X # {} PROVE FALSE
  OBVIOUS
<1>2. PICK T \in X : \A U \in X : U \subseteq T => U = T
  <2>1. X \in SUBSET (SUBSET S)
    OBVIOUS
  <2> HIDE DEF X
  <2>2. QED
    BY <1>1, <2>1, MinimoConjunto
<1>3. T \in SUBSET S /\ IsFiniteSet(T)
  BY <1>2, FS_Subset
<1>4. T # {}
  <2>1. SumFunctionOnSet(f, {}) = 0 /\ SumFunctionOnSet(g, {}) = 0 /\ SumFunctionOnSet(h, {}) = 0
    BY SumaVacia
  <2>2. {} \notin X
    BY <2>1
  <2>3. QED
    BY <1>2, <2>2
<1> DEFINE x == SumaPrimero(T)
           U == T \ {x}
<1>5. /\ x \in T /\ IsFiniteSet(U)
      /\ SumFunctionOnSet(f, T) = f[x] + SumFunctionOnSet(f, U)
      /\ SumFunctionOnSet(g, T) = g[x] + SumFunctionOnSet(g, U)
      /\ SumFunctionOnSet(h, T) = h[x] + SumFunctionOnSet(h, U)
  BY <1>3, <1>4, SumaElige
<1>6. SumFunctionOnSet(h, U) = SumFunctionOnSet(f, U) + SumFunctionOnSet(g, U)
  BY <1>2, <1>3, <1>5
<1>7. SumFunctionOnSet(f, U) \in Int /\ SumFunctionOnSet(g, U) \in Int
  BY <1>3, <1>5, SumaEntera
<1>8. f[x] \in Int /\ g[x] \in Int /\ h[x] = f[x] + g[x]
  BY <1>3, <1>5
<1> HIDE DEF U, x
<1>9. SumFunctionOnSet(h, T) = SumFunctionOnSet(f, T) + SumFunctionOnSet(g, T)
  BY <1>5, <1>6, <1>7, <1>8
<1>10. QED
  BY <1>2, <1>9

\* Each term of f differs from k times that of g by a to b; so does the sum, for each term.
Difieren(f, g, k, a, b, S) ==
  \A x \in S : /\ f[x] \in Int /\ g[x] \in Int
               /\ a <= f[x] - k * g[x] /\ f[x] - k * g[x] <= b
SumaDifiere(f, g, k, a, b, S) ==
  LET d == SumFunctionOnSet(f, S) - k * SumFunctionOnSet(g, S)
  IN  a * Cardinality(S) <= d /\ d <= b * Cardinality(S)

\* What rounding line by line may take from a total or give to it.
LEMMA SumaEntre ==
  ASSUME NEW f, NEW g, NEW S, IsFiniteSet(S), NEW k \in Int, NEW a \in Int, NEW b \in Int,
         Difieren(f, g, k, a, b, S)
  PROVE  SumaDifiere(f, g, k, a, b, S)
<1> DEFINE Resto(T) == SumFunctionOnSet(f, T) - k * SumFunctionOnSet(g, T)
           Bien(T) == a * Cardinality(T) <= Resto(T) /\ Resto(T) <= b * Cardinality(T)
           X == {T \in SUBSET S : ~Bien(T)}
<1>1. SUFFICES ASSUME X # {} PROVE FALSE
  <2>1. Bien(S)
    BY <1>1
  <2>2. QED
    BY <2>1 DEF SumaDifiere
<1>2. PICK T \in X : \A U \in X : U \subseteq T => U = T
  <2>1. X \in SUBSET (SUBSET S)
    OBVIOUS
  <2> HIDE DEF X
  <2>2. QED
    BY <1>1, <2>1, MinimoConjunto
<1>3. T \in SUBSET S /\ IsFiniteSet(T) /\ ~Bien(T)
  BY <1>2, FS_Subset
<1>4. T # {}
  <2>1. SumFunctionOnSet(f, {}) = 0 /\ SumFunctionOnSet(g, {}) = 0 /\ Cardinality({}) = 0
    BY SumaVacia, FS_EmptySet
  <2>2. Bien({})
    BY <2>1
  <2>3. QED
    BY <1>3, <2>2
<1> DEFINE x == SumaPrimero(T)
           U == T \ {x}
<1>5. /\ x \in T /\ IsFiniteSet(U)
      /\ SumFunctionOnSet(f, T) = f[x] + SumFunctionOnSet(f, U)
      /\ SumFunctionOnSet(g, T) = g[x] + SumFunctionOnSet(g, U)
  BY <1>3, <1>4, SumaElige
<1>6. Cardinality(T) = Cardinality(U) + 1 /\ Cardinality(U) \in Nat
  BY <1>3, <1>5, FS_RemoveElement, FS_CardinalityType
<1>7. Bien(U)
  BY <1>2, <1>3, <1>5
<1>8. SumFunctionOnSet(f, U) \in Int /\ SumFunctionOnSet(g, U) \in Int
  BY <1>3, <1>5, SumaEntera DEF Difieren
<1>9. /\ f[x] \in Int /\ g[x] \in Int
      /\ a <= f[x] - k * g[x] /\ f[x] - k * g[x] <= b
  BY <1>3, <1>5 DEF Difieren
<1>10. ASSUME NEW m \in Nat, NEW p \in Int, NEW q \in Int, NEW u \in Int, NEW v \in Int,
              a * m <= p - k * q, p - k * q <= b * m, a <= u - k * v, u - k * v <= b
       PROVE  /\ a * (m + 1) <= (u + p) - k * (v + q)
              /\ (u + p) - k * (v + q) <= b * (m + 1)
  <2>1. k * (v + q) = k * v + k * q /\ k * v \in Int /\ k * q \in Int
    OBVIOUS
  <2>2. /\ a * (m + 1) = a * m + a /\ a * m \in Int
        /\ b * (m + 1) = b * m + b /\ b * m \in Int
    OBVIOUS
  <2>3. QED
    BY <1>10, <2>1, <2>2
<1> HIDE DEF U, x
<1>11. Bien(T)
  BY <1>5, <1>6, <1>7, <1>8, <1>9, <1>10
<1>12. QED
  BY <1>3, <1>11
=============================================================================
