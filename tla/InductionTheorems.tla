------------------------- MODULE InductionTheorems -------------------------
(***************************************************************************)
(* Induction for the proofs of this project, and what it proves: sums of   *)
(* the values of a function over a finite set (SumFunctionOnSet of the     *)
(* module Functions, which the pool's ledger is stated with) do not depend *)
(* on the order CHOOSE takes the elements in.                              *)
(*                                                                         *)
(* Induction is stated with the set of the numbers, or of the subsets of a *)
(* finite set, that have the property proved, so that no lemma takes an    *)
(* operator as a parameter.                                                *)
(***************************************************************************)
EXTENDS Integers, FiniteSets, Functions, FiniteSetTheorems, TLAPS

\* The element a sum takes first.
Pick(s) == CHOOSE x \in s : TRUE

\* The function g gives every subset of S its sum.
SumsOn(f, S, g) ==
  g = [s \in SUBSET S |-> IF s = {} THEN 0 ELSE f[Pick(s)] + g[s \ {Pick(s)}]]

\* A set of natural numbers that has a member has a least one.
LEMMA LeastNumber ==
  ASSUME NEW T, T \subseteq Nat, T # {}
  PROVE  \E n \in T : \A m \in T : n <= m
  <1>1. \E n \in T : \A m \in T : ~(<<m, n>> \in OpToRel(<, Nat))
    BY NatLessThanWellFounded, WFMin
  <1>2. PICK n \in T : \A m \in T : ~(<<m, n>> \in OpToRel(<, Nat))
    BY <1>1
  <1>3. ASSUME NEW m \in T PROVE n <= m
    <2>1. m \in Nat /\ n \in Nat
      OBVIOUS
    <2>2. <<m, n>> \in Nat \X Nat /\ ~(<<m, n>> \in OpToRel(<, Nat))
      BY <1>2, <2>1
    <2>3. ~(m < n)
      BY <2>2 DEF OpToRel
    <2>4. QED
      BY <2>1, <2>3
  <1>4. QED
    BY <1>3

\* Induction from 0 up to n.
LEMMA UpwardInduction ==
  ASSUME NEW n \in Nat, NEW F, 0 \in F, \A i \in 0 .. n - 1 : i \in F => i + 1 \in F
  PROVE  \A i \in 0 .. n : i \in F
  <1> DEFINE Bad == {i \in 0 .. n : i \notin F}
  <1>1. SUFFICES ASSUME Bad # {} PROVE FALSE
    OBVIOUS
  <1>2. PICK i \in Bad : \A j \in Bad : i <= j
    <2>1. Bad \subseteq Nat
      OBVIOUS
    <2> HIDE DEF Bad
    <2>2. QED
      BY <1>1, <2>1, LeastNumber
  <1>3. i # 0 /\ i \in 0 .. n
    OBVIOUS
  <1>4. i - 1 \in 0 .. n - 1 /\ i - 1 \in 0 .. n /\ (i - 1) + 1 = i /\ ~(i <= i - 1)
    BY <1>3
  <1>5. i - 1 \in F
    BY <1>2, <1>4
  <1>6. QED
    BY <1>4, <1>5

\* Induction from n down to 0.
LEMMA DownwardInduction ==
  ASSUME NEW n \in Nat, NEW F, n \in F, \A i \in 0 .. n - 1 : i + 1 \in F => i \in F
  PROVE  \A i \in 0 .. n : i \in F
  <1> DEFINE G == {m \in 0 .. n : n - m \in F}
  <1>1. 0 \in G
    OBVIOUS
  <1>2. ASSUME NEW m \in 0 .. n - 1, m \in G PROVE m + 1 \in G
    <2>1. n - (m + 1) \in 0 .. n - 1 /\ (n - (m + 1)) + 1 = n - m /\ m + 1 \in 0 .. n
      OBVIOUS
    <2>2. n - m \in F
      BY <1>2
    <2>3. n - (m + 1) \in F
      BY <2>1, <2>2
    <2>4. QED
      BY <2>1, <2>3
  <1> HIDE DEF G
  <1>3. \A m \in 0 .. n : m \in G
    BY <1>1, <1>2, UpwardInduction
  <1>4. ASSUME NEW i \in 0 .. n PROVE i \in F
    <2>1. n - i \in 0 .. n /\ n - (n - i) = i
      OBVIOUS
    <2>2. QED
      BY <1>3, <2>1 DEF G
  <1>5. QED
    BY <1>4

\* Strong induction over the subsets of a finite set: a property that every
\* subset has as soon as its proper subsets have it is one all of them have.
LEMMA SubsetInduction ==
  ASSUME NEW S, IsFiniteSet(S), NEW F,
         \A T \in SUBSET S : (\A U \in SUBSET T : U # T => U \in F) => T \in F
  PROVE  \A T \in SUBSET S : T \in F
  <1> DEFINE Bad == {T \in SUBSET S : T \notin F}
             Sizes == {n \in Nat : \E T \in Bad : Cardinality(T) = n}
  <1>1. SUFFICES ASSUME Bad # {} PROVE FALSE
    OBVIOUS
  <1>2. \A T \in SUBSET S : IsFiniteSet(T) /\ Cardinality(T) \in Nat
    BY FS_Subset, FS_CardinalityType
  <1>3. Sizes # {} /\ Sizes \subseteq Nat
    BY <1>1, <1>2
  <1>4. PICK n \in Sizes : \A m \in Sizes : n <= m
    <2> HIDE DEF Sizes
    <2>1. QED
      BY <1>3, LeastNumber
  <1>5. PICK T \in Bad : Cardinality(T) = n
    BY <1>4
  <1>6. ASSUME NEW U \in SUBSET T, U # T PROVE U \in F
    <2>1. Cardinality(U) <= Cardinality(T) /\ Cardinality(U) # Cardinality(T)
      BY <1>2, <1>5, <1>6, FS_Subset
    <2>2. Cardinality(U) \in Nat /\ Cardinality(T) \in Nat /\ U \in SUBSET S
      BY <1>2, <1>5
    <2>3. Cardinality(U) < n
      BY <1>5, <2>1, <2>2
    <2>4. Cardinality(U) \notin Sizes
      BY <1>3, <1>4, <2>2, <2>3
    <2>5. QED
      BY <2>2, <2>4
  <1>7. QED
    BY <1>5, <1>6

\* The recursive function inside SumFunctionOnSet.
LEMMA SumChoice ==
  ASSUME NEW f, NEW S
  PROVE  SumFunctionOnSet(f, S) = (CHOOSE g : SumsOn(f, S, g))[S]
  BY DEF SumFunctionOnSet, FoldFunctionOnSet, MapThenFoldSet, SumsOn, Pick

\* Two functions that meet the recursion give every subset the same sum.
LEMMA SumsUnique ==
  ASSUME NEW f, NEW S, IsFiniteSet(S), NEW g, NEW h, SumsOn(f, S, g), SumsOn(f, S, h)
  PROVE  \A T \in SUBSET S : g[T] = h[T]
  <1> DEFINE Same == {T \in SUBSET S : g[T] = h[T]}
  <1>1. ASSUME NEW T \in SUBSET S, \A U \in SUBSET T : U # T => U \in Same
        PROVE  T \in Same
    <2>1. CASE T = {}
      <3>1. g[T] = 0 /\ h[T] = 0
        BY <2>1 DEF SumsOn
      <3>2. QED
        BY <3>1
    <2>2. CASE T # {}
      <3>1. Pick(T) \in T
        BY <2>2 DEF Pick
      <3>2. T \ {Pick(T)} \in Same
        BY <1>1, <3>1
      <3>3. /\ g[T] = f[Pick(T)] + g[T \ {Pick(T)}]
            /\ h[T] = f[Pick(T)] + h[T \ {Pick(T)}]
        BY <2>2 DEF SumsOn
      <3>4. QED
        BY <3>2, <3>3
    <2>3. QED
      BY <2>1, <2>2
  <1>2. \A T \in SUBSET S : T \in Same
    <2> HIDE DEF Same
    <2>1. QED
      BY <1>1, SubsetInduction
  <1>3. QED
    BY <1>2

(***************************************************************************)
(* The recursion a sum obeys: nothing sums to 0, and a set sums to the     *)
(* value of the element taken first and the sum of the others.             *)
(***************************************************************************)
LEMMA SumRecursion ==
  ASSUME NEW f, NEW S, IsFiniteSet(S)
  PROVE  SumFunctionOnSet(f, S)
           = IF S = {} THEN 0 ELSE f[Pick(S)] + SumFunctionOnSet(f, S \ {Pick(S)})
  <1> DEFINE Step(T) == IF T = {} THEN 0
                        ELSE f[Pick(T)] + SumFunctionOnSet(f, T \ {Pick(T)})
             Meets == {T \in SUBSET S : SumFunctionOnSet(f, T) = Step(T)}
  <1>1. ASSUME NEW T \in SUBSET S, \A U \in SUBSET T : U # T => U \in Meets
        PROVE  T \in Meets
    <2> DEFINE g == [s \in SUBSET T |-> Step(s)]
               h == CHOOSE sums : SumsOn(f, T, sums)
    <2>1. ASSUME NEW s \in SUBSET T, s # {}
          PROVE  Step(s) = f[Pick(s)] + g[s \ {Pick(s)}]
      <3>1. Pick(s) \in s
        BY <2>1 DEF Pick
      <3>2. s \ {Pick(s)} \in SUBSET T /\ s \ {Pick(s)} # T
        BY <3>1
      <3>3. s \ {Pick(s)} \in Meets
        BY <1>1, <3>2
      <3>4. SumFunctionOnSet(f, s \ {Pick(s)}) = g[s \ {Pick(s)}]
        BY <3>2, <3>3
      <3>5. QED
        BY <2>1, <3>4
    <2>2. SumsOn(f, T, g)
      <3>1. \A s \in SUBSET T : Step(s) = IF s = {} THEN 0 ELSE f[Pick(s)] + g[s \ {Pick(s)}]
        BY <2>1
      <3>2. QED
        BY <3>1 DEF SumsOn
    <2>3. SumsOn(f, T, h)
      BY <2>2
    <2>4. IsFiniteSet(T)
      BY FS_Subset
    <2>5. g[T] = h[T]
      <3> HIDE DEF g, h
      <3>1. QED
        BY <2>2, <2>3, <2>4, SumsUnique
    <2>6. SumFunctionOnSet(f, T) = h[T]
      BY SumChoice
    <2>7. QED
      BY <2>5, <2>6
  <1>2. \A T \in SUBSET S : T \in Meets
    <2> HIDE DEF Meets
    <2>1. QED
      BY <1>1, SubsetInduction
  <1>3. QED
    BY <1>2

\* A sum of integers is an integer.
LEMMA SumType ==
  ASSUME NEW S, IsFiniteSet(S), NEW f, \A x \in S : f[x] \in Int
  PROVE  SumFunctionOnSet(f, S) \in Int
  <1> DEFINE Typed == {T \in SUBSET S : SumFunctionOnSet(f, T) \in Int}
  <1>1. ASSUME NEW T \in SUBSET S, \A U \in SUBSET T : U # T => U \in Typed
        PROVE  T \in Typed
    <2>1. IsFiniteSet(T)
      BY FS_Subset
    <2>2. CASE T = {}
      <3>1. SumFunctionOnSet(f, T) = 0
        BY <2>1, <2>2, SumRecursion
      <3>2. QED
        BY <3>1
    <2>3. CASE T # {}
      <3>1. Pick(T) \in T
        BY <2>3 DEF Pick
      <3>2. T \ {Pick(T)} \in Typed
        BY <1>1, <3>1
      <3>3. SumFunctionOnSet(f, T) = f[Pick(T)] + SumFunctionOnSet(f, T \ {Pick(T)})
        BY <2>1, <2>3, SumRecursion
      <3>4. QED
        BY <3>1, <3>2, <3>3
    <2>4. QED
      BY <2>2, <2>3
  <1>2. \A T \in SUBSET S : T \in Typed
    <2> HIDE DEF Typed
    <2>1. QED
      BY <1>1, SubsetInduction
  <1>3. QED
    BY <1>2

(***************************************************************************)
(* Any element may be taken first.                                         *)
(***************************************************************************)
LEMMA SumTakesOut ==
  ASSUME NEW S, IsFiniteSet(S), NEW f, \A x \in S : f[x] \in Int, NEW x \in S
  PROVE  SumFunctionOnSet(f, S) = f[x] + SumFunctionOnSet(f, S \ {x})
  <1> DEFINE Free == {T \in SUBSET S :
                        \A y \in T : SumFunctionOnSet(f, T) = f[y] + SumFunctionOnSet(f, T \ {y})}
  <1>1. ASSUME NEW T \in SUBSET S, \A U \in SUBSET T : U # T => U \in Free, NEW y \in T
        PROVE  SumFunctionOnSet(f, T) = f[y] + SumFunctionOnSet(f, T \ {y})
    <2> DEFINE c == Pick(T)
    <2>1. IsFiniteSet(T) /\ c \in T
      BY FS_Subset DEF Pick
    <2>2. SumFunctionOnSet(f, T) = f[c] + SumFunctionOnSet(f, T \ {c})
      BY <2>1, SumRecursion
    <2> HIDE DEF c
    <2>3. CASE y # c
      <3>1. SumFunctionOnSet(f, T \ {c}) = f[y] + SumFunctionOnSet(f, (T \ {c}) \ {y})
        BY <1>1, <2>1, <2>3
      <3>2. SumFunctionOnSet(f, T \ {y}) = f[c] + SumFunctionOnSet(f, (T \ {y}) \ {c})
        BY <1>1, <2>1, <2>3
      <3>3. (T \ {c}) \ {y} = (T \ {y}) \ {c}
        OBVIOUS
      <3>4. IsFiniteSet((T \ {y}) \ {c}) /\ (T \ {y}) \ {c} \subseteq S
        BY <2>1, FS_RemoveElement
      <3>5. SumFunctionOnSet(f, (T \ {y}) \ {c}) \in Int
        BY <3>4, SumType
      <3>6. f[y] \in Int /\ f[c] \in Int
        BY <2>1
      <3>7. SumFunctionOnSet(f, T) = f[c] + (f[y] + SumFunctionOnSet(f, (T \ {y}) \ {c}))
        BY <2>2, <3>1, <3>3
      <3>8. QED
        BY <3>2, <3>5, <3>6, <3>7
    <2>4. QED
      BY <2>2, <2>3
  <1>2. \A T \in SUBSET S : T \in Free
    <2>1. ASSUME NEW T \in SUBSET S, \A U \in SUBSET T : U # T => U \in Free
          PROVE  T \in Free
      BY <1>1, <2>1
    <2> HIDE DEF Free
    <2>2. QED
      BY <2>1, SubsetInduction
  <1>3. QED
    BY <1>2

LEMMA SumOfNothing ==
  ASSUME NEW f
  PROVE  SumFunctionOnSet(f, {}) = 0
  BY FS_EmptySet, SumRecursion

\* One element more adds its value.
LEMMA SumAddsElement ==
  ASSUME NEW S, IsFiniteSet(S), NEW x, x \notin S, NEW f, \A y \in S \cup {x} : f[y] \in Int
  PROVE  SumFunctionOnSet(f, S \cup {x}) = f[x] + SumFunctionOnSet(f, S)
  <1>1. IsFiniteSet(S \cup {x}) /\ x \in S \cup {x} /\ (S \cup {x}) \ {x} = S
    BY FS_AddElement
  <1>2. QED
    BY <1>1, SumTakesOut

\* Only the values on the set count.
LEMMA SumCongruence ==
  ASSUME NEW S, IsFiniteSet(S), NEW f, NEW g, \A x \in S : f[x] = g[x]
  PROVE  SumFunctionOnSet(f, S) = SumFunctionOnSet(g, S)
  <1> DEFINE Same == {T \in SUBSET S : SumFunctionOnSet(f, T) = SumFunctionOnSet(g, T)}
  <1>1. ASSUME NEW T \in SUBSET S, \A U \in SUBSET T : U # T => U \in Same
        PROVE  T \in Same
    <2>1. IsFiniteSet(T)
      BY FS_Subset
    <2>2. CASE T = {}
      BY <2>2, SumOfNothing
    <2>3. CASE T # {}
      <3>1. Pick(T) \in T
        BY <2>3 DEF Pick
      <3>2. T \ {Pick(T)} \in Same
        BY <1>1, <3>1
      <3>3. /\ SumFunctionOnSet(f, T) = f[Pick(T)] + SumFunctionOnSet(f, T \ {Pick(T)})
            /\ SumFunctionOnSet(g, T) = g[Pick(T)] + SumFunctionOnSet(g, T \ {Pick(T)})
        BY <2>1, <2>3, SumRecursion
      <3>4. QED
        BY <3>1, <3>2, <3>3
    <2>4. QED
      BY <2>2, <2>3
  <1>2. \A T \in SUBSET S : T \in Same
    <2> HIDE DEF Same
    <2>1. QED
      BY <1>1, SubsetInduction
  <1>3. QED
    BY <1>2

\* The sum of the union of two sets with no common element.
LEMMA SumOfUnion ==
  ASSUME NEW A, IsFiniteSet(A), NEW B, IsFiniteSet(B), A \cap B = {},
         NEW f, \A x \in A \cup B : f[x] \in Int
  PROVE  SumFunctionOnSet(f, A \cup B) = SumFunctionOnSet(f, A) + SumFunctionOnSet(f, B)
  <1> DEFINE Splits == {T \in SUBSET B : SumFunctionOnSet(f, A \cup T)
                                           = SumFunctionOnSet(f, A) + SumFunctionOnSet(f, T)}
  <1>1. ASSUME NEW T \in SUBSET B, \A U \in SUBSET T : U # T => U \in Splits
        PROVE  T \in Splits
    <2>0. SumFunctionOnSet(f, A) \in Int
      BY SumType
    <2>1. CASE T = {}
      <3>1. A \cup T = A
        BY <2>1
      <3>2. SumFunctionOnSet(f, T) = 0
        BY <2>1, SumOfNothing
      <3>3. QED
        BY <2>0, <3>1, <3>2
    <2>2. CASE T # {}
      <3>1. PICK x \in T : TRUE
        BY <2>2
      <3>2. /\ IsFiniteSet(T \ {x}) /\ IsFiniteSet(A \cup (T \ {x}))
        <4>1. IsFiniteSet(T)
          BY FS_Subset
        <4>2. IsFiniteSet(T \ {x})
          BY <4>1, FS_RemoveElement
        <4>3. QED
          BY <4>2, FS_Union
      <3>3. T \ {x} \in Splits
        BY <1>1, <3>1
      <3>4. (T \ {x}) \cup {x} = T /\ (A \cup (T \ {x})) \cup {x} = A \cup T
        BY <3>1
      <3>5. x \notin T \ {x} /\ x \notin A \cup (T \ {x})
        BY <3>1
      <3>6. SumFunctionOnSet(f, T) = f[x] + SumFunctionOnSet(f, T \ {x})
        <4>1. \A y \in (T \ {x}) \cup {x} : f[y] \in Int
          BY <3>4
        <4>2. QED
          BY <3>2, <3>4, <3>5, <4>1, SumAddsElement
      <3>7. SumFunctionOnSet(f, A \cup T) = f[x] + SumFunctionOnSet(f, A \cup (T \ {x}))
        <4>1. \A y \in (A \cup (T \ {x})) \cup {x} : f[y] \in Int
          BY <3>4
        <4>2. QED
          BY <3>2, <3>4, <3>5, <4>1, SumAddsElement
      <3>8. f[x] \in Int /\ SumFunctionOnSet(f, T \ {x}) \in Int
        <4>1. \A y \in T \ {x} : f[y] \in Int
          OBVIOUS
        <4>2. QED
          BY <3>1, <3>2, <4>1, SumType
      <3>9. SumFunctionOnSet(f, A \cup (T \ {x}))
              = SumFunctionOnSet(f, A) + SumFunctionOnSet(f, T \ {x})
        BY <3>3
      <3>10. SumFunctionOnSet(f, A \cup T) = SumFunctionOnSet(f, A) + SumFunctionOnSet(f, T)
        BY <2>0, <3>6, <3>7, <3>8, <3>9
      <3>11. QED
        BY <3>10
    <2>3. QED
      BY <2>1, <2>2
  <1>2. \A T \in SUBSET B : T \in Splits
    <2> HIDE DEF Splits
    <2>1. QED
      BY <1>1, SubsetInduction
  <1>3. QED
    BY <1>2

\* A sum of natural numbers is a natural number.
LEMMA SumNat ==
  ASSUME NEW S, IsFiniteSet(S), NEW f, \A x \in S : f[x] \in Nat
  PROVE  SumFunctionOnSet(f, S) \in Nat
  <1> DEFINE Typed == {T \in SUBSET S : SumFunctionOnSet(f, T) \in Nat}
  <1>1. ASSUME NEW T \in SUBSET S, \A U \in SUBSET T : U # T => U \in Typed
        PROVE  T \in Typed
    <2>1. IsFiniteSet(T)
      BY FS_Subset
    <2>2. CASE T = {}
      <3>1. SumFunctionOnSet(f, T) = 0
        BY <2>1, <2>2, SumRecursion
      <3>2. QED
        BY <3>1
    <2>3. CASE T # {}
      <3>1. Pick(T) \in T
        BY <2>3 DEF Pick
      <3>2. T \ {Pick(T)} \in Typed
        BY <1>1, <3>1
      <3>3. SumFunctionOnSet(f, T) = f[Pick(T)] + SumFunctionOnSet(f, T \ {Pick(T)})
        BY <2>1, <2>3, SumRecursion
      <3>4. QED
        BY <3>1, <3>2, <3>3
    <2>4. QED
      BY <2>2, <2>3
  <1>2. \A T \in SUBSET S : T \in Typed
    <2> HIDE DEF Typed
    <2>1. QED
      BY <1>1, SubsetInduction
  <1>3. QED
    BY <1>2

\* No value is larger than the sum it is part of.
LEMMA SumBoundsElement ==
  ASSUME NEW S, IsFiniteSet(S), NEW f, \A x \in S : f[x] \in Nat, NEW x \in S
  PROVE  f[x] <= SumFunctionOnSet(f, S)
  <1>1. IsFiniteSet(S \ {x})
    BY FS_RemoveElement
  <1>2. SumFunctionOnSet(f, S \ {x}) \in Nat
    BY <1>1, SumNat
  <1>3. SumFunctionOnSet(f, S) = f[x] + SumFunctionOnSet(f, S \ {x})
    BY SumTakesOut
  <1>4. QED
    BY <1>2, <1>3

(***************************************************************************)
(* Sorted into the classes of K, a set has the sum of the sums of its      *)
(* classes.                                                                *)
(***************************************************************************)
LEMMA SumByClass ==
  ASSUME NEW S, IsFiniteSet(S), NEW K, IsFiniteSet(K),
         NEW f, \A x \in S : f[x] \in Int, NEW class, \A x \in S : class[x] \in K,
         NEW part, \A k \in K : part[k] \subseteq S,
         \A k \in K : \A x \in S : x \in part[k] <=> class[x] = k,
         NEW h, \A k \in K : h[k] = SumFunctionOnSet(f, part[k])
  PROVE  SumFunctionOnSet(h, K) = SumFunctionOnSet(f, S)
  <1> DEFINE Of(T) == {x \in S : class[x] \in T}
             Sorted == {T \in SUBSET K : SumFunctionOnSet(h, T) = SumFunctionOnSet(f, Of(T))}
  <1>0. ASSUME NEW P \in SUBSET S
        PROVE  IsFiniteSet(P) /\ SumFunctionOnSet(f, P) \in Int
    <2>1. IsFiniteSet(P)
      BY FS_Subset
    <2>2. \A x \in P : f[x] \in Int
      OBVIOUS
    <2>3. QED
      BY <2>1, <2>2, SumType
  <1>1. ASSUME NEW T \in SUBSET K, \A U \in SUBSET T : U # T => U \in Sorted
        PROVE  T \in Sorted
    <2>1. CASE T = {}
      <3>1. Of(T) = {}
        BY <2>1
      <3>2. SumFunctionOnSet(h, T) = 0 /\ SumFunctionOnSet(f, Of(T)) = 0
        BY <2>1, <3>1, SumOfNothing
      <3>3. QED
        BY <3>2
    <2>2. CASE T # {}
      <3>1. PICK k \in T : TRUE
        BY <2>2
      <3> DEFINE rest == T \ {k}
                 own == part[k]
      <3>2. IsFiniteSet(T) /\ IsFiniteSet(rest)
        BY FS_Subset, FS_RemoveElement
      <3>3. rest \in Sorted
        BY <1>1, <3>1
      <3>4. \A j \in T : h[j] \in Int
        <4>1. ASSUME NEW j \in T PROVE h[j] \in Int
          <5>1. h[j] = SumFunctionOnSet(f, part[j])
            OBVIOUS
          <5>2. part[j] \in SUBSET S
            OBVIOUS
          <5>3. QED
            BY <1>0, <5>1, <5>2
        <4>2. QED
          BY <4>1
      <3>5. SumFunctionOnSet(h, T) = h[k] + SumFunctionOnSet(h, rest)
        BY <3>1, <3>2, <3>4, SumTakesOut
      <3>6. Of(T) = own \cup Of(rest) /\ own \cap Of(rest) = {}
        BY <3>1
      <3>7. SumFunctionOnSet(f, Of(T)) = SumFunctionOnSet(f, own) + SumFunctionOnSet(f, Of(rest))
        <4>1. own \in SUBSET S /\ Of(rest) \in SUBSET S
          OBVIOUS
        <4>2. IsFiniteSet(own) /\ IsFiniteSet(Of(rest))
          BY <1>0, <4>1
        <4>3. \A x \in own \cup Of(rest) : f[x] \in Int
          BY <4>1
        <4>4. own \cap Of(rest) = {}
          BY <3>6
        <4> HIDE DEF own, Of, rest
        <4>5. SumFunctionOnSet(f, own \cup Of(rest))
                = SumFunctionOnSet(f, own) + SumFunctionOnSet(f, Of(rest))
          BY <4>2, <4>3, <4>4, SumOfUnion
        <4>6. QED
          BY <3>6, <4>5
      <3>8. h[k] = SumFunctionOnSet(f, own)
        BY <3>1
      <3>9. SumFunctionOnSet(h, rest) = SumFunctionOnSet(f, Of(rest))
        BY <3>3
      <3>10. QED
        BY <3>5, <3>7, <3>8, <3>9
    <2>3. QED
      BY <2>1, <2>2
  <1>2. \A T \in SUBSET K : T \in Sorted
    <2> HIDE DEF Sorted
    <2>1. QED
      BY <1>1, SubsetInduction
  <1>3. Of(K) = S
    OBVIOUS
  <1>4. QED
    BY <1>2, <1>3

\* Zeros sum to zero.
LEMMA SumOfZeros ==
  ASSUME NEW S, IsFiniteSet(S), NEW f, \A x \in S : f[x] = 0
  PROVE  SumFunctionOnSet(f, S) = 0
  <1> DEFINE Null == {T \in SUBSET S : SumFunctionOnSet(f, T) = 0}
  <1>1. ASSUME NEW T \in SUBSET S, \A U \in SUBSET T : U # T => U \in Null
        PROVE  T \in Null
    <2>1. CASE T = {}
      BY <2>1, SumOfNothing
    <2>2. CASE T # {}
      <3>1. Pick(T) \in T /\ IsFiniteSet(T)
        BY <2>2, FS_Subset DEF Pick
      <3>2. T \ {Pick(T)} \in Null
        BY <1>1, <3>1
      <3>3. SumFunctionOnSet(f, T) = f[Pick(T)] + SumFunctionOnSet(f, T \ {Pick(T)})
        BY <2>2, <3>1, SumRecursion
      <3>4. QED
        BY <3>1, <3>2, <3>3
    <2>3. QED
      BY <2>1, <2>2
  <1>2. \A T \in SUBSET S : T \in Null
    <2> HIDE DEF Null
    <2>1. QED
      BY <1>1, SubsetInduction
  <1>3. QED
    BY <1>2

\* Elements of value zero may be left out of a sum.
LEMMA SumOfSupport ==
  ASSUME NEW S, IsFiniteSet(S), NEW T \in SUBSET S, NEW f, \A x \in T : f[x] \in Int,
         NEW g, \A x \in T : g[x] = f[x], \A x \in S \ T : g[x] = 0
  PROVE  SumFunctionOnSet(g, S) = SumFunctionOnSet(f, T)
  <1> DEFINE Rest == S \ T
  <1>1. T \cap Rest = {} /\ T \cup Rest = S /\ Rest \in SUBSET S
    OBVIOUS
  <1>2. IsFiniteSet(T) /\ IsFiniteSet(Rest)
    BY <1>1, FS_Subset
  <1>3. \A x \in T \cup Rest : g[x] \in Int
    OBVIOUS
  <1>4. \A x \in Rest : g[x] = 0
    OBVIOUS
  <1> HIDE DEF Rest
  <1>5. SumFunctionOnSet(g, T \cup Rest) = SumFunctionOnSet(g, T) + SumFunctionOnSet(g, Rest)
    BY <1>1, <1>2, <1>3, SumOfUnion
  <1>6. SumFunctionOnSet(g, T) = SumFunctionOnSet(f, T)
    BY <1>2, SumCongruence
  <1>7. SumFunctionOnSet(g, Rest) = 0 /\ SumFunctionOnSet(f, T) \in Int
    BY <1>2, <1>4, SumOfZeros, SumType
  <1>8. QED
    BY <1>1, <1>5, <1>6, <1>7

\* One value set to zero takes that value off the sum.
LEMMA SumWithout ==
  ASSUME NEW S, IsFiniteSet(S), NEW f, \A x \in S : f[x] \in Int, NEW x \in S,
         NEW g, g[x] = 0, \A y \in S : y # x => g[y] = f[y]
  PROVE  SumFunctionOnSet(g, S) = SumFunctionOnSet(f, S) - f[x]
  <1>1. IsFiniteSet(S \ {x})
    BY FS_RemoveElement
  <1>2. SumFunctionOnSet(g, S) = g[x] + SumFunctionOnSet(g, S \ {x})
    <2>1. \A y \in S : g[y] \in Int
      OBVIOUS
    <2>2. QED
      BY <2>1, SumTakesOut
  <1>3. SumFunctionOnSet(f, S) = f[x] + SumFunctionOnSet(f, S \ {x})
    BY SumTakesOut
  <1>4. SumFunctionOnSet(g, S \ {x}) = SumFunctionOnSet(f, S \ {x})
    <2>1. \A y \in S \ {x} : g[y] = f[y]
      OBVIOUS
    <2>2. QED
      BY <1>1, <2>1, SumCongruence
  <1>5. SumFunctionOnSet(f, S \ {x}) \in Int
    <2>1. \A y \in S \ {x} : f[y] \in Int
      OBVIOUS
    <2>2. QED
      BY <1>1, <2>1, SumType
  <1>6. QED
    BY <1>2, <1>3, <1>4, <1>5

\* A part of a set of natural values has no larger sum.
LEMMA SumOfPart ==
  ASSUME NEW S, IsFiniteSet(S), NEW T \in SUBSET S, NEW f, \A x \in S : f[x] \in Nat
  PROVE  SumFunctionOnSet(f, T) <= SumFunctionOnSet(f, S)
  <1> DEFINE Rest == S \ T
  <1>1. T \cap Rest = {} /\ T \cup Rest = S /\ Rest \in SUBSET S
    OBVIOUS
  <1>2. IsFiniteSet(T) /\ IsFiniteSet(Rest)
    BY <1>1, FS_Subset
  <1> HIDE DEF Rest
  <1>3. SumFunctionOnSet(f, T \cup Rest) = SumFunctionOnSet(f, T) + SumFunctionOnSet(f, Rest)
    <2>1. \A x \in T \cup Rest : f[x] \in Int
      BY <1>1
    <2>2. QED
      BY <1>1, <1>2, <2>1, SumOfUnion
  <1>4. SumFunctionOnSet(f, T) \in Nat /\ SumFunctionOnSet(f, Rest) \in Nat
    <2>1. \A x \in Rest : f[x] \in Nat
      BY <1>1
    <2>2. QED
      BY <1>2, <2>1, SumNat
  <1>5. SumFunctionOnSet(f, S) = SumFunctionOnSet(f, T) + SumFunctionOnSet(f, Rest)
    BY <1>1, <1>3
  <1>6. QED
    BY <1>4, <1>5
---------------------------------------------------------------------------
(***************************************************************************)
(* Powers of two, counted as the subsets of 1 .. n: those with n + 1 are   *)
(* as many as those without.                                               *)
(***************************************************************************)
LEMMA PowersDouble ==
  ASSUME NEW n \in Nat
  PROVE  2 ^ n \in Nat \ {0} /\ 2 ^ (n + 1) = 2 * 2 ^ n
  <1> DEFINE A == SUBSET (1 .. n)
             B == {T \cup {n + 1} : T \in A}
             f == [T \in A |-> T \cup {n + 1}]
  <1>1. /\ IsFiniteSet(1 .. n) /\ Cardinality(1 .. n) = n
        /\ IsFiniteSet(1 .. n + 1) /\ Cardinality(1 .. n + 1) = n + 1
    <2>1. 1 \in Int /\ n \in Int /\ n + 1 \in Int
      OBVIOUS
    <2>2. QED
      BY <2>1, FS_Interval
  <1>2. IsFiniteSet(A) /\ Cardinality(A) = 2 ^ n
    BY <1>1, FS_SUBSET
  <1>3. IsFiniteSet(SUBSET (1 .. n + 1)) /\ Cardinality(SUBSET (1 .. n + 1)) = 2 ^ (n + 1)
    BY <1>1, FS_SUBSET
  <1>4. \A T \in A : n + 1 \notin T
    OBVIOUS
  <1>5. f \in Bijection(A, B)
    <2>1. f \in Injection(A, B)
      <3>1. ASSUME NEW T \in A, NEW U \in A, T \cup {n + 1} = U \cup {n + 1} PROVE T = U
        <4>1. T = (T \cup {n + 1}) \ {n + 1} /\ U = (U \cup {n + 1}) \ {n + 1}
          BY <1>4
        <4>2. QED
          BY <3>1, <4>1
      <3>2. f \in [A -> B] /\ \A T \in A : f[T] = T \cup {n + 1}
        OBVIOUS
      <3> HIDE DEF f, A, B
      <3>3. \A T, U \in DOMAIN f : f[T] = f[U] => T = U
        BY <3>1, <3>2
      <3>4. QED
        BY <3>2, <3>3 DEF Injection, IsInjective
    <2>2. f \in Surjection(A, B)
      BY DEF Surjection
    <2>3. QED
      BY <2>1, <2>2 DEF Bijection
  <1>6. IsFiniteSet(B) /\ Cardinality(B) = 2 ^ n
    BY <1>2, <1>5, FS_Bijection DEF ExistsBijection
  <1>7. A \cap B = {}
    BY <1>4
  <1>8. A \cup B = SUBSET (1 .. n + 1)
    <2>1. ASSUME NEW T \in SUBSET (1 .. n + 1) PROVE T \in A \cup B
      <3>1. T \ {n + 1} \in A
        OBVIOUS
      <3>2. n + 1 \in T => T = (T \ {n + 1}) \cup {n + 1}
        OBVIOUS
      <3>3. n + 1 \notin T => T = T \ {n + 1}
        OBVIOUS
      <3>4. QED
        BY <3>1, <3>2, <3>3
    <2>2. ASSUME NEW T \in A PROVE T \in SUBSET (1 .. n + 1) /\ T \cup {n + 1} \in SUBSET (1 .. n + 1)
      <3>1. 1 .. n \subseteq 1 .. n + 1 /\ n + 1 \in 1 .. n + 1
        OBVIOUS
      <3>2. QED
        BY <3>1
    <2>3. A \cup B \subseteq SUBSET (1 .. n + 1)
      <3>1. A \subseteq SUBSET (1 .. n + 1)
        BY <2>2
      <3>2. ASSUME NEW U \in B PROVE U \in SUBSET (1 .. n + 1)
        <4>1. PICK T \in A : U = T \cup {n + 1}
          OBVIOUS
        <4>2. QED
          BY <2>2, <4>1
      <3>3. QED
        BY <3>1, <3>2
    <2>4. SUBSET (1 .. n + 1) \subseteq A \cup B
      BY <2>1
    <2>5. QED
      BY <2>3, <2>4
  <1> HIDE DEF A, B
  <1>9. Cardinality(A \cup B) = Cardinality(A) + Cardinality(B) - Cardinality(A \cap B)
    BY <1>2, <1>6, FS_Union
  <1>10. Cardinality({}) = 0 /\ 2 ^ n \in Nat
    BY <1>2, FS_EmptySet, FS_CardinalityType
  <1>11. 2 ^ (n + 1) = 2 ^ n + 2 ^ n
    <2>1. Cardinality(A \cup B) = 2 ^ n + 2 ^ n - 0
      BY <1>2, <1>6, <1>7, <1>9, <1>10
    <2>2. Cardinality(A \cup B) = 2 ^ (n + 1)
      BY <1>3, <1>8
    <2>3. QED
      BY <1>10, <2>1, <2>2
  <1>12. 2 ^ n # 0
    <2>1. {} \in A
      BY DEF A
    <2>2. A # {}
      BY <2>1
    <2>3. QED
      BY <1>2, <2>2, FS_EmptySet
  <1>13. QED
    BY <1>10, <1>11, <1>12

\* The division that drops one more bit.
LEMMA Halving ==
  ASSUME NEW P \in Nat \ {0}, NEW k \in Nat
  PROVE  k \div (2 * P) = (k \div P) \div 2
  <1>1. PICK a \in Nat : a = k \div P
    OBVIOUS
  <1>2. PICK b \in Nat : b = a \div 2
    OBVIOUS
  <1>3. a = 2 * b \/ a = 2 * b + 1
    BY <1>2
  <1>4. P * a <= k /\ k < P * a + P
    BY <1>1
  <1>5. PICK m \in Nat : m = P * b
    OBVIOUS
  <1>6. a = 2 * b => P * a = 2 * m
    BY <1>5
  <1>7. a = 2 * b + 1 => P * a = 2 * m + P
    BY <1>5
  <1>8. 2 * m <= k /\ k < 2 * m + 2 * P
    BY <1>3, <1>4, <1>6, <1>7
  <1>9. (2 * P) * b = 2 * m
    BY <1>5
  <1>10. PICK Q \in Nat \ {0} : Q = 2 * P
    OBVIOUS
  <1>11. Q * b <= k /\ k < Q * b + Q
    BY <1>8, <1>9, <1>10
  <1>12. k \div Q = b
    BY <1>11
  <1>13. QED
    BY <1>1, <1>2, <1>10, <1>12
=============================================================================
