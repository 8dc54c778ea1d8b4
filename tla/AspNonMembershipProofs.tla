----------------------- MODULE AspNonMembershipProofs -----------------------
(***************************************************************************)
(* The sparse Merkle trees, proved for every number of bits, every set of  *)
(* keys and values and every sequence of calls.  Of the ASP non-membership *)
(* contract: the root is the one tree of the entries, the store holds the  *)
(* whole of it, and absences can be proved.  Of the prover's tree, at the  *)
(* end: it arrives at the same tree, by another code path.                 *)
(***************************************************************************)
EXTENDS MCTrees, InductionTheorems, SequenceTheorems

---------------------------------------------------------------------------
(***************************************************************************)
(* Bits.                                                                   *)
(***************************************************************************)

AllKeys == 0 .. 2 ^ Bits - 1

\* The paths of two keys are one down to level i.
Agree(k, l, i) == \A j \in 0 .. i - 1 : Bit(k, j) = Bit(l, j)

LEMMA BitType ==
  ASSUME NEW k \in Nat, NEW i \in Nat
  PROVE  Bit(k, i) \in {0, 1} /\ k \div 2 ^ i \in Nat
  <1>1. PICK p \in Nat \ {0} : p = 2 ^ i
    BY PowersDouble
  <1>2. k \div p \in Nat
    OBVIOUS
  <1>3. QED
    BY <1>1, <1>2 DEF Bit

LEMMA KeysAreNat == AllKeys \subseteq Nat /\ Keys \subseteq AllKeys /\ Bits \in Nat
  BY BitsAssumption, SmtAssumption DEF AllKeys

\* Keys that agree on all bits are one key.
LEMMA BitsTell ==
  ASSUME NEW k \in AllKeys, NEW l \in AllKeys, Agree(k, l, Bits)
  PROVE  k = l
  <1> DEFINE F == {i \in 0 .. Bits : k \div 2 ^ i = l \div 2 ^ i}
  <1>1. k \in Nat /\ l \in Nat /\ Bits \in Nat
    BY KeysAreNat
  <1>2. Bits \in F
    <2>1. PICK p \in Nat \ {0} : p = 2 ^ Bits
      BY <1>1, PowersDouble
    <2>2. k < p /\ l < p
      BY <2>1 DEF AllKeys
    <2>3. k \div p = 0 /\ l \div p = 0
      BY <1>1, <2>2
    <2>4. QED
      BY <1>1, <2>1, <2>3
  <1>3. ASSUME NEW i \in 0 .. Bits - 1, i + 1 \in F PROVE i \in F
    <2>1. i \in Nat
      OBVIOUS
    <2>2. PICK p \in Nat \ {0} : p = 2 ^ i /\ 2 ^ (i + 1) = 2 * p
      BY <2>1, PowersDouble
    <2>3. PICK x \in Nat, y \in Nat : x = k \div p /\ y = l \div p
      BY <1>1
    <2>4. k \div (2 * p) = x \div 2 /\ l \div (2 * p) = y \div 2
      BY <1>1, <2>3, Halving
    <2>5. x \div 2 = y \div 2
      BY <1>3, <2>2, <2>4
    <2>6. x % 2 = y % 2
      BY <1>1, <2>2, <2>3 DEF Agree, Bit
    <2>7. x = y
      BY <2>5, <2>6
    <2>8. QED
      BY <1>1, <2>2, <2>3, <2>7
  <1> HIDE DEF F
  <1>4. \A i \in 0 .. Bits : i \in F
    BY <1>1, <1>2, <1>3, DownwardInduction
  <1>5. 0 \in F
    BY <1>1, <1>4
  <1>6. k \div 1 = l \div 1
    BY <1>5, PowersDouble DEF F
  <1>7. QED
    BY <1>1, <1>6

---------------------------------------------------------------------------
(***************************************************************************)
(* The tree of a set of entries.                                           *)
(***************************************************************************)

\* A level of Subtrees over the level below it.
Level(U, i, below) ==
  [S \in SUBSET U |->
     IF S = {} THEN Empty
     ELSE IF i = Bits \/ \E e \in S : S = {e}
       THEN LET e == CHOOSE x \in S : TRUE IN Leaf(e[1], e[2])
     ELSE <<below[{e \in S : Bit(e[1], i) = 0}], below[{e \in S : Bit(e[1], i) = 1}]>>]

LEMMA LastLevel == ASSUME NEW U, NEW f, NEW g PROVE Level(U, Bits, f) = Level(U, Bits, g)
  BY DEF Level

\* Subtrees is defined by recursion from level Bits up.
LEMMA SubtreesRecursion ==
  ASSUME NEW U
  PROVE  Subtrees(U) = [i \in 0 .. Bits |-> Level(U, i, Subtrees(U)[i + 1])]
  <1> DEFINE F == {m \in 0 .. Bits :
                     \E t : t = [i \in m .. Bits |-> Level(U, i, t[i + 1])]}
  <1>1. Bits \in Nat
    BY KeysAreNat
  <1>2. Bits \in F
    <2> DEFINE t == [i \in Bits .. Bits |-> Level(U, Bits, << >>)]
    <2>1. \A i \in Bits .. Bits : i = Bits
      BY <1>1
    <2>2. ASSUME NEW i \in Bits .. Bits PROVE t[i] = Level(U, i, t[i + 1])
      <3>1. i = Bits /\ t[i] = Level(U, Bits, << >>)
        BY <2>1
      <3> HIDE DEF t
      <3>2. QED
        BY <3>1, LastLevel
    <2>3. t = [i \in Bits .. Bits |-> Level(U, i, t[i + 1])]
      BY <2>2
    <2> HIDE DEF t
    <2>4. QED
      BY <1>1, <2>3
  <1>3. ASSUME NEW m \in 0 .. Bits - 1, m + 1 \in F PROVE m \in F
    <2>1. PICK g : g = [i \in m + 1 .. Bits |-> Level(U, i, g[i + 1])]
      BY <1>3
    <2> DEFINE t == [i \in m .. Bits |-> IF i = m THEN Level(U, m, g[m + 1]) ELSE g[i]]
    <2>2. \A i \in m .. Bits : i + 1 # m /\ (i # m => i \in m + 1 .. Bits)
                               /\ (i # Bits => i + 1 \in m .. Bits)
      BY <1>1
    <2>3. \A i \in m .. Bits : i # Bits => t[i + 1] = g[i + 1]
      BY <2>2
    <2>4. ASSUME NEW i \in m .. Bits PROVE t[i] = Level(U, i, t[i + 1])
      <3>1. t[i] = Level(U, i, g[i + 1])
        BY <2>1, <2>2
      <3>2. CASE i = Bits
        <4> HIDE DEF t
        <4>1. QED
          BY <3>1, <3>2, LastLevel
      <3>3. CASE i # Bits
        BY <2>3, <3>1, <3>3
      <3>4. QED
        BY <3>2, <3>3
    <2>5. t = [i \in m .. Bits |-> Level(U, i, t[i + 1])]
      BY <2>4
    <2> HIDE DEF t
    <2>6. m \in 0 .. Bits
      BY <1>1
    <2>7. QED
      BY <2>5, <2>6
  <1>4. 0 \in F
    <2> HIDE DEF F
    <2>1. \A i \in 0 .. Bits : i \in F
      BY <1>1, <1>2, <1>3, DownwardInduction
    <2>2. QED
      BY <1>1, <2>1
  <1>5. PICK g : g = [i \in 0 .. Bits |-> Level(U, i, g[i + 1])]
    BY <1>4
  <1>6. Subtrees(U) = CHOOSE t : t = [i \in 0 .. Bits |-> Level(U, i, t[i + 1])]
    BY DEF Subtrees, Level
  <1>7. QED
    BY <1>5, <1>6


Universe == Keys \X Values

\* The tree of the entries S from level i on.
T(S, i) == Subtrees(Universe)[i][S]

Half(S, i, b) == {e \in S : Bit(e[1], i) = b}
Several(S) == \E a, b \in S : a # b
IsMap(S) == S \subseteq Universe /\ \A a, b \in S : a[1] = b[1] => a = b

\* Entries that a node at level i can be over.
Ok(S, i) ==
  /\ IsMap(S) /\ i \in 0 .. Bits
  /\ \A a, b \in S : Agree(a[1], b[1], i)

LEMMA EntryType ==
  ASSUME NEW e \in Universe
  PROVE  /\ e = <<e[1], e[2]>> /\ e[1] \in Keys /\ e[2] \in Values
         /\ e[1] \in AllKeys /\ e[1] \in Nat /\ e[2] \in Nat
  <1>1. e = <<e[1], e[2]>> /\ e[1] \in Keys /\ e[2] \in Values
    BY DEF Universe
  <1>2. e[1] \in AllKeys /\ e[1] \in Nat /\ e[2] \in Nat
    BY <1>1, KeysAreNat, SmtAssumption
  <1>3. QED
    BY <1>1, <1>2

\* Nodes are equal when their parts are.
LEMMA Pairs == ASSUME NEW a, NEW b, NEW c, NEW d, <<a, b>> = <<c, d>> PROVE a = c /\ b = d
  OBVIOUS

LEMMA Leaves ==
  ASSUME NEW k, NEW v, NEW l, NEW w, Leaf(k, v) = Leaf(l, w)
  PROVE  k = l /\ v = w
  BY DEF Leaf

\* A set of entries has none, one or several.
LEMMA NoneOneSeveral ==
  ASSUME NEW S
  PROVE  /\ S = {} \/ (\E e \in S : S = {e}) \/ Several(S)
         /\ Several(S) => S # {} /\ ~ \E e \in S : S = {e}
         /\ \A e : S = {e} => e \in S /\ ~Several(S)
  BY DEF Several

LEMMA HalvesOk ==
  ASSUME NEW S, NEW i, Ok(S, i), Several(S)
  PROVE  /\ i \in 0 .. Bits - 1 /\ i + 1 \in 0 .. Bits
         /\ Ok(Half(S, i, 0), i + 1) /\ Ok(Half(S, i, 1), i + 1)
         /\ S = Half(S, i, 0) \cup Half(S, i, 1)
         /\ Half(S, i, 0) \cap Half(S, i, 1) = {}
  <1>1. Bits \in Nat /\ i \in 0 .. Bits
    BY KeysAreNat DEF Ok
  <1>2. \A e \in S : e \in Universe /\ e[1] \in AllKeys /\ Bit(e[1], i) \in {0, 1}
    BY <1>1, EntryType, BitType DEF Ok, IsMap
  <1>3. i # Bits
    <2> SUFFICES ASSUME i = Bits PROVE FALSE
      OBVIOUS
    <2>1. PICK a \in S, b \in S : a # b
      BY DEF Several
    <2>2. Agree(a[1], b[1], Bits)
      BY DEF Ok
    <2>3. a[1] = b[1]
      BY <1>2, <2>2, BitsTell
    <2>4. QED
      BY <2>1, <2>3 DEF Ok, IsMap
  <1>4. ASSUME NEW h \in {0, 1} PROVE Ok(Half(S, i, h), i + 1)
    <2>1. \A a, b \in Half(S, i, h) : Agree(a[1], b[1], i) /\ Bit(a[1], i) = Bit(b[1], i)
      BY DEF Ok, Half
    <2>2. \A j \in 0 .. (i + 1) - 1 : j = i \/ j \in 0 .. i - 1
      BY <1>1
    <2>3. \A a, b \in Half(S, i, h) : Agree(a[1], b[1], i + 1)
      BY <2>1, <2>2 DEF Agree
    <2>4. i + 1 \in 0 .. Bits
      BY <1>1, <1>3
    <2>5. IsMap(Half(S, i, h))
      BY DEF Ok, IsMap, Half
    <2>6. QED
      BY <2>3, <2>4, <2>5 DEF Ok
  <1>5. S = Half(S, i, 0) \cup Half(S, i, 1)
    BY <1>2 DEF Half
  <1>6. QED
    BY <1>1, <1>3, <1>4, <1>5 DEF Half

LEMMA TreeShape ==
  ASSUME NEW S, NEW i, Ok(S, i)
  PROVE  /\ S = {} => T(S, i) = Empty
         /\ \A e : S = {e} => T(S, i) = Leaf(e[1], e[2])
         /\ Several(S) => T(S, i) = <<T(Half(S, i, 0), i + 1), T(Half(S, i, 1), i + 1)>>
  <1>1. i \in 0 .. Bits /\ S \in SUBSET Universe
    BY DEF Ok, IsMap
  <1>2. T(S, i) = Level(Universe, i, Subtrees(Universe)[i + 1])[S]
    BY <1>1, SubtreesRecursion DEF T
  <1>3. CASE S = {}
    BY <1>1, <1>2, <1>3, NoneOneSeveral DEF Level
  <1>4. ASSUME NEW d \in S, S = {d}
        PROVE  T(S, i) = Leaf(d[1], d[2]) /\ ~Several(S) /\ \A e : S = {e} => e = d
    <2>1. (CHOOSE x \in S : TRUE) = d
      BY <1>4
    <2>2. S # {} /\ \E e \in S : S = {e}
      BY <1>4
    <2>3. T(S, i) = Leaf(d[1], d[2])
      BY <1>1, <1>2, <2>1, <2>2 DEF Level
    <2>4. QED
      BY <1>4, <2>3, NoneOneSeveral
  <1>5. CASE Several(S)
    <2>1. S # {} /\ ~ \E e \in S : S = {e}
      BY <1>5, NoneOneSeveral
    <2>2. i # Bits
      <3>1. i \in 0 .. Bits - 1 /\ Bits \in Nat
        BY <1>5, HalvesOk, KeysAreNat
      <3>2. QED
        BY <3>1
    <2>3. T(S, i) = <<Subtrees(Universe)[i + 1][Half(S, i, 0)],
                      Subtrees(Universe)[i + 1][Half(S, i, 1)]>>
      BY <1>1, <1>2, <2>1, <2>2 DEF Level, Half
    <2>4. QED
      BY <2>1, <2>3 DEF T
  <1>6. CASE \E d \in S : S = {d}
    <2>1. PICK d \in S : S = {d}
      BY <1>6
    <2>2. S # {}
      OBVIOUS
    <2>3. QED
      BY <1>4, <2>1, <2>2
  <1>7. QED
    BY <1>3, <1>5, <1>6, NoneOneSeveral

\* What kind of node it is tells how many entries are under it.
LEMMA TreeKinds ==
  ASSUME NEW S, NEW i, Ok(S, i)
  PROVE  /\ IsInternal(T(S, i)) <=> Several(S)
         /\ IsLeaf(T(S, i)) <=> \E e \in S : S = {e}
         /\ T(S, i) = Empty <=> S = {}
  <1>1. CASE S = {}
    <2>1. T(S, i) = << >> /\ ~Several(S)
      BY <1>1, TreeShape, NoneOneSeveral DEF Empty
    <2>2. Len(T(S, i)) = 0
      BY <2>1
    <2>3. QED
      BY <1>1, <2>1, <2>2 DEF IsInternal, IsLeaf, Empty
  <1>2. CASE \E e \in S : S = {e}
    <2>1. PICK e \in S : S = {e}
      BY <1>2
    <2>2. T(S, i) = <<1, e[1], e[2]>> /\ ~Several(S)
      BY <2>1, TreeShape, NoneOneSeveral DEF Leaf
    <2>3. Len(T(S, i)) = 3 /\ T(S, i) # << >>
      BY <2>2
    <2>4. QED
      BY <2>1, <2>2, <2>3 DEF IsInternal, IsLeaf, Empty
  <1>3. CASE Several(S)
    <2>1. T(S, i) = <<T(Half(S, i, 0), i + 1), T(Half(S, i, 1), i + 1)>>
      BY <1>3, TreeShape
    <2>2. Len(T(S, i)) = 2 /\ T(S, i) # << >>
      BY <2>1
    <2>3. S # {} /\ ~ \E e \in S : S = {e}
      BY <1>3, NoneOneSeveral
    <2>4. QED
      BY <1>3, <2>2, <2>3 DEF IsInternal, IsLeaf, Empty
  <1>4. QED
    BY <1>1, <1>2, <1>3, NoneOneSeveral

\* The tree does not depend on what other entries there may be.
LEMMA CanonicalIsT ==
  ASSUME NEW E, E \subseteq Universe
  PROVE  CanonicalTree(E) = T(E, 0)
  <1> DEFINE F == {i \in 0 .. Bits : \A S \in SUBSET E : Subtrees(E)[i][S] = T(S, i)}
  <1>1. Bits \in Nat
    BY KeysAreNat
  <1>2. ASSUME NEW i \in 0 .. Bits, NEW S \in SUBSET E
        PROVE  /\ Subtrees(E)[i][S] = Level(E, i, Subtrees(E)[i + 1])[S]
               /\ T(S, i) = Level(Universe, i, Subtrees(Universe)[i + 1])[S]
    BY SubtreesRecursion DEF T
  <1>3. ASSUME NEW S \in SUBSET E PROVE Subtrees(E)[Bits][S] = T(S, Bits)
    <2>1. Bits \in 0 .. Bits /\ S \in SUBSET Universe
      BY <1>1
    <2>2. PICK f, g : f = Subtrees(E)[Bits + 1] /\ g = Subtrees(Universe)[Bits + 1]
      OBVIOUS
    <2>3. Level(E, Bits, f)[S] = Level(Universe, Bits, g)[S]
      BY <2>1 DEF Level
    <2>4. Subtrees(E)[Bits][S] = Level(E, Bits, f)[S] /\ T(S, Bits) = Level(Universe, Bits, g)[S]
      BY <1>2, <2>1, <2>2
    <2>5. QED
      BY <2>3, <2>4
  <1>4. ASSUME NEW i \in 0 .. Bits - 1, i + 1 \in F PROVE i \in F
    <2>1. i \in 0 .. Bits
      BY <1>1
    <2>2. ASSUME NEW S \in SUBSET E PROVE Subtrees(E)[i][S] = T(S, i)
      <3>1. S \in SUBSET Universe
        OBVIOUS
      <3>2. /\ {e \in S : Bit(e[1], i) = 0} \in SUBSET E
            /\ {e \in S : Bit(e[1], i) = 1} \in SUBSET E
        OBVIOUS
      <3>3. /\ Subtrees(E)[i + 1][{e \in S : Bit(e[1], i) = 0}]
                 = Subtrees(Universe)[i + 1][{e \in S : Bit(e[1], i) = 0}]
            /\ Subtrees(E)[i + 1][{e \in S : Bit(e[1], i) = 1}]
                 = Subtrees(Universe)[i + 1][{e \in S : Bit(e[1], i) = 1}]
        BY <1>4, <3>2 DEF T
      <3>4. Level(E, i, Subtrees(E)[i + 1])[S] = Level(Universe, i, Subtrees(Universe)[i + 1])[S]
        <4>1. PICK f, g : f = Subtrees(E)[i + 1] /\ g = Subtrees(Universe)[i + 1]
          OBVIOUS
        <4>2. PICK lo, hi : /\ lo = {e \in S : Bit(e[1], i) = 0}
                            /\ hi = {e \in S : Bit(e[1], i) = 1}
          OBVIOUS
        <4>3. f[lo] = g[lo] /\ f[hi] = g[hi]
          BY <3>3, <4>1, <4>2
        <4>4. Level(E, i, f)[S] = Level(Universe, i, g)[S]
          BY <3>1, <4>2, <4>3 DEF Level
        <4>5. QED
          BY <4>1, <4>4
      <3>5. QED
        BY <1>2, <2>1, <3>4
    <2>3. QED
      BY <2>1, <2>2
  <1>5. Bits \in F
    BY <1>1, <1>3
  <1> HIDE DEF F
  <1>6. \A i \in 0 .. Bits : i \in F
    BY <1>1, <1>4, <1>5, DownwardInduction
  <1>7. 0 \in F
    BY <1>1, <1>6
  <1>8. QED
    BY <1>7 DEF F, CanonicalTree

---------------------------------------------------------------------------
(***************************************************************************)
(* Two nodes are one only when the entries under them are.                 *)
(***************************************************************************)
LEMMA TreesTellEntries ==
  ASSUME NEW S, NEW i, Ok(S, i), NEW R, NEW j, Ok(R, j), T(S, i) = T(R, j)
  PROVE  S = R
  <1> DEFINE F == {m \in 0 .. Bits : \A A, B \in SUBSET Universe : \A n \in 0 .. Bits :
                     Ok(A, m) /\ Ok(B, n) /\ T(A, m) = T(B, n) => A = B}
  <1>1. Bits \in Nat
    BY KeysAreNat
  <1>2. ASSUME NEW m \in 0 .. Bits, m < Bits => m + 1 \in F PROVE m \in F
    <2>1. ASSUME NEW A \in SUBSET Universe, NEW B \in SUBSET Universe, NEW n \in 0 .. Bits,
                 Ok(A, m), Ok(B, n), T(A, m) = T(B, n)
          PROVE  A = B
      <3>1. CASE A = {}
        <4>1. T(A, m) = Empty
          BY <2>1, <3>1, TreeKinds
        <4>2. T(B, n) = Empty
          BY <2>1, <4>1
        <4>3. B = {}
          BY <2>1, <4>2, TreeKinds
        <4>4. QED
          BY <3>1, <4>3
      <3>2. CASE \E e \in A : A = {e}
        <4>1. IsLeaf(T(B, n))
          BY <2>1, <3>2, TreeKinds
        <4>2. PICK a \in A, b \in B : A = {a} /\ B = {b}
          BY <2>1, <3>2, <4>1, TreeKinds
        <4>3. T(A, m) = Leaf(a[1], a[2]) /\ T(B, n) = Leaf(b[1], b[2])
          BY <2>1, <4>2, TreeShape
        <4>4. a[1] = b[1] /\ a[2] = b[2]
          <5>1. Leaf(a[1], a[2]) = Leaf(b[1], b[2])
            BY <2>1, <4>3
          <5>2. QED
            BY <5>1, Leaves
        <4>5. a = <<a[1], a[2]>> /\ b = <<b[1], b[2]>>
          BY EntryType
        <4>6. QED
          BY <4>2, <4>4, <4>5
      <3>3. CASE Several(A)
        <4>1. Several(B)
          BY <2>1, <3>3, TreeKinds
        <4>2. /\ T(A, m) = <<T(Half(A, m, 0), m + 1), T(Half(A, m, 1), m + 1)>>
              /\ T(B, n) = <<T(Half(B, n, 0), n + 1), T(Half(B, n, 1), n + 1)>>
          BY <2>1, <3>3, <4>1, TreeShape
        <4>3. /\ T(Half(A, m, 0), m + 1) = T(Half(B, n, 0), n + 1)
              /\ T(Half(A, m, 1), m + 1) = T(Half(B, n, 1), n + 1)
          <5>1. <<T(Half(A, m, 0), m + 1), T(Half(A, m, 1), m + 1)>>
                  = <<T(Half(B, n, 0), n + 1), T(Half(B, n, 1), n + 1)>>
            BY <2>1, <4>2, Zenon
          <5>2. QED
            BY <5>1, Pairs
        <4>4. /\ m \in 0 .. Bits - 1
              /\ Ok(Half(A, m, 0), m + 1) /\ Ok(Half(A, m, 1), m + 1)
              /\ A = Half(A, m, 0) \cup Half(A, m, 1)
          BY <2>1, <3>3, HalvesOk
        <4>5. /\ n + 1 \in 0 .. Bits
              /\ Ok(Half(B, n, 0), n + 1) /\ Ok(Half(B, n, 1), n + 1)
              /\ B = Half(B, n, 0) \cup Half(B, n, 1)
          BY <2>1, <4>1, HalvesOk
        <4>6. m + 1 \in F
          <5>1. m < Bits
            BY <1>1, <4>4
          <5>2. QED
            BY <1>2, <5>1
        <4>7. /\ Half(A, m, 0) \in SUBSET Universe /\ Half(A, m, 1) \in SUBSET Universe
              /\ Half(B, n, 0) \in SUBSET Universe /\ Half(B, n, 1) \in SUBSET Universe
          BY DEF Half
        <4>8. Half(A, m, 0) = Half(B, n, 0)
          BY <4>3, <4>4, <4>5, <4>6, <4>7
        <4>9. Half(A, m, 1) = Half(B, n, 1)
          BY <4>3, <4>4, <4>5, <4>6, <4>7
        <4>10. QED
          BY <4>4, <4>5, <4>8, <4>9
      <3>4. QED
        BY <3>1, <3>2, <3>3, NoneOneSeveral
    <2>2. QED
      BY <2>1
  <1>3. Bits \in F
    <2> HIDE DEF F
    <2>1. Bits \in 0 .. Bits /\ ~(Bits < Bits)
      BY <1>1
    <2>2. QED
      BY <1>2, <2>1
  <1>4. ASSUME NEW m \in 0 .. Bits - 1, m + 1 \in F PROVE m \in F
    <2> HIDE DEF F
    <2>1. m \in 0 .. Bits
      BY <1>1
    <2>2. QED
      BY <1>2, <1>4, <2>1
  <1>5. \A m \in 0 .. Bits : m \in F
    <2> HIDE DEF F
    <2>1. QED
      BY <1>1, <1>3, <1>4, DownwardInduction
  <1>6. i \in F
    BY <1>5 DEF Ok
  <1>7. j \in 0 .. Bits /\ S \in SUBSET Universe /\ R \in SUBSET Universe
    BY DEF Ok, IsMap
  <1>8. QED
    BY <1>6, <1>7

\* Several entries make another node on every level.
LEMMA TreesTellLevels ==
  ASSUME NEW S, NEW i, Ok(S, i), NEW j, Ok(S, j), Several(S), T(S, i) = T(S, j)
  PROVE  i = j
  <1> DEFINE F == {n \in 0 .. Bits : \A m \in 0 .. Bits : 
                     m < n /\ Ok(S, m) /\ Ok(S, n) => T(S, m) # T(S, n)}
  <1>1. Bits \in Nat
    BY KeysAreNat
  <1>2. Bits \in F
    <2>1. ~Ok(S, Bits)
      <3>1. ~(Bits \in 0 .. Bits - 1)
        BY <1>1
      <3>2. QED
        BY <3>1, HalvesOk
    <2>2. QED
      BY <1>1, <2>1
  <1>3. ASSUME NEW n \in 0 .. Bits - 1, n + 1 \in F PROVE n \in F
    <2>1. n \in 0 .. Bits /\ n + 1 \in 0 .. Bits
      BY <1>1
    <2>2. ASSUME NEW m \in 0 .. Bits, m < n, Ok(S, m), Ok(S, n), T(S, m) = T(S, n)
          PROVE  FALSE
      <3>1. PICK e \in S : TRUE
        BY DEF Several
      <3>2. PICK b : b = Bit(e[1], m)
        OBVIOUS
      <3>3. m \in 0 .. n - 1
        BY <1>1, <2>2
      <3>4. \A a \in S : Bit(a[1], m) = b
        BY <2>2, <3>1, <3>2, <3>3 DEF Ok, Agree
      <3>5. b \in {0, 1}
        <4>1. e \in Universe
          BY <2>2, <3>1 DEF Ok, IsMap
        <4>2. e[1] \in Nat /\ m \in Nat
          BY <1>1, <4>1, EntryType
        <4>3. QED
          BY <3>2, <4>2, BitType
      <3>6. Half(S, m, b) = S
        BY <3>4 DEF Half
      <3>7. /\ T(S, m) = <<T(Half(S, m, 0), m + 1), T(Half(S, m, 1), m + 1)>>
            /\ T(S, n) = <<T(Half(S, n, 0), n + 1), T(Half(S, n, 1), n + 1)>>
        BY <2>2, TreeShape
      <3>8. /\ T(Half(S, m, 0), m + 1) = T(Half(S, n, 0), n + 1)
            /\ T(Half(S, m, 1), m + 1) = T(Half(S, n, 1), n + 1)
        <4>1. <<T(Half(S, m, 0), m + 1), T(Half(S, m, 1), m + 1)>>
                = <<T(Half(S, n, 0), n + 1), T(Half(S, n, 1), n + 1)>>
          BY <2>2, <3>7, Zenon
        <4>2. QED
          BY <4>1, Pairs
      <3>9. T(S, m + 1) = T(Half(S, n, b), n + 1)
        BY <3>5, <3>6, <3>8
      <3>10. /\ m + 1 \in 0 .. Bits
             /\ Ok(Half(S, m, 0), m + 1) /\ Ok(Half(S, m, 1), m + 1)
             /\ Ok(Half(S, n, 0), n + 1) /\ Ok(Half(S, n, 1), n + 1)
        BY <2>2, HalvesOk
      <3>11. Ok(S, m + 1) /\ Ok(Half(S, n, b), n + 1)
        BY <3>5, <3>6, <3>10
      <3>12. S = Half(S, n, b)
        BY <3>9, <3>11, TreesTellEntries
      <3>13. Ok(S, n + 1) /\ T(S, m + 1) = T(S, n + 1)
        BY <3>9, <3>11, <3>12
      <3>14. m + 1 < n + 1
        BY <1>1, <2>2
      <3>15. QED
        BY <1>3, <3>10, <3>11, <3>13, <3>14
    <2>3. QED
      BY <2>1, <2>2
  <1>4. \A n \in 0 .. Bits : n \in F
    <2> HIDE DEF F
    <2>1. QED
      BY <1>1, <1>2, <1>3, DownwardInduction
  <1>5. i \in 0 .. Bits /\ j \in 0 .. Bits
    BY DEF Ok
  <1>6. ~(i < j) /\ ~(j < i)
    BY <1>4, <1>5
  <1>7. QED
    BY <1>1, <1>5, <1>6

---------------------------------------------------------------------------
(***************************************************************************)
(* The path of a key through the tree of a set of entries: Under(E, k, i)  *)
(* are the entries under its node at level i, Off(E, k, i) those under the *)
(* sibling of the next one.                                                *)
(***************************************************************************)
Under(E, k, i) == {e \in E : Agree(e[1], k, i)}
Off(E, k, i) == Half(Under(E, k, i), i, 1 - Bit(k, i))

\* The path reaches level i.
Live(E, k, i) == \A j \in 0 .. i - 1 : Several(Under(E, k, j))

LEMMA PathStart ==
  ASSUME NEW E, NEW k
  PROVE  Under(E, k, 0) = E /\ Live(E, k, 0)
  <1>1. \A j \in 0 .. 0 - 1 : FALSE
    OBVIOUS
  <1>2. QED
    BY <1>1 DEF Under, Agree, Live

LEMMA UnderOk ==
  ASSUME NEW E, IsMap(E), NEW k \in AllKeys, NEW i \in 0 .. Bits
  PROVE  Ok(Under(E, k, i), i)
  <1>1. \A a, b \in Under(E, k, i) : Agree(a[1], b[1], i)
    BY DEF Under, Agree
  <1>2. IsMap(Under(E, k, i))
    BY DEF Under, IsMap
  <1>3. QED
    BY <1>1, <1>2 DEF Ok

LEMMA PathStep ==
  ASSUME NEW E, IsMap(E), NEW k \in AllKeys, NEW i \in 0 .. Bits - 1
  PROVE  /\ Under(E, k, i + 1) = Half(Under(E, k, i), i, Bit(k, i))
         /\ Under(E, k, i) = Under(E, k, i + 1) \cup Off(E, k, i)
         /\ Under(E, k, i + 1) \cap Off(E, k, i) = {}
         /\ Ok(Under(E, k, i + 1), i + 1) /\ Ok(Off(E, k, i), i + 1)
         /\ Bit(k, i) \in {0, 1}
         /\ i \in Nat /\ i + 1 \in 0 .. Bits /\ i \in 0 .. Bits
  <1>1. Bits \in Nat /\ i \in Nat /\ i \in 0 .. Bits /\ i + 1 \in 0 .. Bits /\ k \in Nat
    BY KeysAreNat
  <1>2. Bit(k, i) \in {0, 1}
    BY <1>1, BitType
  <1>3. \A e \in E : e[1] \in Nat /\ Bit(e[1], i) \in {0, 1}
    <2>1. ASSUME NEW e \in E PROVE e[1] \in Nat /\ Bit(e[1], i) \in {0, 1}
      <3>1. e[1] \in Nat
        BY EntryType DEF IsMap
      <3>2. QED
        BY <1>1, <3>1, BitType
    <2>2. QED
      BY <2>1
  <1>4. \A l : Agree(l, k, i + 1) <=> Agree(l, k, i) /\ Bit(l, i) = Bit(k, i)
    <2>1. \A j : j \in 0 .. (i + 1) - 1 <=> j \in 0 .. i - 1 \/ j = i
      BY <1>1
    <2>2. QED
      BY <2>1 DEF Agree
  <1>5. Under(E, k, i + 1) = Half(Under(E, k, i), i, Bit(k, i))
    BY <1>4 DEF Under, Half
  <1>6. \A b \in {0, 1} : (b = Bit(k, i) \/ b = 1 - Bit(k, i)) /\ Bit(k, i) # 1 - Bit(k, i)
    BY <1>2
  <1>7. Under(E, k, i) \subseteq E
    BY DEF Under
  <1>8. \A e \in Under(E, k, i) : Bit(e[1], i) = Bit(k, i) \/ Bit(e[1], i) = 1 - Bit(k, i)
    BY <1>3, <1>6, <1>7
  <1>9. Under(E, k, i) = Under(E, k, i + 1) \cup Off(E, k, i)
    BY <1>5, <1>8 DEF Off, Half
  <1>10. Bit(k, i) # 1 - Bit(k, i)
    BY <1>2
  <1>11. Under(E, k, i + 1) \cap Off(E, k, i) = {}
    BY <1>5, <1>10 DEF Off, Half
  <1>12. Ok(Under(E, k, i + 1), i + 1)
    BY <1>1, UnderOk
  <1>13. Ok(Off(E, k, i), i + 1)
    <2>1. \A a, b \in Off(E, k, i) : Agree(a[1], k, i) /\ Agree(b[1], k, i)
                                      /\ Bit(a[1], i) = Bit(b[1], i)
      BY DEF Off, Half, Under
    <2>2. \A j : j \in 0 .. (i + 1) - 1 <=> j \in 0 .. i - 1 \/ j = i
      BY <1>1
    <2>3. \A a, b \in Off(E, k, i) : Agree(a[1], b[1], i + 1)
      BY <2>1, <2>2 DEF Agree
    <2>4. IsMap(Off(E, k, i))
      BY DEF Off, Half, Under, IsMap
    <2>5. QED
      BY <1>1, <2>3, <2>4 DEF Ok
  <1>14. QED
    BY <1>1, <1>2, <1>5, <1>9, <1>11, <1>12, <1>13

\* The node at level i holds the node of the next level and its sibling.
LEMMA NodeStep ==
  ASSUME NEW E, IsMap(E), NEW k \in AllKeys, NEW i \in 0 .. Bits - 1, Several(Under(E, k, i))
  PROVE  /\ T(Under(E, k, i), i)[Bit(k, i) + 1] = T(Under(E, k, i + 1), i + 1)
         /\ T(Under(E, k, i), i)[2 - Bit(k, i)] = T(Off(E, k, i), i + 1)
         /\ Join(k, i, T(Off(E, k, i), i + 1), T(Under(E, k, i + 1), i + 1))
              = T(Under(E, k, i), i)
  <1>1. PICK U : U = Under(E, k, i)
    OBVIOUS
  <1>2. Ok(U, i) /\ Several(U)
    BY <1>1, UnderOk, PathStep
  <1>3. T(U, i) = <<T(Half(U, i, 0), i + 1), T(Half(U, i, 1), i + 1)>>
    BY <1>2, TreeShape
  <1>4. /\ Under(E, k, i + 1) = Half(U, i, Bit(k, i)) /\ Off(E, k, i) = Half(U, i, 1 - Bit(k, i))
        /\ Bit(k, i) \in {0, 1}
    BY <1>1, PathStep DEF Off
  <1>5. PICK l, r : l = T(Half(U, i, 0), i + 1) /\ r = T(Half(U, i, 1), i + 1)
    OBVIOUS
  <1>6. T(U, i) = <<l, r>>
    BY <1>3, <1>5
  <1>7. CASE Bit(k, i) = 0
    <2>1. /\ T(Under(E, k, i + 1), i + 1) = l /\ T(Off(E, k, i), i + 1) = r
          /\ Bit(k, i) + 1 = 1 /\ 2 - Bit(k, i) = 2 /\ Bit(k, i) # 1
      BY <1>4, <1>5, <1>7
    <2>2. QED
      BY <1>1, <1>6, <2>1 DEF Join
  <1>8. CASE Bit(k, i) = 1
    <2>1. /\ T(Under(E, k, i + 1), i + 1) = r /\ T(Off(E, k, i), i + 1) = l
          /\ Bit(k, i) + 1 = 2 /\ 2 - Bit(k, i) = 1
      BY <1>4, <1>5, <1>8
    <2>2. QED
      BY <1>1, <1>6, <1>8, <2>1 DEF Join
  <1>9. QED
    BY <1>4, <1>7, <1>8

\* Fewer entries are under a node than under one above it.
LEMMA PathShrinks ==
  ASSUME NEW E, NEW k, NEW i \in Nat, NEW j \in 0 .. i
  PROVE  /\ Under(E, k, i) \subseteq Under(E, k, j) /\ Under(E, k, i) \subseteq E
         /\ Several(Under(E, k, i)) => Several(Under(E, k, j))
         /\ Live(E, k, i) => Live(E, k, j)
  <1>1. \A m : m \in 0 .. j - 1 => m \in 0 .. i - 1
    OBVIOUS
  <1>2. Under(E, k, i) \subseteq Under(E, k, j)
    BY <1>1 DEF Under, Agree
  <1>3. Live(E, k, i) => Live(E, k, j)
    BY <1>1 DEF Live
  <1>4. QED
    BY <1>2, <1>3 DEF Several, Under

\* Keys that agree down to level i have one path down to it.
LEMMA SamePath ==
  ASSUME NEW E, NEW k, NEW l, NEW i \in Nat, Agree(k, l, i), NEW j \in 0 .. i
  PROVE  Under(E, k, j) = Under(E, l, j) /\ (Live(E, k, j) <=> Live(E, l, j))
  <1>1. \A m \in 0 .. i : Under(E, k, m) = Under(E, l, m)
    <2>1. ASSUME NEW m \in 0 .. i PROVE Under(E, k, m) = Under(E, l, m)
      <3>1. \A n : n \in 0 .. m - 1 => n \in 0 .. i - 1
        OBVIOUS
      <3>2. QED
        BY <3>1 DEF Under, Agree
    <2>2. QED
      BY <2>1
  <1>2. \A m \in 0 .. j - 1 : m \in 0 .. i
    OBVIOUS
  <1>3. QED
    BY <1>1, <1>2 DEF Live

\* The key's own entry is under every node of its path.
LEMMA OwnEntry ==
  ASSUME NEW E, NEW e \in E, NEW i
  PROVE  e \in Under(E, e[1], i)
  BY DEF Under, Agree

---------------------------------------------------------------------------
(***************************************************************************)
(* What find_key_internal finds in the tree of the entries E.              *)
(***************************************************************************)

\* The path has an end.
LEMMA PathEnds ==
  ASSUME NEW E, IsMap(E), NEW k \in AllKeys
  PROVE  \E d \in 0 .. Bits : Live(E, k, d) /\ ~Several(Under(E, k, d))
  <1> DEFINE Ends == {i \in 0 .. Bits : ~Several(Under(E, k, i))}
  <1>1. Bits \in Nat
    BY KeysAreNat
  <1>2. Bits \in Ends
    <2>1. Bits \in 0 .. Bits /\ ~(Bits \in 0 .. Bits - 1)
      BY <1>1
    <2>2. ~Several(Under(E, k, Bits))
      BY <2>1, UnderOk, HalvesOk
    <2>3. QED
      BY <2>1, <2>2
  <1>3. PICK d \in Ends : \A i \in Ends : d <= i
    <2>1. Ends \subseteq Nat /\ Ends # {}
      BY <1>1, <1>2
    <2> HIDE DEF Ends
    <2>2. QED
      BY <2>1, LeastNumber
  <1>4. Live(E, k, d)
    <2>1. ASSUME NEW i \in 0 .. d - 1 PROVE Several(Under(E, k, i))
      <3>1. i \in 0 .. Bits /\ ~(d <= i)
        BY <1>1
      <3>2. i \notin Ends
        BY <1>3, <3>1
      <3>3. QED
        BY <3>1, <3>2
    <2>2. QED
      BY <2>1 DEF Live
  <1>5. QED
    BY <1>4

\* A node of the path is over its entries.
LEMMA PathIs ==
  ASSUME NEW E, IsMap(E), NEW k \in AllKeys, NEW i \in 0 .. Bits, Live(E, k, i)
  PROVE  Path(T(E, 0), k)[i] = T(Under(E, k, i), i)
  <1>1. Bits \in Nat
    BY KeysAreNat
  <1>2. PICK d \in 0 .. Bits : Live(E, k, d) /\ ~Several(Under(E, k, d))
    BY PathEnds
  <1>3. \A j \in 0 .. d - 1 : j \in 0 .. Bits - 1 /\ Several(Under(E, k, j))
    BY <1>1, <1>2 DEF Live
  <1> DEFINE g == [j \in 0 .. Bits |-> IF j < d THEN T(Under(E, k, j), j) ELSE T(Under(E, k, d), d)]
  <1>4. g = [j \in 0 .. Bits |->
               IF j = 0 THEN T(E, 0)
               ELSE IF IsInternal(g[j - 1]) THEN g[j - 1][Bit(k, j - 1) + 1] ELSE g[j - 1]]
    <2>1. ASSUME NEW j \in 0 .. Bits
          PROVE  g[j] = IF j = 0 THEN T(E, 0)
                        ELSE IF IsInternal(g[j - 1]) THEN g[j - 1][Bit(k, j - 1) + 1]
                        ELSE g[j - 1]
      <3>1. CASE j = 0
        <4>1. g[0] = T(Under(E, k, 0), 0)
          BY <1>1, <1>2
        <4>2. QED
          BY <3>1, <4>1, PathStart
      <3>2. CASE j # 0 /\ j <= d
        <4>1. PICK m \in 0 .. d - 1 : m = j - 1 /\ j = m + 1
          BY <3>2
        <4>2. m \in 0 .. Bits - 1 /\ Several(Under(E, k, m)) /\ m \in 0 .. Bits
          BY <1>1, <1>3
        <4>3. g[m] = T(Under(E, k, m), m) /\ g[j] = T(Under(E, k, j), j)
          BY <3>2, <4>1, <4>2
        <4>4. IsInternal(T(Under(E, k, m), m))
          BY <4>2, UnderOk, TreeKinds
        <4>5. T(Under(E, k, m), m)[Bit(k, m) + 1] = T(Under(E, k, m + 1), m + 1)
          BY <4>2, NodeStep
        <4> HIDE DEF g
        <4>6. QED
          BY <3>2, <4>1, <4>3, <4>4, <4>5
      <3>3. CASE d < j
        <4>1. j # 0 /\ j - 1 \in 0 .. Bits /\ ~(j - 1 < d) /\ ~(j < d)
          BY <1>1, <3>3
        <4>2. g[j - 1] = T(Under(E, k, d), d) /\ g[j] = T(Under(E, k, d), d)
          BY <4>1
        <4>3. ~IsInternal(T(Under(E, k, d), d))
          BY <1>2, UnderOk, TreeKinds
        <4> HIDE DEF g
        <4>4. QED
          BY <4>1, <4>2, <4>3
      <3>4. QED
        BY <1>1, <3>1, <3>2, <3>3
    <2>2. QED
      BY <2>1
  <1> HIDE DEF g
  <1>5. PICK f : /\ f = Path(T(E, 0), k)
                 /\ f = [j \in 0 .. Bits |->
                          IF j = 0 THEN T(E, 0)
                          ELSE IF IsInternal(f[j - 1]) THEN f[j - 1][Bit(k, j - 1) + 1]
                          ELSE f[j - 1]]
    BY <1>4 DEF Path
  <1> DEFINE F == {j \in 0 .. Bits : Live(E, k, j) => f[j] = T(Under(E, k, j), j)}
  <1>6. 0 \in F
    BY <1>1, <1>5, PathStart
  <1>7. ASSUME NEW j \in 0 .. Bits - 1, j \in F PROVE j + 1 \in F
    <2>1. j + 1 \in 0 .. Bits /\ j \in 0 .. Bits /\ j + 1 # 0 /\ (j + 1) - 1 = j
          /\ j \in 0 .. (j + 1) - 1 /\ j + 1 \in Nat /\ j \in 0 .. j + 1
      BY <1>1
    <2>2. ASSUME Live(E, k, j + 1) PROVE f[j + 1] = T(Under(E, k, j + 1), j + 1)
      <3>1. Several(Under(E, k, j)) /\ Live(E, k, j)
        BY <2>1, <2>2, PathShrinks DEF Live
      <3>2. f[j] = T(Under(E, k, j), j)
        BY <1>7, <3>1
      <3>3. IsInternal(f[j])
        BY <2>1, <3>1, <3>2, UnderOk, TreeKinds
      <3>4. f[j + 1] = f[j][Bit(k, j) + 1]
        BY <1>5, <2>1, <3>3
      <3>5. QED
        BY <3>1, <3>2, <3>4, NodeStep
    <2>3. QED
      BY <2>1, <2>2
  <1>8. i \in F
    <2> HIDE DEF F
    <2>1. QED
      BY <1>1, <1>6, <1>7, UpwardInduction
  <1>9. QED
    BY <1>5, <1>8

\* Where the path ends, and the siblings along it.
LEMMA FindIs ==
  ASSUME NEW E, IsMap(E), NEW k \in AllKeys,
         NEW d \in 0 .. Bits, Live(E, k, d), ~Several(Under(E, k, d))
  PROVE  /\ Depth(T(E, 0), k) = d
         /\ Path(T(E, 0), k)[d] = T(Under(E, k, d), d)
         /\ Siblings(T(E, 0), k) = [i \in 1 .. d |-> T(Off(E, k, i - 1), i)]
  <1>1. Bits \in Nat
    BY KeysAreNat
  <1>2. PICK f : f = Path(T(E, 0), k)
    OBVIOUS
  <1>3. ASSUME NEW j \in 0 .. d
        PROVE  j \in 0 .. Bits /\ Live(E, k, j) /\ f[j] = T(Under(E, k, j), j)
               /\ (IsInternal(f[j]) <=> Several(Under(E, k, j)))
    <2>1. j \in 0 .. Bits /\ d \in Nat
      BY <1>1
    <2>2. Live(E, k, j)
      BY <2>1, PathShrinks
    <2>3. f[j] = T(Under(E, k, j), j)
      BY <1>2, <2>1, <2>2, PathIs
    <2>4. Ok(Under(E, k, j), j)
      BY <2>1, UnderOk
    <2>5. QED
      BY <2>1, <2>2, <2>3, <2>4, TreeKinds
  <1>4. \A j \in 0 .. d - 1 : j \in 0 .. d /\ Several(Under(E, k, j))
    BY <1>1 DEF Live
  <1>5. ~IsInternal(f[d]) /\ \A j \in 0 .. d - 1 : IsInternal(f[j])
    <2>1. d \in 0 .. d
      BY <1>1
    <2>2. QED
      BY <1>3, <1>4, <2>1
  <1>6. \A i \in 0 .. Bits : ~IsInternal(f[i]) /\ (\A j \in 0 .. i - 1 : IsInternal(f[j])) => i = d
    <2>1. ASSUME NEW i \in 0 .. Bits, ~IsInternal(f[i]), \A j \in 0 .. i - 1 : IsInternal(f[j])
          PROVE  i = d
      <3>1. i < d => i \in 0 .. d - 1
        BY <1>1
      <3>2. d < i => d \in 0 .. i - 1
        BY <1>1
      <3>3. QED
        BY <1>1, <1>5, <2>1, <3>1, <3>2
    <2>2. QED
      BY <2>1
  <1>7. Depth(T(E, 0), k) = d
    BY <1>2, <1>5, <1>6 DEF Depth
  <1>8. ASSUME NEW i \in 1 .. d PROVE f[i - 1][2 - Bit(k, i - 1)] = T(Off(E, k, i - 1), i)
    <2>1. PICK j \in 0 .. d - 1 : j = i - 1 /\ i = j + 1
      BY <1>1
    <2>2. j \in 0 .. d /\ Several(Under(E, k, j)) /\ j \in 0 .. Bits - 1
      BY <1>1, <1>4
    <2>3. f[j] = T(Under(E, k, j), j)
      BY <1>3, <2>2
    <2>4. f[j][2 - Bit(k, j)] = T(Off(E, k, j), j + 1)
      BY <2>2, <2>3, NodeStep
    <2>5. QED
      BY <2>1, <2>4
  <1>9. Siblings(T(E, 0), k) = [i \in 1 .. d |-> T(Off(E, k, i - 1), i)]
    BY <1>2, <1>7, <1>8 DEF Siblings
  <1>10. d \in 0 .. d
    BY <1>1
  <1>11. QED
    BY <1>2, <1>3, <1>7, <1>9, <1>10

---------------------------------------------------------------------------
(***************************************************************************)
(* Rebuilding the nodes of a path from its bottom.                         *)
(***************************************************************************)

\* Climb is defined by recursion from the bottom up.
LEMMA ClimbRecursion ==
  ASSUME NEW k, NEW b, NEW s, NEW n \in Nat, Len(s) = n
  PROVE  \A i \in 0 .. n :
           Climb(k, b, s)[i] = IF i = n THEN b ELSE Join(k, i, s[i + 1], Climb(k, b, s)[i + 1])
  <1> DEFINE F == {m \in 0 .. n :
                     \E f : f = [i \in m .. n |-> IF i = n THEN b
                                                  ELSE Join(k, i, s[i + 1], f[i + 1])]}
  <1>1. n \in F
    <2> DEFINE f == [i \in n .. n |-> b]
    <2>1. f = [i \in n .. n |-> IF i = n THEN b ELSE Join(k, i, s[i + 1], f[i + 1])]
      <3>1. \A i \in n .. n : i = n
        OBVIOUS
      <3>2. QED
        BY <3>1
    <2> HIDE DEF f
    <2>2. QED
      BY <2>1
  <1>2. ASSUME NEW m \in 0 .. n - 1, m + 1 \in F PROVE m \in F
    <2>1. PICK g : g = [i \in m + 1 .. n |-> IF i = n THEN b ELSE Join(k, i, s[i + 1], g[i + 1])]
      BY <1>2
    <2> DEFINE f == [i \in m .. n |-> IF i = m THEN Join(k, m, s[m + 1], g[m + 1]) ELSE g[i]]
    <2>2. \A i \in m .. n : i + 1 # m /\ (i # m => i \in m + 1 .. n)
                            /\ (i # n => i + 1 \in m .. n) /\ m # n
      OBVIOUS
    <2>3. \A i \in m .. n : i # n => f[i + 1] = g[i + 1]
      BY <2>2
    <2>4. ASSUME NEW i \in m .. n
          PROVE  f[i] = IF i = n THEN b ELSE Join(k, i, s[i + 1], f[i + 1])
      <3>1. f[i] = IF i = n THEN b ELSE Join(k, i, s[i + 1], g[i + 1])
        BY <2>1, <2>2
      <3>2. QED
        BY <2>3, <3>1
    <2>5. f = [i \in m .. n |-> IF i = n THEN b ELSE Join(k, i, s[i + 1], f[i + 1])]
      BY <2>4
    <2> HIDE DEF f
    <2>6. m \in 0 .. n
      OBVIOUS
    <2>7. QED
      BY <2>5, <2>6
  <1>3. 0 \in F
    <2> HIDE DEF F
    <2>1. \A i \in 0 .. n : i \in F
      BY <1>1, <1>2, DownwardInduction
    <2>2. QED
      BY <2>1
  <1>4. PICK f : f = [i \in 0 .. n |-> IF i = n THEN b ELSE Join(k, i, s[i + 1], f[i + 1])]
    BY <1>3
  <1>5. Climb(k, b, s) = CHOOSE h : h = [i \in 0 .. n |-> IF i = n THEN b
                                                          ELSE Join(k, i, s[i + 1], h[i + 1])]
    BY DEF Climb
  <1>6. PICK h : /\ h = Climb(k, b, s)
                 /\ h = [i \in 0 .. n |-> IF i = n THEN b ELSE Join(k, i, s[i + 1], h[i + 1])]
    BY <1>4, <1>5
  <1>7. QED
    BY <1>6

(***************************************************************************)
(* Siblings and a bottom that fit the path of the key in the tree of E:    *)
(* every node over the bottom has several entries under it.                *)
(***************************************************************************)
Fits(E, k, s, b, n) ==
  /\ Len(s) = n /\ n \in 0 .. Bits
  /\ Live(E, k, n) /\ ~Several(Under(E, k, n))
  /\ \A i \in 0 .. n - 1 : s[i + 1] = T(Off(E, k, i), i + 1)
  /\ b = T(Under(E, k, n), n)

LEMMA ClimbIs ==
  ASSUME NEW E, IsMap(E), NEW k \in AllKeys, NEW s, NEW b, NEW n, Fits(E, k, s, b, n)
  PROVE  /\ \A i \in 0 .. n : Climb(k, b, s)[i] = T(Under(E, k, i), i)
         /\ RootOver(k, b, s) = T(E, 0)
         /\ Above(k, b, s) = {T(Under(E, k, i), i) : i \in 0 .. n - 1}
  <1>1. Bits \in Nat /\ n \in Nat /\ n \in 0 .. Bits /\ Len(s) = n
    BY KeysAreNat DEF Fits
  <1>2. PICK c : c = Climb(k, b, s)
    OBVIOUS
  <1>3. \A i \in 0 .. n : c[i] = IF i = n THEN b ELSE Join(k, i, s[i + 1], c[i + 1])
    BY <1>1, <1>2, ClimbRecursion
  <1> DEFINE F == {i \in 0 .. n : c[i] = T(Under(E, k, i), i)}
  <1>4. n \in F
    BY <1>1, <1>3 DEF Fits
  <1>5. ASSUME NEW i \in 0 .. n - 1, i + 1 \in F PROVE i \in F
    <2>1. i \in 0 .. n /\ i \in 0 .. Bits - 1 /\ i # n
      BY <1>1
    <2>2. c[i] = Join(k, i, s[i + 1], c[i + 1])
      BY <1>3, <2>1
    <2>3. s[i + 1] = T(Off(E, k, i), i + 1) /\ Several(Under(E, k, i))
      BY DEF Fits, Live
    <2>4. c[i + 1] = T(Under(E, k, i + 1), i + 1)
      BY <1>5
    <2>5. Join(k, i, T(Off(E, k, i), i + 1), T(Under(E, k, i + 1), i + 1)) = T(Under(E, k, i), i)
      BY <2>1, <2>3, NodeStep
    <2>6. c[i] = T(Under(E, k, i), i)
      BY <2>2, <2>3, <2>4, <2>5
    <2>7. QED
      BY <2>1, <2>6
  <1>6. \A i \in 0 .. n : i \in F
    <2> HIDE DEF F
    <2>1. QED
      BY <1>1, <1>4, <1>5, DownwardInduction
  <1>7. \A i \in 0 .. n : c[i] = T(Under(E, k, i), i)
    BY <1>6
  <1>8. RootOver(k, b, s) = T(E, 0)
    <2>1. 0 \in 0 .. n /\ Under(E, k, 0) = E
      BY <1>1, PathStart
    <2>2. QED
      BY <1>2, <1>7, <2>1 DEF RootOver
  <1>9. \A i \in 0 .. n - 1 : i \in 0 .. n
    BY <1>1
  <1>10. Above(k, b, s) = {T(Under(E, k, i), i) : i \in 0 .. n - 1}
    <2>1. Above(k, b, s) = {c[i] : i \in 0 .. n - 1}
      BY <1>1, <1>2 DEF Above
    <2>2. \A i \in 0 .. n - 1 : c[i] = T(Under(E, k, i), i)
      BY <1>7, <1>9
    <2>3. QED
      BY <2>1, <2>2
  <1>11. QED
    BY <1>2, <1>7, <1>8, <1>10

\* What find returns fits the tree.
LEMMA FindFits ==
  ASSUME NEW E, IsMap(E), NEW k \in AllKeys,
         NEW d \in 0 .. Bits, Live(E, k, d), ~Several(Under(E, k, d))
  PROVE  /\ Fits(E, k, Siblings(T(E, 0), k), T(Under(E, k, d), d), d)
         /\ Depth(T(E, 0), k) = d /\ Path(T(E, 0), k)[d] = T(Under(E, k, d), d)
         /\ DOMAIN Siblings(T(E, 0), k) = 1 .. d
         /\ \A r : Siblings(r, k) = [i \in DOMAIN Siblings(r, k) |-> Siblings(r, k)[i]]
  <1>1. Bits \in Nat /\ d \in Nat
    BY KeysAreNat
  <1>2. PICK s : s = Siblings(T(E, 0), k)
    OBVIOUS
  <1>3. s = [i \in 1 .. d |-> T(Off(E, k, i - 1), i)] /\ Depth(T(E, 0), k) = d
        /\ Path(T(E, 0), k)[d] = T(Under(E, k, d), d)
    BY <1>2, FindIs
  <1>4. Len(s) = d
    BY <1>1, <1>3
  <1>5. \A i \in 0 .. d - 1 : s[i + 1] = T(Off(E, k, i), i + 1)
    <2>1. ASSUME NEW i \in 0 .. d - 1 PROVE s[i + 1] = T(Off(E, k, i), i + 1)
      <3>1. PICK j \in 1 .. d : j = i + 1 /\ i = j - 1
        BY <1>1
      <3>2. s[j] = T(Off(E, k, j - 1), j)
        BY <1>3
      <3>3. QED
        BY <3>1, <3>2
    <2>2. QED
      BY <2>1
  <1>6. Fits(E, k, s, T(Under(E, k, d), d), d)
    BY <1>4, <1>5 DEF Fits
  <1>7. \A r : Siblings(r, k) = [i \in DOMAIN Siblings(r, k) |-> Siblings(r, k)[i]]
    BY DEF Siblings
  <1>8. QED
    BY <1>2, <1>3, <1>6, <1>7

(***************************************************************************)
(* Nodes rebuilt over the leaf of an entry are nodes of no tree without    *)
(* that entry.                                                             *)
(***************************************************************************)
LEMMA ForeignNodes ==
  ASSUME NEW k, NEW v, NEW s, NEW n \in Nat, Len(s) = n, NEW i \in 0 .. n,
         NEW S, NEW j, Ok(S, j), <<k, v>> \notin S
  PROVE  Climb(k, Leaf(k, v), s)[i] # T(S, j)
  <1>1. PICK c : c = Climb(k, Leaf(k, v), s)
    OBVIOUS
  <1>2. \A m \in 0 .. n : c[m] = IF m = n THEN Leaf(k, v) ELSE Join(k, m, s[m + 1], c[m + 1])
    BY <1>1, ClimbRecursion
  <1> DEFINE F == {m \in 0 .. n : \A R \in SUBSET Universe : \A l \in 0 .. Bits :
                     Ok(R, l) /\ <<k, v>> \notin R => c[m] # T(R, l)}
  <1>3. n \in F
    <2>1. ASSUME NEW R \in SUBSET Universe, NEW l, Ok(R, l), <<k, v>> \notin R, c[n] = T(R, l)
          PROVE  FALSE
      <3>1. T(R, l) = Leaf(k, v)
        BY <1>2, <2>1
      <3>2. IsLeaf(T(R, l))
        BY <3>1 DEF IsLeaf, Leaf
      <3>3. PICK e \in R : R = {e}
        BY <2>1, <3>2, TreeKinds
      <3>4. Leaf(e[1], e[2]) = Leaf(k, v)
        BY <2>1, <3>1, <3>3, TreeShape
      <3>5. e[1] = k /\ e[2] = v
        BY <3>4, Leaves
      <3>6. e = <<e[1], e[2]>>
        BY EntryType
      <3>7. QED
        BY <2>1, <3>5, <3>6
    <2>2. QED
      BY <2>1
  <1>4. ASSUME NEW m \in 0 .. n - 1, m + 1 \in F PROVE m \in F
    <2>1. ASSUME NEW R \in SUBSET Universe, NEW l, Ok(R, l), <<k, v>> \notin R, c[m] = T(R, l)
          PROVE  FALSE
      <3>1. m \in 0 .. n /\ m # n
        OBVIOUS
      <3>2. T(R, l) = Join(k, m, s[m + 1], c[m + 1])
        BY <1>2, <2>1, <3>1
      <3>3. PICK x, y : Join(k, m, s[m + 1], c[m + 1]) = <<x, y>> /\ (x = c[m + 1] \/ y = c[m + 1])
        BY DEF Join
      <3>4. T(R, l) = <<x, y>>
        BY <3>2, <3>3
      <3>5. IsInternal(T(R, l))
        BY <3>4 DEF IsInternal
      <3>6. Several(R)
        BY <2>1, <3>5, TreeKinds
      <3>7. T(R, l) = <<T(Half(R, l, 0), l + 1), T(Half(R, l, 1), l + 1)>>
        BY <2>1, <3>6, TreeShape
      <3>8. <<x, y>> = <<T(Half(R, l, 0), l + 1), T(Half(R, l, 1), l + 1)>>
        BY <3>4, <3>7
      <3>9. x = T(Half(R, l, 0), l + 1) /\ y = T(Half(R, l, 1), l + 1)
        BY <3>8, Pairs
      <3>10. l + 1 \in 0 .. Bits /\ Ok(Half(R, l, 0), l + 1) /\ Ok(Half(R, l, 1), l + 1)
        BY <2>1, <3>6, HalvesOk
      <3>11. \A b \in {0, 1} : Half(R, l, b) \in SUBSET Universe /\ <<k, v>> \notin Half(R, l, b)
        BY <2>1 DEF Half
      <3>12. c[m + 1] # T(Half(R, l, 0), l + 1)
        BY <1>4, <3>10, <3>11
      <3>13. c[m + 1] # T(Half(R, l, 1), l + 1)
        BY <1>4, <3>10, <3>11
      <3>14. QED
        BY <3>3, <3>9, <3>12, <3>13
    <2>2. m \in 0 .. n
      OBVIOUS
    <2>3. QED
      BY <2>1, <2>2
  <1>5. i \in F
    <2> HIDE DEF F
    <2>1. \A m \in 0 .. n : m \in F
      BY <1>3, <1>4, DownwardInduction
    <2>2. QED
      BY <2>1
  <1>6. S \in SUBSET Universe /\ j \in 0 .. Bits
    BY DEF Ok, IsMap
  <1>7. QED
    BY <1>1, <1>5, <1>6

---------------------------------------------------------------------------
(***************************************************************************)
(* The nodes of the tree of E are those on the paths of its entries.       *)
(***************************************************************************)
NodeAt(E, i) == {T(Under(E, e[1], i), i) : e \in {x \in E : Live(E, x[1], i)}}

LEMMA NodeAtStart ==
  ASSUME NEW E, IsMap(E)
  PROVE  NodeAt(E, 0) = {T(E, 0)} \ {Empty}
  <1>1. NodeAt(E, 0) = {T(E, 0) : e \in E}
    <2>1. \A e \in E : Under(E, e[1], 0) = E /\ Live(E, e[1], 0)
      BY PathStart
    <2>2. QED
      BY <2>1 DEF NodeAt
  <1>2. T(E, 0) = Empty <=> E = {}
    <2>1. Ok(E, 0)
      <3>1. 0 \in 0 .. Bits /\ \A j \in 0 .. 0 - 1 : FALSE
        BY KeysAreNat
      <3>2. QED
        BY <3>1 DEF Ok, Agree
    <2>2. QED
      BY <2>1, TreeKinds
  <1>3. QED
    BY <1>1, <1>2

LEMMA NodeAtStep ==
  ASSUME NEW E, IsMap(E), NEW i \in 0 .. Bits - 1
  PROVE  NodeAt(E, i + 1)
           = (UNION {{n[1], n[2]} : n \in {m \in NodeAt(E, i) : IsInternal(m)}}) \ {Empty}
  <1>1. i \in 0 .. Bits /\ i + 1 \in 0 .. Bits /\ i \in Nat /\ i + 1 \in Nat /\ i \in 0 .. i + 1
        /\ i \in 0 .. (i + 1) - 1 /\ \A j \in 0 .. (i + 1) - 1 : j \in 0 .. i - 1 \/ j = i
    BY KeysAreNat
  <1>2. \A e \in E : e[1] \in AllKeys
    BY EntryType DEF IsMap
  <1>3. ASSUME NEW x \in NodeAt(E, i + 1)
        PROVE  x # Empty /\ \E n \in NodeAt(E, i) : IsInternal(n) /\ x \in {n[1], n[2]}
    <2>1. PICK e \in E : Live(E, e[1], i + 1) /\ x = T(Under(E, e[1], i + 1), i + 1)
      BY DEF NodeAt
    <2>2. PICK k \in AllKeys : k = e[1]
      BY <1>2
    <2>3. Live(E, k, i) /\ Several(Under(E, k, i))
      BY <1>1, <2>1, <2>2, PathShrinks DEF Live
    <2>4. PICK n : n = T(Under(E, k, i), i)
      OBVIOUS
    <2>5. n \in NodeAt(E, i)
      BY <2>2, <2>3, <2>4 DEF NodeAt
    <2>6. IsInternal(n)
      BY <1>1, <2>3, <2>4, UnderOk, TreeKinds
    <2>7. n[Bit(k, i) + 1] = x /\ Bit(k, i) \in {0, 1}
      BY <2>1, <2>2, <2>3, <2>4, NodeStep, PathStep
    <2>8. x \in {n[1], n[2]}
      BY <2>7
    <2>9. x # Empty
      <3>1. e \in Under(E, k, i + 1)
        BY <2>2, OwnEntry
      <3>2. Ok(Under(E, k, i + 1), i + 1)
        BY <1>1, UnderOk
      <3>3. QED
        BY <2>1, <2>2, <3>1, <3>2, TreeKinds
    <2>10. QED
      BY <2>5, <2>6, <2>8, <2>9
  <1>4. ASSUME NEW n \in NodeAt(E, i), IsInternal(n), NEW x \in {n[1], n[2]}, x # Empty
        PROVE  x \in NodeAt(E, i + 1)
    <2>1. PICK e \in E : Live(E, e[1], i) /\ n = T(Under(E, e[1], i), i)
      BY DEF NodeAt
    <2>2. PICK k, U : k \in AllKeys /\ k = e[1] /\ U = Under(E, k, i)
      BY <1>2
    <2>3. Ok(U, i) /\ Several(U)
      BY <1>1, <1>4, <2>1, <2>2, UnderOk, TreeKinds
    <2>4. n = <<T(Half(U, i, 0), i + 1), T(Half(U, i, 1), i + 1)>>
      BY <2>1, <2>2, <2>3, TreeShape
    <2>5. PICK b \in {0, 1} : x = T(Half(U, i, b), i + 1)
      <3>1. PICK l, r : l = T(Half(U, i, 0), i + 1) /\ r = T(Half(U, i, 1), i + 1)
        OBVIOUS
      <3>2. n = <<l, r>>
        BY <2>4, <3>1
      <3>3. x = l \/ x = r
        BY <3>2
      <3>4. QED
        BY <3>1, <3>3
    <2>6. Ok(Half(U, i, b), i + 1)
      BY <2>3, HalvesOk
    <2>7. PICK f \in Half(U, i, b) : TRUE
      BY <1>4, <2>5, <2>6, TreeKinds
    <2>8. f \in E /\ Agree(f[1], k, i) /\ Bit(f[1], i) = b
      BY <2>2, <2>7 DEF Half, Under
    <2>9. PICK l \in AllKeys : l = f[1]
      BY <1>2, <2>8
    <2>10. Agree(l, k, i) /\ i \in 0 .. i
      BY <1>1, <2>8, <2>9
    <2>11. Under(E, l, i) = U /\ Live(E, l, i)
      BY <1>1, <2>1, <2>2, <2>10, SamePath
    <2>12. Under(E, l, i + 1) = Half(U, i, b)
      BY <2>8, <2>9, <2>11, PathStep
    <2>13. Live(E, l, i + 1)
      BY <1>1, <2>3, <2>11 DEF Live
    <2>14. QED
      BY <2>5, <2>8, <2>9, <2>12, <2>13 DEF NodeAt
  <1>5. PICK here, next : here = NodeAt(E, i) /\ next = NodeAt(E, i + 1)
    OBVIOUS
  <1>6. \A x : x \in next <=> x # Empty /\ \E n \in here : IsInternal(n) /\ x \in {n[1], n[2]}
    BY <1>3, <1>4, <1>5
  <1>7. next = (UNION {{n[1], n[2]} : n \in {m \in here : IsInternal(m)}}) \ {Empty}
    <2> DEFINE above == {{n[1], n[2]} : n \in {m \in here : IsInternal(m)}}
    <2>1. \A n \in here : IsInternal(n) => {n[1], n[2]} \in above
      OBVIOUS
    <2>2. \A p \in above : \E n \in here : IsInternal(n) /\ p = {n[1], n[2]}
      OBVIOUS
    <2> HIDE DEF above
    <2>3. next \subseteq (UNION above) \ {Empty}
      BY <1>6, <2>1
    <2>4. ASSUME NEW x \in (UNION above) \ {Empty} PROVE x \in next
      <3>1. PICK p \in above : x \in p /\ x # Empty
        BY <2>4
      <3>2. PICK n \in here : IsInternal(n) /\ p = {n[1], n[2]}
        BY <2>2
      <3>3. QED
        BY <1>6, <3>1, <3>2
    <2>5. next = (UNION above) \ {Empty}
      BY <2>3, <2>4
    <2>6. QED
      BY <2>5 DEF above
  <1>8. QED
    BY <1>5, <1>7

LEMMA NodesAre ==
  ASSUME NEW E, IsMap(E)
  PROVE  NodesUnder(T(E, 0)) = UNION {NodeAt(E, i) : i \in 0 .. Bits}
  <1>1. Bits \in Nat
    BY KeysAreNat
  <1>2. PICK r : r = T(E, 0)
    OBVIOUS
  <1> DEFINE g == [i \in 0 .. Bits |-> NodeAt(E, i)]
  <1>3. ASSUME NEW i \in 0 .. Bits
        PROVE  g[i] = IF i = 0 THEN {r} \ {Empty}
                      ELSE (UNION {{n[1], n[2]} : n \in {m \in g[i - 1] : IsInternal(m)}}) \ {Empty}
    <2>1. CASE i = 0
      BY <1>2, <2>1, NodeAtStart
    <2>2. CASE i # 0
      <3>1. PICK j \in 0 .. Bits - 1 : i = j + 1 /\ j = i - 1
        BY <1>1, <2>2
      <3>2. j \in 0 .. Bits
        BY <1>1
      <3>3. g[i] = NodeAt(E, j + 1) /\ g[i - 1] = NodeAt(E, j)
        BY <3>1, <3>2
      <3> HIDE DEF g
      <3>4. QED
        BY <2>2, <3>3, NodeAtStep
    <2>3. QED
      BY <2>1, <2>2
  <1>4. g = [i \in 0 .. Bits |->
               IF i = 0 THEN {r} \ {Empty}
               ELSE (UNION {{n[1], n[2]} : n \in {m \in g[i - 1] : IsInternal(m)}}) \ {Empty}]
    BY <1>3
  <1> DEFINE f == CHOOSE h : h = [i \in 0 .. Bits |->
               IF i = 0 THEN {r} \ {Empty}
               ELSE (UNION {{n[1], n[2]} : n \in {m \in h[i - 1] : IsInternal(m)}}) \ {Empty}]
  <1>5. NodesUnder(r) = UNION {f[i] : i \in 0 .. Bits}
    BY DEF NodesUnder
  <1>6. f = [i \in 0 .. Bits |->
               IF i = 0 THEN {r} \ {Empty}
               ELSE (UNION {{n[1], n[2]} : n \in {m \in f[i - 1] : IsInternal(m)}}) \ {Empty}]
    <2> HIDE DEF g
    <2>1. QED
      BY <1>4
  <1> HIDE DEF f
  <1> DEFINE F == {i \in 0 .. Bits : f[i] = NodeAt(E, i)}
  <1>7. 0 \in F
    BY <1>1, <1>2, <1>6, NodeAtStart
  <1>8. ASSUME NEW i \in 0 .. Bits - 1, i \in F PROVE i + 1 \in F
    <2>1. i + 1 \in 0 .. Bits /\ i + 1 # 0 /\ (i + 1) - 1 = i
      BY <1>1
    <2>2. f[i + 1] = (UNION {{n[1], n[2]} : n \in {m \in f[i] : IsInternal(m)}}) \ {Empty}
      BY <1>6, <2>1
    <2>3. f[i] = NodeAt(E, i)
      BY <1>8
    <2>4. f[i + 1] = NodeAt(E, i + 1)
      BY <2>2, <2>3, NodeAtStep
    <2>5. QED
      BY <2>1, <2>4
  <1>9. \A i \in 0 .. Bits : i \in F
    <2> HIDE DEF F
    <2>1. QED
      BY <1>1, <1>7, <1>8, UpwardInduction
  <1>10. \A i \in 0 .. Bits : f[i] = NodeAt(E, i)
    BY <1>9
  <1>11. QED
    BY <1>2, <1>5, <1>10

\* Once one entry is left under it, a node is that entry's leaf.
LEMMA LeafOfEntry ==
  ASSUME NEW E, IsMap(E), NEW e \in E, NEW i \in 0 .. Bits, ~Several(Under(E, e[1], i))
  PROVE  Under(E, e[1], i) = {e} /\ T(Under(E, e[1], i), i) = Leaf(e[1], e[2])
  <1>1. e[1] \in AllKeys
    BY EntryType DEF IsMap
  <1>2. e \in Under(E, e[1], i)
    BY OwnEntry
  <1>3. Under(E, e[1], i) = {e}
    BY <1>2, NoneOneSeveral
  <1>4. Ok(Under(E, e[1], i), i)
    BY <1>1, UnderOk
  <1>5. QED
    BY <1>3, <1>4, TreeShape

\* The nodes the paths lead through, and past their ends, are nodes of the tree.
LEMMA NodeOnPath ==
  ASSUME NEW E, IsMap(E), NEW e \in E, NEW i \in 0 .. Bits
  PROVE  T(Under(E, e[1], i), i) \in NodesUnder(T(E, 0))
  <1>1. e[1] \in AllKeys /\ Bits \in Nat
    BY EntryType, KeysAreNat DEF IsMap
  <1>2. ASSUME NEW j \in 0 .. Bits, Live(E, e[1], j)
        PROVE  T(Under(E, e[1], j), j) \in NodesUnder(T(E, 0))
    <2>1. T(Under(E, e[1], j), j) \in NodeAt(E, j)
      BY <1>2 DEF NodeAt
    <2>2. QED
      BY <2>1, NodesAre
  <1>3. PICK d \in 0 .. Bits : Live(E, e[1], d) /\ ~Several(Under(E, e[1], d))
    BY <1>1, PathEnds
  <1>4. CASE i <= d
    <2>1. d \in Nat /\ i \in 0 .. d
      BY <1>1, <1>4
    <2>2. Live(E, e[1], i)
      BY <1>3, <2>1, PathShrinks
    <2>3. QED
      BY <1>2, <2>2
  <1>5. CASE d < i
    <2>1. i \in Nat /\ d \in 0 .. i
      BY <1>1, <1>5
    <2>2. ~Several(Under(E, e[1], i))
      BY <1>3, <2>1, PathShrinks
    <2>3. T(Under(E, e[1], i), i) = Leaf(e[1], e[2])
      BY <2>2, LeafOfEntry
    <2>4. T(Under(E, e[1], d), d) = Leaf(e[1], e[2])
      BY <1>3, LeafOfEntry
    <2>5. QED
      BY <1>2, <1>3, <2>3, <2>4
  <1>6. QED
    BY <1>1, <1>4, <1>5

\* Conversely a node of the tree is on the path of an entry under it.
LEMMA PathOfNode ==
  ASSUME NEW E, IsMap(E), NEW n \in NodesUnder(T(E, 0))
  PROVE  \E e \in E : \E i \in 0 .. Bits : Live(E, e[1], i) /\ n = T(Under(E, e[1], i), i)
                                            /\ Ok(Under(E, e[1], i), i) /\ n # Empty
  <1>1. PICK i \in 0 .. Bits : n \in NodeAt(E, i)
    BY NodesAre
  <1>2. PICK e \in E : Live(E, e[1], i) /\ n = T(Under(E, e[1], i), i)
    BY <1>1 DEF NodeAt
  <1>3. e[1] \in AllKeys
    BY EntryType DEF IsMap
  <1>4. Ok(Under(E, e[1], i), i)
    BY <1>3, UnderOk
  <1>5. n # Empty
    BY <1>2, <1>4, OwnEntry, TreeKinds
  <1>6. QED
    BY <1>2, <1>4, <1>5

\* The leaves of the tree of E are the entries E.
LEMMA LeavesAreEntries ==
  ASSUME NEW E, IsMap(E)
  PROVE  {<<n[2], n[3]>> : n \in {m \in NodesUnder(T(E, 0)) : IsLeaf(m)}} = E
  <1>1. ASSUME NEW n \in NodesUnder(T(E, 0)), IsLeaf(n) PROVE <<n[2], n[3]>> \in E
    <2>1. PICK e \in E, i \in 0 .. Bits : n = T(Under(E, e[1], i), i) /\ Ok(Under(E, e[1], i), i)
      BY PathOfNode
    <2>2. ~Several(Under(E, e[1], i))
      BY <1>1, <2>1, TreeKinds, NoneOneSeveral
    <2>3. n = Leaf(e[1], e[2])
      BY <2>1, <2>2, LeafOfEntry
    <2>4. n[2] = e[1] /\ n[3] = e[2]
      BY <2>3 DEF Leaf
    <2>5. e = <<e[1], e[2]>>
      BY EntryType DEF IsMap
    <2>6. QED
      BY <2>4, <2>5
  <1>2. ASSUME NEW e \in E
        PROVE  \E n \in NodesUnder(T(E, 0)) : IsLeaf(n) /\ e = <<n[2], n[3]>>
    <2>1. e[1] \in AllKeys
      BY EntryType DEF IsMap
    <2>2. PICK d \in 0 .. Bits : ~Several(Under(E, e[1], d))
      BY <2>1, PathEnds
    <2>3. T(Under(E, e[1], d), d) = Leaf(e[1], e[2])
      BY <2>2, LeafOfEntry
    <2>4. Leaf(e[1], e[2]) \in NodesUnder(T(E, 0))
      BY <2>3, NodeOnPath
    <2>5. IsLeaf(Leaf(e[1], e[2])) /\ Leaf(e[1], e[2])[2] = e[1] /\ Leaf(e[1], e[2])[3] = e[2]
      BY DEF IsLeaf, Leaf
    <2>6. e = <<e[1], e[2]>>
      BY EntryType DEF IsMap
    <2>7. QED
      BY <2>4, <2>5, <2>6
  <1>3. QED
    BY <1>1, <1>2

\* The cases of find: an empty branch, another key's leaf, the key's own.
FoundNothing(E, k, d, f) ==
  /\ Under(E, k, d) = {} /\ ~f.found /\ f.isOld0 /\ T(Under(E, k, d), d) = Empty
  /\ f.notFoundKey = k /\ f.notFoundValue = 0 /\ \A x \in E : x[1] # k
FoundOther(E, k, d, f, e) ==
  /\ Under(E, k, d) = {e} /\ e[1] # k /\ ~f.found /\ ~f.isOld0
  /\ T(Under(E, k, d), d) = Leaf(e[1], e[2])
  /\ f.notFoundKey = e[1] /\ f.notFoundValue = e[2] /\ \A x \in E : x[1] # k
FoundOwn(E, k, d, f, e) ==
  /\ Under(E, k, d) = {e} /\ e = <<k, f.foundValue>> /\ f.found
  /\ T(Under(E, k, d), d) = Leaf(k, f.foundValue)

LEMMA FindCases ==
  ASSUME NEW E, IsMap(E), NEW k \in AllKeys,
         NEW d \in 0 .. Bits, Live(E, k, d), ~Several(Under(E, k, d)),
         NEW f, f = FindResult(T(E, 0), k)
  PROVE  /\ f.siblings = [i \in 1 .. d |-> T(Off(E, k, i - 1), i)]
         /\ Fits(E, k, f.siblings, T(Under(E, k, d), d), d)
         /\ \/ FoundNothing(E, k, d, f)
            \/ \E e \in E : FoundOther(E, k, d, f, e)
            \/ \E e \in E : FoundOwn(E, k, d, f, e)
  <1>1. /\ f.siblings = [i \in 1 .. d |-> T(Off(E, k, i - 1), i)]
        /\ Fits(E, k, f.siblings, T(Under(E, k, d), d), d)
    BY FindIs, FindFits DEF FindResult
  <1>2. PICK end : end = T(Under(E, k, d), d)
    OBVIOUS
  <1>3. Path(T(E, 0), k)[Depth(T(E, 0), k)] = end
    BY <1>2, FindIs
  <1>4. PICK found \in BOOLEAN : found <=> end # Empty /\ end[2] = k
    OBVIOUS
  <1>5. /\ f.found = found /\ f.isOld0 = (end = Empty)
        /\ f.foundValue = IF found THEN end[3] ELSE 0
        /\ f.notFoundKey = IF end = Empty THEN k ELSE IF found THEN 0 ELSE end[2]
        /\ f.notFoundValue = IF end = Empty \/ found THEN 0 ELSE end[3]
    BY <1>3, <1>4 DEF FindResult
  <1>6. \A x \in E : x[1] = k => x \in Under(E, k, d)
    BY DEF Under, Agree
  <1>7. Ok(Under(E, k, d), d) /\ Under(E, k, d) \subseteq E
    BY UnderOk DEF Under
  <1>8. CASE Under(E, k, d) = {}
    <2>1. end = Empty
      BY <1>2, <1>7, <1>8, TreeShape
    <2>2. \A x \in E : x[1] # k
      BY <1>6, <1>8
    <2>3. QED
      BY <1>1, <1>2, <1>4, <1>5, <1>8, <2>1, <2>2 DEF FoundNothing
  <1>9. CASE \E e \in Under(E, k, d) : Under(E, k, d) = {e}
    <2>1. PICK e \in E : Under(E, k, d) = {e}
      BY <1>7, <1>9
    <2>2. end = Leaf(e[1], e[2])
      BY <1>2, <1>7, <2>1, TreeShape
    <2>3. end # Empty /\ end[2] = e[1] /\ end[3] = e[2]
      <3>1. Len(end) = 3 /\ end[2] = e[1] /\ end[3] = e[2]
        BY <2>2 DEF Leaf
      <3>2. Len(Empty) = 0
        BY DEF Empty
      <3>3. QED
        BY <3>1, <3>2
    <2>4. e = <<e[1], e[2]>>
      BY EntryType DEF IsMap
    <2>5. CASE e[1] = k
      <3>1. found /\ f.foundValue = e[2] /\ f.found
        BY <1>4, <1>5, <2>3, <2>5
      <3>2. e = <<k, f.foundValue>>
        BY <2>4, <2>5, <3>1
      <3>3. QED
        BY <1>1, <1>2, <2>1, <2>2, <2>5, <3>1, <3>2 DEF FoundOwn
    <2>6. CASE e[1] # k
      <3>1. ~found
        BY <1>4, <2>3, <2>6
      <3>2. \A x \in E : x[1] # k
        BY <1>6, <2>1, <2>6
      <3>3. ~f.found /\ ~f.isOld0 /\ f.notFoundKey = e[1] /\ f.notFoundValue = e[2]
        BY <1>5, <2>3, <3>1
      <3>4. QED
        BY <1>1, <1>2, <2>1, <2>2, <2>6, <3>2, <3>3 DEF FoundOther
    <2>7. QED
      BY <2>5, <2>6
  <1>10. QED
    BY <1>8, <1>9, NoneOneSeveral

\* Only empty branches are taken off the end of siblings.
LEMMA LastNode ==
  ASSUME NEW s, NEW l \in Nat, Len(s) = l
  PROVE  \E n \in 0 .. l : /\ n > 0 => s[n] # Empty
                           /\ \A m \in n + 1 .. l : s[m] = Empty
                           /\ Len(UpToLastNode(s)) = n
                           /\ \A i \in 1 .. n : UpToLastNode(s)[i] = s[i]
  <1> DEFINE Cuts == {n \in 0 .. l : \A m \in n + 1 .. l : s[m] = Empty}
  <1>1. PICK c \in Cuts : \A n \in Cuts : c <= n
    <2>1. l \in Cuts /\ Cuts \subseteq Nat
      OBVIOUS
    <2> HIDE DEF Cuts
    <2>2. QED
      BY <2>1, LeastNumber
  <1>2. c > 0 => s[c] # Empty
    <2> SUFFICES ASSUME c > 0, s[c] = Empty PROVE FALSE
      OBVIOUS
    <2>1. \A m \in (c - 1) + 1 .. l : m = c \/ m \in c + 1 .. l
      OBVIOUS
    <2>2. c - 1 \in Cuts
      BY <2>1
    <2>3. QED
      BY <1>1, <2>2
  <1> DEFINE Good(n) == (n > 0 => s[n] # Empty) /\ \A m \in n + 1 .. l : s[m] = Empty
  <1>3. c \in 0 .. l /\ Good(c)
    BY <1>2
  <1>4. PICK n \in 0 .. l : Good(n) /\ n = CHOOSE m \in 0 .. l : Good(m)
    <2> HIDE DEF Good
    <2>1. QED
      BY <1>3
  <1>5. UpToLastNode(s) = SubSeq(s, 1, n)
    BY <1>4 DEF UpToLastNode
  <1>6. /\ Len(SubSeq(s, 1, n)) = n
        /\ \A i \in 1 .. n : SubSeq(s, 1, n)[i] = s[i]
    <2>1. PICK S : S = {s[i] : i \in 1 .. n}
      OBVIOUS
    <2>2. 1 \in Int /\ n \in Int /\ \A i \in 1 .. n : s[i] \in S
      BY <2>1
    <2>3. /\ Len(SubSeq(s, 1, n)) = IF 1 <= n THEN n - 1 + 1 ELSE 0
          /\ \A i \in 1 .. n - 1 + 1 : SubSeq(s, 1, n)[i] = s[1 + i - 1]
      BY <2>2, SubSeqProperties
    <2>4. n - 1 + 1 = n /\ \A i \in 1 .. n : 1 + i - 1 = i
      OBVIOUS
    <2>5. QED
      BY <2>3, <2>4
  <1>7. QED
    BY <1>4, <1>5, <1>6

---------------------------------------------------------------------------
(***************************************************************************)
(* One key's entry changes: what stays of the tree.                        *)
(***************************************************************************)
SameBut(E, F, k) == \A e \in Universe : e[1] # k => (e \in E <=> e \in F)

\* Off the key's path there are the same entries.
LEMMA OthersStay ==
  ASSUME NEW E, IsMap(E), NEW F, IsMap(F), NEW k \in AllKeys, SameBut(E, F, k),
         NEW i \in 0 .. Bits - 1
  PROVE  Off(E, k, i) = Off(F, k, i)
  <1>1. Bit(k, i) # 1 - Bit(k, i)
    <2>1. Bit(k, i) \in {0, 1}
      BY PathStep
    <2>2. QED
      BY <2>1
  <1>2. \A e : e \in Off(E, k, i) \/ e \in Off(F, k, i) => e[1] # k
    BY <1>1 DEF Off, Half
  <1>3. \A e : e \in Off(E, k, i) => e \in E /\ e \in Universe
    BY DEF Off, Half, Under, IsMap
  <1>4. \A e : e \in Off(F, k, i) => e \in F /\ e \in Universe
    BY DEF Off, Half, Under, IsMap
  <1>5. \A e : e \in E /\ e \in F => (e \in Off(E, k, i) <=> e \in Off(F, k, i))
    BY DEF Off, Half, Under
  <1>6. \A e : e \in Off(E, k, i) <=> e \in Off(F, k, i)
    BY <1>2, <1>3, <1>4, <1>5 DEF SameBut
  <1>7. QED
    BY <1>6

\* The nodes of the new tree are on the key's path or were in the old one.
LEMMA ChangedNodes ==
  ASSUME NEW E, IsMap(E), NEW F, IsMap(F), NEW k \in AllKeys, SameBut(E, F, k),
         NEW s, NEW b, NEW n, Fits(F, k, s, b, n),
         NEW x \in NodesUnder(T(F, 0))
  PROVE  x \in NodesUnder(T(E, 0)) \/ x \in Above(k, b, s) \/ (x = b /\ x # Empty)
  <1>1. Bits \in Nat /\ n \in Nat /\ n \in 0 .. Bits
    BY KeysAreNat DEF Fits
  <1>2. PICK e \in F, i \in 0 .. Bits : Live(F, e[1], i) /\ x = T(Under(F, e[1], i), i) /\ x # Empty
    BY PathOfNode
  <1>3. PICK l \in AllKeys : l = e[1]
    BY EntryType DEF IsMap
  <1>4. CASE Agree(l, k, i)
    <2>1. i \in Nat /\ i \in 0 .. i
      BY <1>1
    <2>2. Under(F, l, i) = Under(F, k, i) /\ Live(F, k, i)
      BY <1>2, <1>3, <1>4, <2>1, SamePath
    <2>3. ~(n < i)
      <3>1. ~Several(Under(F, k, n))
        BY DEF Fits
      <3>2. n < i => n \in 0 .. i - 1
        BY <1>1
      <3>3. QED
        BY <2>2, <3>1, <3>2 DEF Live
    <2>4. x = T(Under(F, k, i), i)
      BY <1>2, <1>3, <2>2
    <2>5. CASE i = n
      BY <1>2, <2>4, <2>5 DEF Fits
    <2>6. CASE i # n
      <3>1. i \in 0 .. n - 1
        BY <1>1, <2>3, <2>6
      <3>2. Above(k, b, s) = {T(Under(F, k, j), j) : j \in 0 .. n - 1}
        BY ClimbIs
      <3>3. T(Under(F, k, i), i) \in {T(Under(F, k, j), j) : j \in 0 .. n - 1}
        BY <3>1
      <3>4. QED
        BY <2>4, <3>2, <3>3
    <2>7. QED
      BY <2>5, <2>6
  <1>5. CASE ~Agree(l, k, i)
    <2>1. ASSUME NEW y \in Universe, Agree(y[1], l, i) PROVE y[1] # k
      BY <1>5, <2>1 DEF Agree
    <2>2. \A y \in Universe : Agree(y[1], l, i) => (y \in E <=> y \in F)
      BY <2>1 DEF SameBut
    <2>3. Under(F, l, i) = Under(E, l, i)
      BY <2>2 DEF Under, IsMap
    <2>4. e \in Under(E, l, i)
      <3>1. e \in Under(F, l, i)
        BY <1>3, OwnEntry
      <3>2. QED
        BY <2>3, <3>1
    <2>5. e \in E
      BY <2>4 DEF Under
    <2>6. T(Under(E, e[1], i), i) \in NodesUnder(T(E, 0))
      BY <2>5, NodeOnPath
    <2>7. QED
      BY <1>2, <1>3, <2>3, <2>6
  <1>6. QED
    BY <1>4, <1>5

\* Where a path ends in a leaf, or at an empty branch, the sibling is no
\* empty branch.
LEMMA LastSibling ==
  ASSUME NEW E, IsMap(E), NEW k \in AllKeys, NEW d \in 1 .. Bits, Live(E, k, d),
         ~Several(Under(E, k, d))
  PROVE  Off(E, k, d - 1) # {} /\ T(Off(E, k, d - 1), d) # Empty
  <1>1. PICK i \in 0 .. Bits - 1 : i = d - 1 /\ d = i + 1 /\ i \in 0 .. d - 1
    BY KeysAreNat
  <1>2. Several(Under(E, k, i)) /\ Under(E, k, i) = Under(E, k, d) \cup Off(E, k, i)
        /\ Ok(Off(E, k, i), d)
    BY <1>1, PathStep DEF Live
  <1>3. Off(E, k, i) # {}
    BY <1>2
  <1>4. QED
    BY <1>1, <1>2, <1>3, TreeKinds

LEMMA TrimFits ==
  ASSUME NEW E, NEW k, NEW s, NEW b, NEW n, Fits(E, k, s, b, n),
         n > 0 => s[n] # Empty
  PROVE  Fits(E, k, UpToLastNode(s), b, n)
  <1>1. n \in Nat /\ Len(s) = n
    BY KeysAreNat DEF Fits
  <1>2. PICK m \in 0 .. n : /\ \A j \in m + 1 .. n : s[j] = Empty
                            /\ Len(UpToLastNode(s)) = m
                            /\ \A i \in 1 .. m : UpToLastNode(s)[i] = s[i]
    BY <1>1, LastNode
  <1>3. m = n
    <2> SUFFICES ASSUME m < n PROVE FALSE
      BY <1>1
    <2>1. n \in m + 1 .. n /\ n > 0
      BY <1>1
    <2>2. QED
      BY <1>2, <2>1
  <1>4. \A i \in 0 .. n - 1 : UpToLastNode(s)[i + 1] = s[i + 1]
    BY <1>1, <1>2, <1>3
  <1>5. QED
    BY <1>2, <1>3, <1>4 DEF Fits

\* A node over several entries of the key's path is gone once the key has
\* an entry.
LEMMA OldNodesGo ==
  ASSUME NEW E, IsMap(E), NEW F, IsMap(F), NEW k \in AllKeys,
         \A x \in E : x[1] # k, NEW e \in F, e[1] = k,
         NEW i \in 0 .. Bits, Several(Under(E, k, i))
  PROVE  T(Under(E, k, i), i) \notin NodesUnder(T(F, 0))
  <1> SUFFICES ASSUME T(Under(E, k, i), i) \in NodesUnder(T(F, 0)) PROVE FALSE
    OBVIOUS
  <1>1. PICK l \in AllKeys, j \in 0 .. Bits : /\ T(Under(E, k, i), i) = T(Under(F, l, j), j)
                                              /\ Ok(Under(F, l, j), j)
    <2>1. \A x \in F : x[1] \in AllKeys
      BY EntryType DEF IsMap
    <2>2. QED
      BY <2>1, PathOfNode
  <1>2. Ok(Under(E, k, i), i)
    BY UnderOk
  <1>3. Under(E, k, i) = Under(F, l, j)
    BY <1>1, <1>2, TreesTellEntries
  <1>4. i = j
    <2>1. PICK S : S = Under(E, k, i)
      OBVIOUS
    <2>2. Ok(S, i) /\ Ok(S, j) /\ Several(S) /\ T(S, i) = T(S, j)
      BY <1>1, <1>2, <1>3, <2>1
    <2>3. QED
      BY <2>2, TreesTellLevels
  <1>5. PICK y \in Under(E, k, i) : TRUE
    BY DEF Several
  <1>6. Agree(y[1], k, i) /\ Agree(y[1], l, i)
    BY <1>3, <1>4, <1>5 DEF Under
  <1>7. Agree(k, l, i)
    BY <1>6 DEF Agree
  <1>8. e \in Under(F, l, i)
    BY <1>7 DEF Under
  <1>9. e \in E
    BY <1>3, <1>4, <1>8 DEF Under
  <1>10. QED
    BY <1>9

\* Nodes over the leaf of an entry are gone once the entry is.
LEMMA LostNodesGo ==
  ASSUME NEW F, IsMap(F), NEW k, NEW v, <<k, v>> \notin F, NEW s, NEW n \in Nat, Len(s) = n
  PROVE  ({Leaf(k, v)} \cup Above(k, Leaf(k, v), s)) \cap NodesUnder(T(F, 0)) = {}
  <1>1. Leaf(k, v) = Climb(k, Leaf(k, v), s)[n] /\ n \in 0 .. n
    <2>1. n \in 0 .. n
      OBVIOUS
    <2>2. QED
      BY <2>1, ClimbRecursion
  <1>2. \A x \in Above(k, Leaf(k, v), s) : \E i \in 0 .. n : x = Climb(k, Leaf(k, v), s)[i]
    <2>1. \A i \in 0 .. n - 1 : i \in 0 .. n
      OBVIOUS
    <2>2. QED
      BY <2>1 DEF Above
  <1>3. ASSUME NEW i \in 0 .. n, NEW x \in NodesUnder(T(F, 0)), x = Climb(k, Leaf(k, v), s)[i]
        PROVE  FALSE
    <2>1. PICK l, j : x = T(Under(F, l, j), j) /\ Ok(Under(F, l, j), j)
      BY PathOfNode
    <2>2. <<k, v>> \notin Under(F, l, j)
      BY DEF Under
    <2>3. Climb(k, Leaf(k, v), s)[i] # T(Under(F, l, j), j)
      BY <2>1, <2>2, ForeignNodes
    <2>4. QED
      BY <1>3, <2>1, <2>3
  <1>4. QED
    BY <1>1, <1>2, <1>3

\* Padding the siblings with empty branches and a leaf.
LEMMA PaddedIs ==
  ASSUME NEW S, NEW q \in Seq(S), NEW p \in Seq(S), NEW b \in S, NEW t, t = q \o p \o <<b>>
  PROVE  /\ Len(t) = Len(q) + Len(p) + 1
         /\ \A i \in 1 .. Len(q) : t[i] = q[i]
         /\ \A i \in 1 .. Len(p) : t[Len(q) + i] = p[i]
         /\ t[Len(q) + Len(p) + 1] = b
  <1>1. PICK r : r = q \o p
    OBVIOUS
  <1>2. PICK d, m : d \in Nat /\ m \in Nat /\ d = Len(q) /\ m = Len(p)
    BY LenProperties
  <1>3. r \in Seq(S) /\ Len(r) = d + m
        /\ \A i \in 1 .. d + m : r[i] = IF i <= d THEN q[i] ELSE p[i - d]
    BY <1>1, <1>2, ConcatProperties
  <1>4. <<b>> \in Seq(S) /\ Len(<<b>>) = 1 /\ <<b>>[1] = b
    OBVIOUS
  <1>5. Len(t) = d + m + 1
        /\ \A i \in 1 .. d + m + 1 : t[i] = IF i <= d + m THEN r[i] ELSE <<b>>[i - (d + m)]
    BY <1>1, <1>3, <1>4, ConcatProperties
  <1>6. \A i \in 1 .. d : t[i] = q[i]
    BY <1>2, <1>3, <1>5
  <1>7. ASSUME NEW i \in 1 .. m PROVE t[d + i] = p[i]
    <2>1. PICK j \in 1 .. d + m : j = d + i /\ j <= d + m /\ ~(j <= d) /\ j - d = i
      <3>1. d + i \in 1 .. d + m /\ d + i <= d + m /\ ~(d + i <= d) /\ (d + i) - d = i
        BY <1>2
      <3>2. QED
        BY <3>1
    <2>2. j \in 1 .. d + m + 1
      BY <1>2
    <2>3. t[j] = r[j] /\ r[j] = p[j - d]
      BY <1>3, <1>5, <2>1, <2>2
    <2>4. QED
      BY <2>1, <2>3
  <1>8. t[d + m + 1] = b
    <2>1. d + m + 1 \in 1 .. d + m + 1 /\ ~(d + m + 1 <= d + m) /\ d + m + 1 - (d + m) = 1
      BY <1>2
    <2>2. QED
      BY <1>4, <1>5, <2>1
  <1>9. QED
    BY <1>2, <1>5, <1>6, <1>7, <1>8

\* Two keys part at some level, and not where they agree.
LEMMA KeysPart ==
  ASSUME NEW k \in AllKeys, NEW l \in AllKeys, k # l, NEW d \in Nat, Agree(l, k, d)
  PROVE  /\ PartingLevel(k, l) \in 0 .. Bits - 1 /\ d <= PartingLevel(k, l)
         /\ Agree(l, k, PartingLevel(k, l))
         /\ Bit(k, PartingLevel(k, l)) # Bit(l, PartingLevel(k, l))
  <1> DEFINE Parts == {i \in 0 .. Bits - 1 : Bit(k, i) # Bit(l, i)}
             P(i) == Bit(k, i) # Bit(l, i) /\ \A j \in 0 .. i - 1 : Bit(k, j) = Bit(l, j)
  <1>1. Bits \in Nat
    BY KeysAreNat
  <1>2. Parts # {}
    BY BitsTell DEF Agree
  <1>3. PICK p \in Parts : \A i \in Parts : p <= i
    <2>1. Parts \subseteq Nat
      BY <1>1
    <2> HIDE DEF Parts
    <2>2. QED
      BY <1>2, <2>1, LeastNumber
  <1>4. P(p)
    <2>1. \A j \in 0 .. p - 1 : j \in 0 .. Bits - 1 /\ ~(p <= j)
      BY <1>1
    <2>2. QED
      BY <1>3, <2>1
  <1>5. PICK c \in 0 .. Bits - 1 : c = PartingLevel(k, l) /\ P(c)
    <2>1. PartingLevel(k, l) = CHOOSE i \in 0 .. Bits - 1 : P(i)
      BY DEF PartingLevel
    <2> HIDE DEF P
    <2>2. QED
      BY <1>4, <2>1
  <1>6. ~(c < d)
    <2>1. c < d => c \in 0 .. d - 1
      BY <1>1
    <2>2. QED
      BY <1>5, <2>1 DEF Agree
  <1>7. QED
    BY <1>1, <1>5, <1>6 DEF Agree

---------------------------------------------------------------------------
(***************************************************************************)
(* The three operations, each on the tree of some entries.                 *)
(***************************************************************************)

LEMMA OnlyEntry ==
  ASSUME NEW F, IsMap(F), NEW k \in AllKeys, NEW i \in 0 .. Bits, NEW v,
         Under(F, k, i) = {<<k, v>>}
  PROVE  ~Several(Under(F, k, i)) /\ T(Under(F, k, i), i) = Leaf(k, v)
  <1>1. PICK U, e : U = Under(F, k, i) /\ e = <<k, v>>
    OBVIOUS
  <1>2. U = {e} /\ e[1] = k /\ e[2] = v
    BY <1>1
  <1>3. Ok(U, i)
    BY <1>1, UnderOk
  <1>4. T(U, i) = Leaf(e[1], e[2])
    BY <1>2, <1>3, TreeShape
  <1>5. ~Several(U)
    BY <1>2, NoneOneSeveral
  <1>6. QED
    BY <1>1, <1>2, <1>4, <1>5

LEMMA MoreAreSeveral == ASSUME NEW R, NEW S, R \subseteq S, Several(R) PROVE Several(S)
  BY DEF Several

\* With another entry of the key, the nodes of its path and the siblings.
LEMMA WithEntry ==
  ASSUME NEW E, IsMap(E), NEW k \in AllKeys, NEW e, e[1] = k, NEW F, IsMap(F),
         F = E \cup {e}
  PROVE  /\ SameBut(E, F, k)
         /\ \A i \in 0 .. Bits : Under(F, k, i) = Under(E, k, i) \cup {e}
         /\ \A i \in 0 .. Bits - 1 : Off(F, k, i) = Off(E, k, i)
         /\ \A i \in 0 .. Bits : Live(E, k, i) => Live(F, k, i)
  <1>1. SameBut(E, F, k)
    BY DEF SameBut
  <1>2. \A i \in 0 .. Bits : Under(F, k, i) = Under(E, k, i) \cup {e}
    BY DEF Under, Agree
  <1>3. \A i \in 0 .. Bits - 1 : Off(F, k, i) = Off(E, k, i)
    BY <1>1, OthersStay
  <1>4. ASSUME NEW i \in 0 .. Bits, Live(E, k, i) PROVE Live(F, k, i)
    <2>1. \A j \in 0 .. i - 1 : j \in 0 .. Bits /\ Several(Under(E, k, j))
      BY <1>4, KeysAreNat DEF Live
    <2>2. ASSUME NEW j \in 0 .. i - 1 PROVE Several(Under(F, k, j))
      <3>1. j \in 0 .. Bits /\ Several(Under(E, k, j))
        BY <2>1
      <3>2. Under(E, k, j) \subseteq Under(F, k, j)
        BY <1>2, <3>1
      <3>3. QED
        BY <3>1, <3>2, MoreAreSeveral
    <2>3. QED
      BY <2>2 DEF Live
  <1>5. QED
    BY <1>1, <1>2, <1>3, <1>4

\* The siblings of a new leaf, and the nodes its path takes the place of, where
\* a search for its key found f.
SiblingsAfter(k, f) ==
  LET shared == PartingLevel(k, f.notFoundKey) - Len(f.siblings)
  IN IF f.isOld0 THEN f.siblings
     ELSE f.siblings \o [i \in 1 .. shared |-> Empty]
                     \o <<Leaf(f.notFoundKey, f.notFoundValue)>>

ReplacedAfter(k, f) ==
  IF f.isOld0 THEN Above(k, Empty, f.siblings)
  ELSE Above(k, Leaf(f.notFoundKey, f.notFoundValue), UpToLastNode(f.siblings))

\* An insert builds the tree with the new entry, and none of the nodes it
\* replaces is in it.
LEMMA InsertBuilds ==
  ASSUME NEW E, IsMap(E), NEW k \in Keys, NEW v \in Values,
         NEW f, f = FindResult(T(E, 0), k), ~f.found
  PROVE  \E F : /\ F = E \cup {<<k, v>>} /\ IsMap(F) /\ SameBut(E, F, k) /\ \A x \in E : x[1] # k
                /\ \E n : Fits(F, k, SiblingsAfter(k, f), Leaf(k, v), n)
                /\ ReplacedAfter(k, f) \cap NodesUnder(T(F, 0)) = {}
  <1>1. k \in AllKeys /\ Bits \in Nat
    BY KeysAreNat
  <1>2. PICK d \in 0 .. Bits : Live(E, k, d) /\ ~Several(Under(E, k, d))
    BY <1>1, PathEnds
  <1>3. PICK end : end = T(Under(E, k, d), d)
    OBVIOUS
  <1>4. /\ f.siblings = [i \in 1 .. d |-> T(Off(E, k, i - 1), i)]
        /\ Fits(E, k, f.siblings, end, d)
        /\ \/ /\ Under(E, k, d) = {} /\ f.isOld0 /\ end = Empty /\ \A x \in E : x[1] # k
           \/ \E e \in E : /\ Under(E, k, d) = {e} /\ e[1] # k /\ ~f.isOld0
                           /\ end = Leaf(e[1], e[2])
                           /\ f.notFoundKey = e[1] /\ f.notFoundValue = e[2]
                           /\ \A x \in E : x[1] # k
    <2>1. /\ f.siblings = [i \in 1 .. d |-> T(Off(E, k, i - 1), i)]
          /\ Fits(E, k, f.siblings, end, d)
      BY <1>1, <1>2, <1>3, FindCases
    <2>2. \/ FoundNothing(E, k, d, f)
          \/ \E e \in E : FoundOther(E, k, d, f, e)
          \/ \E e \in E : FoundOwn(E, k, d, f, e)
      BY <1>1, <1>2, <1>3, FindCases
    <2>3. QED
      BY <1>3, <2>1, <2>2 DEF FoundNothing, FoundOther, FoundOwn
  <1>5. \A x \in E : x[1] # k
    BY <1>4
  <1>6. PICK F : F = E \cup {<<k, v>>}
    OBVIOUS
  <1>7. IsMap(F)
    BY <1>5, <1>6 DEF IsMap, Universe
  <1>8. /\ SameBut(E, F, k)
        /\ \A i \in 0 .. Bits : Under(F, k, i) = Under(E, k, i) \cup {<<k, v>>}
        /\ \A i \in 0 .. Bits - 1 : Off(F, k, i) = Off(E, k, i)
        /\ \A i \in 0 .. Bits : Live(E, k, i) => Live(F, k, i)
    <2>1. PICK e : e = <<k, v>>
      OBVIOUS
    <2>2. e[1] = k /\ F = E \cup {e}
      BY <1>6, <2>1
    <2>3. SameBut(E, F, k)
      BY <1>1, <1>7, <2>2, WithEntry
    <2>4. \A i \in 0 .. Bits : Under(F, k, i) = Under(E, k, i) \cup {e}
      BY <1>1, <1>7, <2>2, WithEntry
    <2>5. /\ \A i \in 0 .. Bits - 1 : Off(F, k, i) = Off(E, k, i)
          /\ \A i \in 0 .. Bits : Live(E, k, i) => Live(F, k, i)
      <3>1. \A i \in 0 .. Bits - 1 : Off(F, k, i) = Off(E, k, i)
        BY <1>1, <1>7, <2>2, WithEntry
      <3>2. \A i \in 0 .. Bits : Live(E, k, i) => Live(F, k, i)
        BY <1>1, <1>7, <2>2, WithEntry
      <3>3. QED
        BY <3>1, <3>2
    <2>6. QED
      BY <2>1, <2>3, <2>4, <2>5
  <1>9. \A i \in 0 .. d - 1 : f.siblings[i + 1] = T(Off(F, k, i), i + 1) /\ i \in 0 .. Bits - 1
    <2>1. \A i \in 0 .. d - 1 : f.siblings[i + 1] = T(Off(E, k, i), i + 1)
      BY <1>4 DEF Fits
    <2>2. \A i \in 0 .. d - 1 : i \in 0 .. Bits - 1
      BY <1>1
    <2>3. QED
      BY <1>8, <2>1, <2>2
  <1>10. ASSUME NEW s, Fits(E, k, s, end, d)
         PROVE  Above(k, end, s) \cap NodesUnder(T(F, 0)) = {}
    <2>1. Above(k, end, s) = {T(Under(E, k, i), i) : i \in 0 .. d - 1}
      BY <1>1, <1>10, ClimbIs
    <2>2. ASSUME NEW i \in 0 .. d - 1 PROVE T(Under(E, k, i), i) \notin NodesUnder(T(F, 0))
      <3>1. i \in 0 .. Bits /\ Several(Under(E, k, i))
        BY <1>1, <1>2 DEF Live
      <3>2. <<k, v>> \in F /\ <<k, v>>[1] = k
        BY <1>6
      <3>3. QED
        BY <1>1, <1>5, <1>7, <3>1, <3>2, OldNodesGo
    <2>3. QED
      BY <2>1, <2>2
  <1>11. CASE Under(E, k, d) = {} /\ f.isOld0 /\ end = Empty
    <2>1. Under(F, k, d) = {<<k, v>>}
      BY <1>8, <1>11
    <2>2. ~Several(Under(F, k, d)) /\ T(Under(F, k, d), d) = Leaf(k, v)
      <3>1. k \in AllKeys /\ d \in 0 .. Bits /\ IsMap(F)
        BY <1>1, <1>7
      <3>2. QED
        BY <2>1, <3>1, OnlyEntry
    <2>3. Len(f.siblings) = d
      BY <1>4 DEF Fits
    <2>4. Fits(F, k, f.siblings, Leaf(k, v), d)
      BY <1>2, <1>8, <1>9, <2>2, <2>3 DEF Fits
    <2>5. SiblingsAfter(k, f) = f.siblings /\ ReplacedAfter(k, f) = Above(k, Empty, f.siblings)
      BY <1>11 DEF SiblingsAfter, ReplacedAfter
    <2>6. ReplacedAfter(k, f) \cap NodesUnder(T(F, 0)) = {}
      BY <1>4, <1>10, <1>11, <2>5
    <2>7. QED
      BY <1>5, <1>6, <1>7, <1>8, <2>4, <2>5, <2>6
  <1>12. ASSUME NEW e \in E, Under(E, k, d) = {e}, e[1] # k, ~f.isOld0, end = Leaf(e[1], e[2]),
                f.notFoundKey = e[1], f.notFoundValue = e[2]
         PROVE  /\ \E n : Fits(F, k, SiblingsAfter(k, f), Leaf(k, v), n)
                /\ ReplacedAfter(k, f) \cap NodesUnder(T(F, 0)) = {}
    <2>1. PICK l \in AllKeys : l = e[1]
      BY EntryType DEF IsMap
    <2>2. d \in Nat /\ k # l /\ Agree(l, k, d)
      BY <1>1, <1>12, <2>1 DEF Under
    <2>3. PICK p \in 0 .. Bits - 1 : p = PartingLevel(k, l) /\ d <= p /\ Agree(l, k, p)
                                     /\ Bit(k, p) # Bit(l, p)
      BY <1>1, <2>2, KeysPart
    <2>4. p \in Nat /\ p + 1 \in 0 .. Bits /\ p - d \in Nat
      BY <1>1, <2>2, <2>3
    <2>5. \A i \in 0 .. p : e \in Under(E, k, i)
      <3>1. \A i \in 0 .. p : \A j \in 0 .. i - 1 : j \in 0 .. p - 1
        BY <2>4
      <3>2. QED
        BY <2>1, <2>3, <3>1 DEF Under, Agree
    <2>6. \A i \in d .. p : Under(E, k, i) = {e}
      <3>1. ASSUME NEW i \in d .. p PROVE Under(E, k, i) = {e}
        <4>1. i \in Nat /\ d \in 0 .. i /\ i \in 0 .. p
          BY <2>2, <2>4
        <4>2. Under(E, k, i) \subseteq {e}
          BY <1>12, <4>1, PathShrinks
        <4>3. QED
          BY <2>5, <4>1, <4>2
      <3>2. QED
        BY <3>1
    <2>7. Bit(e[1], p) = 1 - Bit(k, p) /\ \A i \in d .. p - 1 : Bit(e[1], i) # 1 - Bit(k, i)
      <3>1. k \in Nat /\ l \in Nat /\ p \in Nat
        BY <1>1, <2>4, KeysAreNat
      <3>2. Bit(k, p) \in {0, 1} /\ Bit(l, p) \in {0, 1}
        BY <3>1, BitType
      <3>3. ASSUME NEW i \in d .. p - 1 PROVE Bit(l, i) # 1 - Bit(k, i)
        <4>1. i \in 0 .. p - 1 /\ i \in Nat
          BY <2>2, <2>4
        <4>2. Bit(l, i) = Bit(k, i)
          BY <2>3, <4>1 DEF Agree
        <4>3. Bit(k, i) \in {0, 1}
          BY <3>1, <4>1, BitType
        <4>4. QED
          BY <4>2, <4>3
      <3>4. QED
        BY <2>1, <2>3, <3>2, <3>3
    <2>8. Off(E, k, p) = {e} /\ \A i \in d .. p - 1 : Off(E, k, i) = {}
      <3>1. \A i \in d .. p - 1 : i \in d .. p
        BY <2>2, <2>4
      <3>2. p \in d .. p
        BY <2>2, <2>3, <2>4
      <3>3. QED
        BY <2>6, <2>7, <3>1, <3>2 DEF Off, Half
    <2>9. T(Off(F, k, p), p + 1) = Leaf(e[1], e[2]) /\ \A i \in d .. p - 1 : T(Off(F, k, i), i + 1) = Empty
      <3>1. \A i \in d .. p : i \in 0 .. Bits - 1
        BY <1>1, <2>2, <2>3
      <3>2. \A i \in d .. p : Ok(Off(F, k, i), i + 1)
        BY <1>1, <1>7, <3>1, PathStep
      <3>3. p \in d .. p /\ \A i \in d .. p - 1 : i \in d .. p
        BY <2>2, <2>3, <2>4
      <3>4. Off(F, k, p) = {e} /\ \A i \in d .. p - 1 : Off(F, k, i) = {}
        BY <1>8, <2>8, <3>1, <3>3
      <3>5. QED
        BY <3>2, <3>3, <3>4, TreeShape
    <2>10. Under(F, k, p + 1) = {<<k, v>>}
      <3>1. Under(E, k, p + 1) \cup Off(E, k, p) = Under(E, k, p) /\ Under(E, k, p + 1) \cap Off(E, k, p) = {}
        BY <1>1, PathStep
      <3>2. Under(E, k, p) = {e}
        BY <2>2, <2>3, <2>4, <2>6
      <3>3. Under(E, k, p + 1) = {}
        BY <2>8, <3>1, <3>2
      <3>4. QED
        BY <1>8, <2>4, <3>3
    <2>11. ~Several(Under(F, k, p + 1)) /\ T(Under(F, k, p + 1), p + 1) = Leaf(k, v)
      BY <1>1, <1>7, <2>4, <2>10, OnlyEntry
    <2>12. Live(F, k, p + 1)
      <3>1. ASSUME NEW i \in 0 .. (p + 1) - 1 PROVE Several(Under(F, k, i))
        <4>1. i \in 0 .. p /\ i \in 0 .. Bits
          BY <1>1, <2>4
        <4>2. e \in Under(F, k, i) /\ <<k, v>> \in Under(F, k, i)
          BY <1>8, <2>5, <4>1
        <4>3. e # <<k, v>>
          BY <1>12
        <4>4. QED
          BY <4>2, <4>3 DEF Several
      <3>2. QED
        BY <3>1 DEF Live
    <2>13. PICK s : s = SiblingsAfter(k, f)
      OBVIOUS
    <2>14. /\ Len(s) = d + (p - d) + 1
           /\ \A i \in 1 .. d : s[i] = f.siblings[i]
           /\ \A i \in d + 1 .. d + (p - d) : s[i] = Empty
           /\ s[d + (p - d) + 1] = Leaf(e[1], e[2])
      <3>1. PICK q : q = f.siblings
        OBVIOUS
      <3>2. Len(q) = d
        BY <1>4, <3>1 DEF Fits
      <3>3. q = [i \in 1 .. d |-> q[i]]
        BY <1>4, <3>1
      <3>4. s = q \o [i \in 1 .. p - d |-> Empty] \o <<Leaf(e[1], e[2])>>
        BY <1>12, <2>1, <2>3, <2>13, <3>1, <3>2 DEF SiblingsAfter
      <3>5. PICK m, b, pad : m \in Nat /\ m = p - d /\ b = Leaf(e[1], e[2])
                             /\ pad = [i \in 1 .. m |-> Empty]
        BY <2>4
      <3>6. PICK S : S = {q[i] : i \in 1 .. d} \cup {Empty, b}
        OBVIOUS
      <3>7. q \in [1 .. d -> S] /\ pad \in [1 .. m -> S] /\ b \in S
        BY <3>3, <3>5, <3>6
      <3>8. q \in Seq(S) /\ pad \in Seq(S) /\ Len(pad) = m
        BY <2>2, <3>5, <3>7, SeqDef
      <3>9. s = q \o pad \o <<b>>
        BY <3>4, <3>5
      <3>10. /\ Len(s) = d + m + 1
             /\ \A i \in 1 .. d : s[i] = q[i]
             /\ \A i \in 1 .. m : s[d + i] = pad[i]
             /\ s[d + m + 1] = b
        <4>1. /\ Len(s) = Len(q) + Len(pad) + 1
              /\ \A i \in 1 .. Len(q) : s[i] = q[i]
              /\ \A i \in 1 .. Len(pad) : s[Len(q) + i] = pad[i]
              /\ s[Len(q) + Len(pad) + 1] = b
          <5>1. q \in Seq(S) /\ pad \in Seq(S) /\ b \in S
            BY <3>7, <3>8
          <5>2. QED
            BY <3>9, <5>1, PaddedIs
        <4>2. QED
          BY <3>2, <3>8, <4>1
      <3>11. ASSUME NEW i \in d + 1 .. d + m PROVE s[i] = Empty
        <4>1. PICK j \in 1 .. m : i = d + j
          <5>1. i - d \in 1 .. m /\ i = d + (i - d)
            BY <2>2, <3>5
          <5>2. QED
            BY <5>1
        <4>2. QED
          BY <3>5, <3>10, <4>1
      <3>12. QED
        BY <3>1, <3>5, <3>10, <3>11
    <2>15. ASSUME NEW i \in 0 .. (p + 1) - 1 PROVE s[i + 1] = T(Off(F, k, i), i + 1)
      <3>1. CASE i < d
        <4>1. i + 1 \in 1 .. d /\ i \in 0 .. d - 1
          BY <2>2, <2>4, <3>1
        <4>2. QED
          BY <1>9, <2>14, <4>1
      <3>2. CASE d <= i /\ i < p
        <4>1. i + 1 \in d + 1 .. d + (p - d) /\ i \in d .. p - 1
          BY <2>2, <2>4, <3>2
        <4>2. QED
          BY <2>9, <2>14, <4>1
      <3>3. CASE i = p
        <4>1. i + 1 = d + (p - d) + 1
          BY <2>2, <2>4, <3>3
        <4>2. QED
          BY <2>9, <2>14, <3>3, <4>1
      <3>4. QED
        BY <2>2, <2>4, <3>1, <3>2, <3>3
    <2>16. Fits(F, k, s, Leaf(k, v), p + 1)
      <3>1. Len(s) = p + 1
        BY <2>2, <2>4, <2>14
      <3>2. QED
        BY <2>4, <2>11, <2>12, <2>15, <3>1 DEF Fits
    <2>17. Fits(E, k, UpToLastNode(f.siblings), end, d)
      <3>1. d > 0 => f.siblings[d] # Empty
        <4> SUFFICES ASSUME d > 0 PROVE f.siblings[d] # Empty
          OBVIOUS
        <4>1. d \in 1 .. Bits /\ d \in 1 .. d
          BY <1>1
        <4>2. T(Off(E, k, d - 1), d) # Empty
          BY <1>1, <1>2, <4>1, LastSibling
        <4>3. QED
          BY <1>4, <4>1, <4>2
      <3>2. QED
        BY <1>4, <3>1, TrimFits
    <2>18. ReplacedAfter(k, f) = Above(k, end, UpToLastNode(f.siblings))
      BY <1>12 DEF ReplacedAfter
    <2>19. QED
      BY <1>10, <2>13, <2>16, <2>17, <2>18
  <1>13. QED
    BY <1>4, <1>5, <1>6, <1>7, <1>8, <1>11, <1>12

\* The key's own entry, where find finds it.
LEMMA FoundEntry ==
  ASSUME NEW E, IsMap(E), NEW k \in AllKeys, NEW f, f = FindResult(T(E, 0), k), f.found
  PROVE  \E d \in 0 .. Bits : \E o \in E :
           /\ Live(E, k, d) /\ Under(E, k, d) = {o} /\ o = <<k, f.foundValue>>
           /\ Fits(E, k, f.siblings, Leaf(k, f.foundValue), d)
           /\ \A i \in 0 .. Bits : o \in Under(E, k, i)
           /\ \A x \in E : x # o => x[1] # k
  <1>1. PICK d \in 0 .. Bits : Live(E, k, d) /\ ~Several(Under(E, k, d))
    BY PathEnds
  <1>2. /\ Fits(E, k, f.siblings, T(Under(E, k, d), d), d)
        /\ \E e \in E : /\ Under(E, k, d) = {e} /\ e = <<k, f.foundValue>>
                        /\ T(Under(E, k, d), d) = Leaf(k, f.foundValue)
    <2>1. Fits(E, k, f.siblings, T(Under(E, k, d), d), d)
      BY <1>1, FindCases
    <2>2. \/ FoundNothing(E, k, d, f)
          \/ \E e \in E : FoundOther(E, k, d, f, e)
          \/ \E e \in E : FoundOwn(E, k, d, f, e)
      BY <1>1, FindCases
    <2>3. QED
      BY <2>1, <2>2 DEF FoundNothing, FoundOther, FoundOwn
  <1>3. PICK o \in E : /\ Under(E, k, d) = {o} /\ o = <<k, f.foundValue>>
                       /\ T(Under(E, k, d), d) = Leaf(k, f.foundValue)
    BY <1>2
  <1>4. o[1] = k
    BY <1>3
  <1>5. \A i \in 0 .. Bits : o \in Under(E, k, i)
    BY <1>4, OwnEntry
  <1>6. \A x \in E : x # o => x[1] # k
    BY <1>4 DEF IsMap
  <1>7. Fits(E, k, f.siblings, Leaf(k, f.foundValue), d)
    BY <1>2, <1>3
  <1>8. QED
    BY <1>1, <1>3, <1>5, <1>6, <1>7

\* An update builds the tree with the new value.
LEMMA UpdateBuilds ==
  ASSUME NEW E, IsMap(E), NEW k \in Keys, NEW v \in Values,
         NEW f, f = FindResult(T(E, 0), k), f.found, NEW old, old = f.foundValue
  PROVE  \E F : /\ <<k, old>> \in E /\ F = (E \ {<<k, old>>}) \cup {<<k, v>>}
                /\ IsMap(F) /\ SameBut(E, F, k)
                /\ \E n : Fits(F, k, f.siblings, Leaf(k, v), n)
                /\ v # old => ({Leaf(k, old)} \cup Above(k, Leaf(k, old), f.siblings))
                                \cap NodesUnder(T(F, 0)) = {}
  <1>1. k \in AllKeys /\ Bits \in Nat
    BY KeysAreNat
  <1>2. PICK s : s = f.siblings
    OBVIOUS
  <1>3. PICK d \in 0 .. Bits, o \in E :
           /\ Live(E, k, d) /\ Under(E, k, d) = {o} /\ o = <<k, old>>
           /\ Fits(E, k, s, Leaf(k, old), d)
           /\ \A i \in 0 .. Bits : o \in Under(E, k, i)
           /\ \A x \in E : x # o => x[1] # k
    BY <1>1, <1>2, FoundEntry
  <1>4. PICK e : e = <<k, v>>
    OBVIOUS
  <1>5. PICK F : F = (E \ {o}) \cup {e}
    OBVIOUS
  <1>6. e[1] = k /\ o[1] = k /\ e \in Universe
    BY <1>3, <1>4 DEF Universe
  <1>7. IsMap(F)
    <2>1. \A x \in F : x \in Universe /\ (x # e => x \in E /\ x[1] # k)
      BY <1>3, <1>5, <1>6 DEF IsMap
    <2>2. ASSUME NEW x \in F, NEW y \in F, x[1] = y[1] PROVE x = y
      BY <1>6, <2>1, <2>2 DEF IsMap
    <2>3. QED
      BY <2>1, <2>2 DEF IsMap
  <1>8. SameBut(E, F, k)
    BY <1>5, <1>6 DEF SameBut
  <1>9. ASSUME NEW i \in 0 .. Bits
        PROVE  Under(F, k, i) = (Under(E, k, i) \ {o}) \cup {e}
    BY <1>5, <1>6 DEF Under, Agree
  <1>10. Under(F, k, d) = {<<k, v>>}
    BY <1>3, <1>4, <1>9
  <1>11. ~Several(Under(F, k, d)) /\ T(Under(F, k, d), d) = Leaf(k, v)
    BY <1>1, <1>7, <1>10, OnlyEntry
  <1>12. Live(F, k, d)
    <2>1. ASSUME NEW i \in 0 .. d - 1 PROVE Several(Under(F, k, i))
      <3>1. i \in 0 .. Bits /\ Several(Under(E, k, i))
        BY <1>1, <1>3 DEF Live
      <3>2. PICK y \in Under(E, k, i) : y # o
        BY <3>1 DEF Several
      <3>3. y \in E
        BY DEF Under
      <3>4. y[1] # k
        BY <1>3, <3>2, <3>3
      <3>5. y # e
        BY <1>6, <3>4
      <3>6. y \in Under(F, k, i) /\ e \in Under(F, k, i)
        BY <1>9, <3>1, <3>2
      <3>7. QED
        BY <3>5, <3>6 DEF Several
    <2>2. QED
      BY <2>1 DEF Live
  <1>13. Len(s) = d /\ \A i \in 0 .. d - 1 : s[i + 1] = T(Off(E, k, i), i + 1)
    BY <1>3 DEF Fits
  <1>14. \A i \in 0 .. d - 1 : s[i + 1] = T(Off(F, k, i), i + 1)
    <2>1. ASSUME NEW i \in 0 .. d - 1 PROVE Off(E, k, i) = Off(F, k, i)
      <3>1. i \in 0 .. Bits - 1
        BY <1>1
      <3>2. QED
        BY <1>1, <1>7, <1>8, <3>1, OthersStay
    <2>2. QED
      BY <1>13, <2>1
  <1>15. Fits(F, k, s, Leaf(k, v), d)
    BY <1>11, <1>12, <1>13, <1>14 DEF Fits
  <1>16. v # old => ({Leaf(k, old)} \cup Above(k, Leaf(k, old), s)) \cap NodesUnder(T(F, 0)) = {}
    <2> SUFFICES ASSUME v # old
                 PROVE  ({Leaf(k, old)} \cup Above(k, Leaf(k, old), s)) \cap NodesUnder(T(F, 0)) = {}
      OBVIOUS
    <2>1. o # e
      BY <1>3, <1>4
    <2>2. <<k, old>> \notin F
      BY <1>3, <1>5, <2>1
    <2>3. d \in Nat
      BY <1>1
    <2>4. QED
      BY <1>7, <1>13, <2>2, <2>3, LostNodesGo
  <1>17. F = (E \ {<<k, old>>}) \cup {<<k, v>>} /\ <<k, old>> \in E
    BY <1>3, <1>4, <1>5
  <1>18. QED
    BY <1>2, <1>7, <1>8, <1>15, <1>16, <1>17

\* delete_leaf where the last sibling stays where it is.
LEMMA DeleteLeavesSibling ==
  ASSUME NEW E, IsMap(E), NEW k \in AllKeys, NEW F, IsMap(F), SameBut(E, F, k),
         NEW s, NEW d, NEW b, Fits(E, k, s, b, d), NEW o, Under(E, k, d) = {o},
         \A i \in 0 .. Bits : Under(F, k, i) = Under(E, k, i) \ {o},
         d > 0 => ~IsLeaf(s[d])
  PROVE  Fits(F, k, UpToLastNode(s), Empty, d)
  <1>1. Bits \in Nat /\ d \in Nat /\ d \in 0 .. Bits /\ Len(s) = d
    BY KeysAreNat DEF Fits
  <1>2. \A i \in 0 .. d - 1 : i \in 0 .. Bits - 1 /\ s[i + 1] = T(Off(E, k, i), i + 1)
    BY <1>1 DEF Fits
  <1>3. \A i \in 0 .. d - 1 : s[i + 1] = T(Off(F, k, i), i + 1)
    BY <1>2, OthersStay
  <1>4. Under(F, k, d) = {}
    BY <1>1
  <1>5. ~Several(Under(F, k, d)) /\ T(Under(F, k, d), d) = Empty
    BY <1>1, <1>4, UnderOk, TreeKinds, NoneOneSeveral
  <1>6. CASE d = 0
    <2>1. Live(F, k, d)
      BY <1>6, PathStart
    <2>2. Fits(F, k, s, Empty, d)
      BY <1>1, <1>3, <1>5, <2>1 DEF Fits
    <2>3. QED
      BY <1>6, <2>2, TrimFits
  <1>7. CASE d > 0
    <2>1. PICK c \in 0 .. d - 1 : d = c + 1 /\ c = d - 1
      BY <1>1, <1>7
    <2>2. c \in 0 .. Bits - 1 /\ s[d] = T(Off(E, k, c), d) /\ d \in 1 .. Bits
      BY <1>1, <1>2, <2>1
    <2>3. Off(E, k, c) # {} /\ s[d] # Empty
      <3>1. Live(E, k, d) /\ ~Several(Under(E, k, d))
        BY DEF Fits
      <3>2. QED
        BY <2>1, <2>2, <3>1, LastSibling
    <2>4. /\ Under(E, k, c) = Under(E, k, d) \cup Off(E, k, c)
          /\ Under(E, k, d) \cap Off(E, k, c) = {} /\ Ok(Off(E, k, c), d)
      BY <2>1, <2>2, PathStep
    <2>5. Several(Off(E, k, c))
      <3>1. ~IsLeaf(T(Off(E, k, c), d))
        BY <1>7, <2>2
      <3>2. QED
        BY <2>3, <2>4, <3>1, TreeKinds, NoneOneSeveral
    <2>6. Live(F, k, d)
      <3>1. ASSUME NEW i \in 0 .. d - 1 PROVE Several(Under(F, k, i))
        <4>1. c \in Nat /\ i \in 0 .. c /\ i \in 0 .. Bits
          BY <1>1, <2>1
        <4>2. Under(E, k, c) \subseteq Under(E, k, i)
          BY <4>1, PathShrinks
        <4>3. Under(F, k, i) = Under(E, k, i) \ {o}
          BY <4>1
        <4>4. Off(E, k, c) \subseteq Under(F, k, i)
          BY <2>4, <4>2, <4>3
        <4>5. QED
          BY <2>5, <4>4, MoreAreSeveral
      <3>2. QED
        BY <3>1 DEF Live
    <2>7. Fits(F, k, s, Empty, d)
      BY <1>1, <1>3, <1>5, <2>6 DEF Fits
    <2>8. QED
      BY <2>3, <2>7, TrimFits
  <1>8. QED
    BY <1>1, <1>6, <1>7

\* The sequence r is the first n of s.
Begins(r, s, n) == Len(r) = n /\ \A i \in 1 .. n : r[i] = s[i]

\* delete_leaf where the last sibling is a leaf: the leaf moves up, past the
\* empty branches above it.
LEMMA DeletePromotesSibling ==
  ASSUME NEW E, IsMap(E), NEW k \in AllKeys, NEW F, IsMap(F), SameBut(E, F, k),
         NEW s, NEW d, NEW b, Fits(E, k, s, b, d), NEW o, Under(E, k, d) = {o},
         \A i \in 0 .. Bits : Under(F, k, i) = Under(E, k, i) \ {o},
         d > 0, IsLeaf(s[d]),
         NEW r, Begins(r, s, d - 1)
  PROVE  \E n : Fits(F, k, UpToLastNode(r), s[d], n)
  <1>1. Bits \in Nat /\ d \in Nat /\ d \in 0 .. Bits /\ Len(s) = d
    BY KeysAreNat DEF Fits
  <1>2. \A i \in 0 .. d - 1 : i \in 0 .. Bits - 1 /\ s[i + 1] = T(Off(E, k, i), i + 1)
    BY <1>1 DEF Fits
  <1>3. \A i \in 0 .. d - 1 : s[i + 1] = T(Off(F, k, i), i + 1)
    BY <1>2, OthersStay
  <1>4. PICK c \in 0 .. d - 1 : d = c + 1 /\ c = d - 1
    BY <1>1
  <1>5. c \in Nat /\ c \in 0 .. Bits - 1 /\ s[d] = T(Off(E, k, c), d)
    BY <1>1, <1>2, <1>4
  <1>6. /\ Under(E, k, c) = Under(E, k, d) \cup Off(E, k, c)
        /\ Under(E, k, d) \cap Off(E, k, c) = {} /\ Ok(Off(E, k, c), d)
    BY <1>4, <1>5, PathStep
  <1>7. PICK e \in Off(E, k, c) : Off(E, k, c) = {e}
    BY <1>5, <1>6, TreeKinds
  <1>8. Under(E, k, c) = {o, e} /\ e # o /\ s[d] = Leaf(e[1], e[2])
    BY <1>5, <1>6, <1>7, TreeShape
  <1>9. PICK m \in 0 .. c : /\ m > 0 => r[m] # Empty
                            /\ \A j \in m + 1 .. c : r[j] = Empty
                            /\ Len(UpToLastNode(r)) = m
                            /\ \A i \in 1 .. m : UpToLastNode(r)[i] = r[i]
    <2>1. Len(r) = c
      BY <1>4 DEF Begins
    <2>2. QED
      BY <1>5, <2>1, LastNode
  <1>10. \A i \in 0 .. c - 1 : r[i + 1] = T(Off(E, k, i), i + 1) /\ i \in 0 .. Bits - 1
                               /\ r[i + 1] = T(Off(F, k, i), i + 1)
    <2>1. \A i \in 0 .. c - 1 : i \in 0 .. d - 1 /\ i + 1 \in 1 .. d - 1
      BY <1>1, <1>4
    <2>2. \A i \in 1 .. d - 1 : r[i] = s[i]
      BY DEF Begins
    <2>3. QED
      BY <1>2, <1>3, <2>1, <2>2
  <1> DEFINE P == {i \in 0 .. c : m <= i => Under(E, k, i) = {o, e}}
  <1>11. c \in P
    BY <1>5, <1>8
  <1>12. ASSUME NEW i \in 0 .. c - 1, i + 1 \in P PROVE i \in P
    <2>1. i \in 0 .. c
      BY <1>5
    <2>2. ASSUME m <= i PROVE Under(E, k, i) = {o, e}
      <3>1. i + 1 \in m + 1 .. c /\ m <= i + 1
        BY <1>5, <2>2
      <3>2. T(Off(E, k, i), i + 1) = Empty
        BY <1>9, <1>10, <3>1
      <3>3. Ok(Off(E, k, i), i + 1) /\ Under(E, k, i) = Under(E, k, i + 1) \cup Off(E, k, i)
        BY <1>10, PathStep
      <3>4. Off(E, k, i) = {}
        BY <3>2, <3>3, TreeKinds
      <3>5. Under(E, k, i + 1) = {o, e}
        BY <1>12, <3>1
      <3>6. QED
        BY <3>3, <3>4, <3>5
    <2>3. QED
      BY <2>1, <2>2
  <1>13. Under(E, k, m) = {o, e}
    <2>1. \A i \in 0 .. c : i \in P
      <3> HIDE DEF P
      <3>1. QED
        BY <1>5, <1>11, <1>12, DownwardInduction
    <2>2. m \in P /\ m <= m
      BY <1>5, <2>1
    <2>3. QED
      BY <2>2
  <1>14. m \in Nat /\ m \in 0 .. Bits
    BY <1>1, <1>5
  <1>15. Under(F, k, m) = {e}
    BY <1>8, <1>13, <1>14
  <1>16. ~Several(Under(F, k, m)) /\ T(Under(F, k, m), m) = s[d]
    BY <1>8, <1>14, <1>15, UnderOk, TreeShape, NoneOneSeveral
  <1>17. ASSUME NEW i \in 0 .. m - 1 PROVE Several(Under(F, k, i))
    <2>1. PICK j \in 0 .. m - 1 : m = j + 1 /\ j = m - 1
      BY <1>14
    <2>2. j \in 0 .. c - 1 /\ m > 0 /\ j \in Nat /\ i \in 0 .. j /\ i \in 0 .. Bits
      BY <1>1, <1>5, <1>14, <2>1
    <2>3. T(Off(E, k, j), m) # Empty /\ j \in 0 .. Bits - 1
      BY <1>9, <1>10, <2>1, <2>2
    <2>4. /\ Under(E, k, j) = Under(E, k, m) \cup Off(E, k, j) /\ Ok(Off(E, k, j), m)
          /\ Under(E, k, m) \cap Off(E, k, j) = {}
      BY <2>1, <2>3, PathStep
    <2>5. PICK y \in Off(E, k, j) : TRUE
      BY <2>3, <2>4, TreeKinds
    <2>6. y # o /\ y # e /\ y \in Under(E, k, j) /\ e \in Under(E, k, j)
      BY <1>13, <2>4, <2>5
    <2>7. Under(E, k, j) \subseteq Under(E, k, i)
      BY <2>2, PathShrinks
    <2>8. Under(F, k, i) = Under(E, k, i) \ {o}
      BY <2>2
    <2>9. y \in Under(F, k, i) /\ e \in Under(F, k, i)
      BY <1>8, <2>6, <2>7, <2>8
    <2>10. QED
      BY <2>6, <2>9 DEF Several
  <1>18. \A i \in 0 .. m - 1 : UpToLastNode(r)[i + 1] = T(Off(F, k, i), i + 1)
    <2>1. \A i \in 0 .. m - 1 : i \in 0 .. c - 1 /\ i + 1 \in 1 .. m
      BY <1>5, <1>14
    <2>2. QED
      BY <1>9, <1>10, <2>1
  <1>19. Live(F, k, m)
    BY <1>17 DEF Live
  <1>20. Fits(F, k, UpToLastNode(r), s[d], m)
    BY <1>9, <1>14, <1>16, <1>18, <1>19 DEF Fits
  <1>21. QED
    BY <1>20

\* The siblings delete_leaf keeps, and what it puts under them.
RestOf(s) == IF PromotesSibling(s) THEN Front(s) ELSE s
BottomOf(s) == IF PromotesSibling(s) THEN Last(s) ELSE Empty

\* The tree of F, over what is kept, has none of the nodes over rest.
Replaces(F, k, old, rest, bottom) ==
  /\ \E n : Fits(F, k, UpToLastNode(rest), bottom, n)
  /\ ({Leaf(k, old)} \cup Above(k, Leaf(k, old), rest)) \cap NodesUnder(T(F, 0)) = {}

\* delete_leaf builds the tree without the entry.
LEMMA DeleteBuilds ==
  ASSUME NEW E, IsMap(E), NEW k \in Keys, NEW f, f = FindResult(T(E, 0), k), f.found,
         NEW s, s = f.siblings, NEW old, old = f.foundValue,
         NEW rest, rest = RestOf(s), NEW bottom, bottom = BottomOf(s)
  PROVE  \E F : /\ <<k, old>> \in E /\ F = E \ {<<k, old>>}
                /\ IsMap(F) /\ SameBut(E, F, k)
                /\ Replaces(F, k, old, rest, bottom)
  <1>1. k \in AllKeys /\ Bits \in Nat
    BY KeysAreNat
  <1>2. PICK d \in 0 .. Bits, o \in E :
           /\ Live(E, k, d) /\ Under(E, k, d) = {o} /\ o = <<k, old>>
           /\ Fits(E, k, s, Leaf(k, old), d)
           /\ \A i \in 0 .. Bits : o \in Under(E, k, i)
           /\ \A x \in E : x # o => x[1] # k
    BY <1>1, FoundEntry
  <1>3. PICK F : F = E \ {o}
    OBVIOUS
  <1>4. IsMap(F)
    BY <1>3 DEF IsMap
  <1>5. o[1] = k
    BY <1>2
  <1>6. SameBut(E, F, k)
    BY <1>3, <1>5 DEF SameBut
  <1>7. \A i \in 0 .. Bits : Under(F, k, i) = Under(E, k, i) \ {o}
    BY <1>3 DEF Under
  <1>8. Len(s) = d /\ d \in Nat
    BY <1>1, <1>2 DEF Fits
  <1>9. PromotesSibling(s) <=> d > 0 /\ IsLeaf(s[d])
    <2>1. d = 0 => s = << >>
      <3>1. s = [i \in 1 .. d |-> s[i]]
        <4>1. s = Siblings(T(E, 0), k)
          BY DEF FindResult
        <4>2. DOMAIN s = 1 .. d
          BY <1>1, <1>2, <4>1, FindFits, NoneOneSeveral
        <4>3. s = [i \in DOMAIN s |-> s[i]]
          BY <4>1 DEF Siblings
        <4>4. QED
          BY <4>2, <4>3
      <3>2. d = 0 => 1 .. d = {}
        OBVIOUS
      <3>3. QED
        BY <3>1, <3>2
    <2>2. d # 0 => s # << >>
      BY <1>8
    <2>3. QED
      BY <1>8, <2>1, <2>2 DEF PromotesSibling, Last
  <1>10. ASSUME d > 0, IsLeaf(s[d])
         PROVE  /\ rest = Front(s) /\ bottom = s[d] /\ Len(rest) = d - 1
                /\ \A i \in 1 .. d - 1 : rest[i] = s[i]
    <2>1. rest = Front(s) /\ bottom = s[d]
      BY <1>8, <1>9, <1>10 DEF Last, RestOf, BottomOf
    <2>2. rest = SubSeq(s, 1, d - 1)
      BY <1>8, <2>1 DEF Front
    <2>3. PICK S, c : S = {s[i] : i \in 1 .. d - 1} /\ c \in Nat /\ c = d - 1
      <3>1. d - 1 \in Nat
        BY <1>8, <1>10
      <3>2. QED
        BY <3>1
    <2>4. 1 \in Int /\ c \in Int /\ \A i \in 1 .. c : s[i] \in S
      BY <2>3
    <2>5. /\ Len(SubSeq(s, 1, c)) = IF 1 <= c THEN c - 1 + 1 ELSE 0
          /\ \A i \in 1 .. c - 1 + 1 : SubSeq(s, 1, c)[i] = s[1 + i - 1]
      BY <2>4, SubSeqProperties
    <2>6. c - 1 + 1 = c /\ \A i \in 1 .. c : 1 + i - 1 = i
      BY <2>3
    <2>7. QED
      BY <2>1, <2>2, <2>3, <2>5, <2>6
  <1>11. \E n : Fits(F, k, UpToLastNode(rest), bottom, n)
    <2>1. CASE d > 0 /\ IsLeaf(s[d])
      <3>1. bottom = s[d] /\ Begins(rest, s, d - 1)
        BY <1>10, <2>1 DEF Begins
      <3>2. d > 0 /\ IsLeaf(s[d]) /\ Fits(E, k, s, Leaf(k, old), d) /\ Under(E, k, d) = {o}
        BY <1>2, <2>1
      <3>3. \E n : Fits(F, k, UpToLastNode(rest), s[d], n)
        BY <1>1, <1>4, <1>6, <1>7, <3>1, <3>2, DeletePromotesSibling
      <3>4. QED
        BY <3>1, <3>3
    <2>2. CASE ~(d > 0 /\ IsLeaf(s[d]))
      <3>1. rest = s /\ bottom = Empty
        BY <1>9, <2>2 DEF RestOf, BottomOf
      <3>2. (d > 0 => ~IsLeaf(s[d])) /\ Fits(E, k, s, Leaf(k, old), d) /\ Under(E, k, d) = {o}
        BY <1>2, <2>2
      <3>3. Fits(F, k, UpToLastNode(s), Empty, d)
        BY <1>1, <1>4, <1>6, <1>7, <3>2, DeleteLeavesSibling
      <3>4. QED
        BY <3>1, <3>3
    <2>3. QED
      BY <2>1, <2>2
  <1>12. ({Leaf(k, old)} \cup Above(k, Leaf(k, old), rest)) \cap NodesUnder(T(F, 0)) = {}
    <2>1. PICK c \in Nat : Len(rest) = c
      <3>1. CASE d > 0 /\ IsLeaf(s[d])
        <4>1. Len(rest) = d - 1 /\ d - 1 \in Nat
          BY <1>8, <1>10, <3>1
        <4>2. QED
          BY <4>1
      <3>2. CASE ~(d > 0 /\ IsLeaf(s[d]))
        <4>1. rest = s
          BY <1>9, <3>2 DEF RestOf
        <4>2. QED
          BY <1>8, <4>1
      <3>3. QED
        BY <3>1, <3>2
    <2>2. <<k, old>> \notin F
      BY <1>2, <1>3
    <2>3. QED
      BY <1>4, <2>1, <2>2, LostNodesGo
  <1>13. QED
    BY <1>2, <1>3, <1>4, <1>6, <1>11, <1>12 DEF Replaces

---------------------------------------------------------------------------
(***************************************************************************)
(* The steps of the contract, on the tree of the entries E.                *)
(***************************************************************************)
IsNode(n) == IsLeaf(n) \/ IsInternal(n)

LEMMA AboveAreNodes ==
  ASSUME NEW k, NEW b, NEW s, NEW n \in Nat, Len(s) = n
  PROVE  \A x \in Above(k, b, s) : IsNode(x)
  <1>1. ASSUME NEW i \in 0 .. n - 1 PROVE IsNode(Climb(k, b, s)[i])
    <2>1. i \in 0 .. n /\ i # n
      OBVIOUS
    <2>2. PICK y : y = Climb(k, b, s)[i + 1]
      OBVIOUS
    <2>3. Climb(k, b, s)[i] = Join(k, i, s[i + 1], y)
      BY <2>1, <2>2, ClimbRecursion
    <2>4. Len(Join(k, i, s[i + 1], y)) = 2
      BY DEF Join
    <2>5. QED
      BY <2>3, <2>4 DEF IsNode, IsInternal
  <1>2. QED
    BY <1>1 DEF Above

LEMMA FitsLength ==
  ASSUME NEW E, NEW k, NEW s, NEW b, NEW n, Fits(E, k, s, b, n)
  PROVE  n \in Nat /\ Len(s) = n /\ \A x \in Above(k, b, s) : IsNode(x)
  <1>1. n \in Nat /\ Len(s) = n
    BY KeysAreNat DEF Fits
  <1>2. QED
    BY <1>1, AboveAreNodes

LEMMA LeafIsNode == \A k, v : IsNode(Leaf(k, v))
  BY DEF IsNode, IsLeaf, Leaf

\* What a step leaves: the tree of F, of nodes, and the whole of it stored.
StepOk(E, F) ==
  /\ IsMap(F) /\ root' = T(F, 0)
  /\ (\A n \in nodes : IsNode(n)) => \A n \in nodes' : IsNode(n)
  /\ root' # root /\ NodesUnder(T(E, 0)) \subseteq nodes => NodesUnder(T(F, 0)) \subseteq nodes'

LEMMA InsertStep ==
  ASSUME NEW E, IsMap(E), root = T(E, 0), NEW k \in Keys, NEW v \in Values, InsertLeaf(k, v)
  PROVE  \E F : F = E \cup {<<k, v>>} /\ (\A x \in E : x[1] # k) /\ StepOk(E, F)
  <1>1. PICK f : f = Find(k) /\ f = FindResult(T(E, 0), k) /\ ~f.found /\ k \in AllKeys
    BY KeysAreNat DEF InsertLeaf, Find
  <1>2. PICK F : /\ F = E \cup {<<k, v>>} /\ IsMap(F) /\ SameBut(E, F, k) /\ \A x \in E : x[1] # k
                 /\ \E n : Fits(F, k, SiblingsAfter(k, f), Leaf(k, v), n)
                 /\ ReplacedAfter(k, f) \cap NodesUnder(T(F, 0)) = {}
    BY <1>1, InsertBuilds
  <1>3. PICK s, b, n, gone : /\ s = SiblingsAfter(k, f) /\ b = Leaf(k, v) /\ Fits(F, k, s, b, n)
                             /\ gone = ReplacedAfter(k, f)
    BY <1>2
  <1>4. root' = RootOver(k, b, s) /\ nodes' = (nodes \ gone) \cup Above(k, b, s) \cup {b}
    <2>1. s = NewSiblings(k) /\ gone = ReplacedNodes(k)
      BY <1>1, <1>3 DEF NewSiblings, SiblingsAfter, ReplacedNodes, ReplacedAfter
    <2>2. QED
      BY <1>3, <2>1 DEF InsertLeaf
  <1>5. root' = T(F, 0)
    BY <1>1, <1>2, <1>3, <1>4, ClimbIs
  <1>6. (\A x \in nodes : IsNode(x)) => \A x \in nodes' : IsNode(x)
    BY <1>3, <1>4, FitsLength, LeafIsNode
  <1>7. ASSUME NodesUnder(T(E, 0)) \subseteq nodes, NEW x \in NodesUnder(T(F, 0)) PROVE x \in nodes'
    <2>1. x \in NodesUnder(T(E, 0)) \/ x \in Above(k, b, s) \/ (x = b /\ x # Empty)
      BY <1>1, <1>2, <1>3, ChangedNodes
    <2>2. x \notin gone
      BY <1>2, <1>3
    <2>3. QED
      BY <1>4, <1>7, <2>1, <2>2
  <1>8. QED
    BY <1>2, <1>5, <1>6, <1>7 DEF StepOk

LEMMA UpdateStep ==
  ASSUME NEW E, IsMap(E), root = T(E, 0), NEW k \in Keys, NEW v \in Values, UpdateLeaf(k, v)
  PROVE  \E F, old : /\ <<k, old>> \in E /\ F = (E \ {<<k, old>>}) \cup {<<k, v>>}
                     /\ StepOk(E, F)
  <1>1. PICK f : f = Find(k) /\ f = FindResult(T(E, 0), k) /\ f.found /\ k \in AllKeys
    BY KeysAreNat DEF UpdateLeaf, Find
  <1>2. PICK old : old = f.foundValue
    OBVIOUS
  <1>3. PICK F : /\ <<k, old>> \in E /\ F = (E \ {<<k, old>>}) \cup {<<k, v>>}
                 /\ IsMap(F) /\ SameBut(E, F, k)
                 /\ \E n : Fits(F, k, f.siblings, Leaf(k, v), n)
                 /\ v # old => ({Leaf(k, old)} \cup Above(k, Leaf(k, old), f.siblings))
                                 \cap NodesUnder(T(F, 0)) = {}
    BY <1>1, <1>2, UpdateBuilds
  <1>4. PICK s, b, n, gone : /\ s = f.siblings /\ b = Leaf(k, v) /\ Fits(F, k, s, b, n)
                             /\ gone = {Leaf(k, old)} \cup Above(k, Leaf(k, old), s)
    BY <1>3
  <1>5. root' = RootOver(k, b, s) /\ nodes' = (nodes \cup {b} \cup Above(k, b, s)) \ gone
    BY <1>1, <1>2, <1>4 DEF UpdateLeaf
  <1>6. root' = T(F, 0)
    BY <1>1, <1>3, <1>4, <1>5, ClimbIs
  <1>7. (\A x \in nodes : IsNode(x)) => \A x \in nodes' : IsNode(x)
    BY <1>4, <1>5, FitsLength, LeafIsNode
  <1>8. root' # root => v # old
    <2> SUFFICES ASSUME v = old PROVE root' = root
      OBVIOUS
    <2>1. F = E
      BY <1>3
    <2>2. QED
      BY <1>6, <2>1
  <1>9. ASSUME NodesUnder(T(E, 0)) \subseteq nodes, root' # root, NEW x \in NodesUnder(T(F, 0))
        PROVE  x \in nodes'
    <2>1. x \in NodesUnder(T(E, 0)) \/ x \in Above(k, b, s) \/ (x = b /\ x # Empty)
      BY <1>1, <1>3, <1>4, ChangedNodes
    <2>2. x \notin gone
      BY <1>3, <1>4, <1>8, <1>9
    <2>3. QED
      BY <1>5, <1>9, <2>1, <2>2
  <1>10. QED
    BY <1>3, <1>6, <1>7, <1>9 DEF StepOk

LEMMA DeleteStep ==
  ASSUME NEW E, IsMap(E), root = T(E, 0), NEW k \in Keys, DeleteLeaf(k)
  PROVE  \E F, old : <<k, old>> \in E /\ F = E \ {<<k, old>>} /\ StepOk(E, F)
  <1>1. PICK f : f = Find(k) /\ f = FindResult(T(E, 0), k) /\ f.found /\ k \in AllKeys
    BY KeysAreNat DEF DeleteLeaf, Find
  <1>2. PICK s, old, rest, b : /\ s = f.siblings /\ old = f.foundValue
                               /\ rest = RestOf(s) /\ b = BottomOf(s)
    OBVIOUS
  <1>3. PICK F : /\ <<k, old>> \in E /\ F = E \ {<<k, old>>}
                 /\ IsMap(F) /\ SameBut(E, F, k)
                 /\ Replaces(F, k, old, rest, b)
    BY <1>1, <1>2, DeleteBuilds
  <1>4. PICK kept, n, gone : /\ kept = UpToLastNode(rest) /\ Fits(F, k, kept, b, n)
                             /\ gone = {Leaf(k, old)} \cup Above(k, Leaf(k, old), rest)
    BY <1>3 DEF Replaces
  <1>5. /\ s # << >> => Last(s) \in nodes
        /\ root' = RootOver(k, b, kept) /\ nodes' = (nodes \ gone) \cup Above(k, b, kept)
    BY <1>1, <1>2, <1>4 DEF DeleteLeaf, RestOf, BottomOf
  <1>6. root' = T(F, 0)
    BY <1>1, <1>3, <1>4, <1>5, ClimbIs
  <1>7. (\A x \in nodes : IsNode(x)) => \A x \in nodes' : IsNode(x)
    BY <1>4, <1>5, FitsLength
  <1>8. ASSUME NodesUnder(T(E, 0)) \subseteq nodes, NEW x \in NodesUnder(T(F, 0)) PROVE x \in nodes'
    <2>1. x \in NodesUnder(T(E, 0)) \/ x \in Above(k, b, kept) \/ (x = b /\ x # Empty)
      BY <1>1, <1>3, <1>4, ChangedNodes
    <2>2. x \notin gone
      BY <1>3, <1>4 DEF Replaces
    <2>3. x = b /\ x # Empty => x \in nodes
      BY <1>2, <1>5 DEF BottomOf, PromotesSibling
    <2>4. QED
      BY <1>5, <1>8, <2>1, <2>2, <2>3
  <1>9. QED
    BY <1>3, <1>6, <1>7, <1>8 DEF StepOk

---------------------------------------------------------------------------
(***************************************************************************)
(* The inductive invariant: the leaves under the root give no key two      *)
(* values, and the root is the root of their tree.  Nothing weaker is      *)
(* kept by the steps: insert_leaf finds the place of a key by its bits     *)
(* only in a tree that is laid out by them.                                *)
(***************************************************************************)
TreeInv == IsMap(Entries) /\ root = T(Entries, 0)

LEMMA EntriesAre ==
  ASSUME NEW E, IsMap(E)
  PROVE  /\ root = T(E, 0) => Entries = E /\ TreeInv
         /\ root' = T(E, 0) => Entries' = E /\ TreeInv'
  <1>1. {<<n[2], n[3]>> : n \in {m \in NodesUnder(T(E, 0)) : IsLeaf(m)}} = E
    BY LeavesAreEntries
  <1>2. ASSUME root = T(E, 0) PROVE Entries = E
    BY <1>1, <1>2 DEF Entries, Reachable
  <1>3. ASSUME root' = T(E, 0) PROVE Entries' = E
    BY <1>1, <1>3 DEF Entries, Reachable
  <1>4. root = T(E, 0) => TreeInv
    BY <1>2 DEF TreeInv
  <1>5. root' = T(E, 0) => TreeInv'
    <2>1. ASSUME root' = T(E, 0) PROVE IsMap(Entries)' /\ root' = T(Entries, 0)'
      BY <1>3, <2>1 DEF IsMap
    <2>2. QED
      BY <2>1 DEF TreeInv
  <1>6. QED
    BY <1>2, <1>3, <1>4, <1>5

LEMMA TreeInit == Init => TreeInv
  <1> SUFFICES ASSUME Init PROVE TreeInv
    OBVIOUS
  <1>1. IsMap({}) /\ Ok({}, 0)
    BY KeysAreNat DEF IsMap, Ok
  <1>2. root = T({}, 0)
    BY <1>1, TreeShape DEF Init
  <1>3. QED
    BY <1>1, <1>2, EntriesAre

\* What a step can do to the entries.
Inserts(E, F, k, v) == (\A x \in E : x[1] # k) /\ F = E \cup {<<k, v>>}
Updates(E, F, k, v) == \E old : <<k, old>> \in E /\ F = (E \ {<<k, old>>}) \cup {<<k, v>>}
Deletes(E, F, k) == \E old : <<k, old>> \in E /\ F = E \ {<<k, old>>}

EntryStep(E, F) ==
  \/ \E k \in Keys, v \in Values : Inserts(E, F, k, v) \/ Updates(E, F, k, v)
  \/ \E k \in Keys : Deletes(E, F, k)
  \/ F = E

LEMMA TreeStep ==
  ASSUME TreeInv, [Next]_smtVars
  PROVE  /\ TreeInv' /\ EntryStep(Entries, Entries')
         /\ (\A n \in nodes : IsNode(n)) => \A n \in nodes' : IsNode(n)
         /\ root' # root /\ Reachable \subseteq nodes => Reachable' \subseteq nodes'
  <1>1. PICK E : E = Entries /\ IsMap(E) /\ root = T(E, 0)
    BY DEF TreeInv
  <1>2. \E F : StepOk(E, F) /\ EntryStep(E, F)
    <2>1. ASSUME NEW k \in Keys, NEW v \in Values, InsertLeaf(k, v)
          PROVE  \E F : StepOk(E, F) /\ EntryStep(E, F)
      <3>1. PICK F : F = E \cup {<<k, v>>} /\ (\A x \in E : x[1] # k) /\ StepOk(E, F)
        BY <1>1, <2>1, InsertStep
      <3>2. Inserts(E, F, k, v)
        BY <3>1 DEF Inserts
      <3>3. QED
        BY <3>1, <3>2 DEF EntryStep
    <2>2. ASSUME NEW k \in Keys, NEW v \in Values, UpdateLeaf(k, v)
          PROVE  \E F : StepOk(E, F) /\ EntryStep(E, F)
      <3>1. PICK F, old : /\ <<k, old>> \in E /\ F = (E \ {<<k, old>>}) \cup {<<k, v>>}
                          /\ StepOk(E, F)
        BY <1>1, <2>2, UpdateStep
      <3>2. Updates(E, F, k, v)
        BY <3>1 DEF Updates
      <3>3. QED
        BY <3>1, <3>2 DEF EntryStep
    <2>3. ASSUME NEW k \in Keys, DeleteLeaf(k) PROVE \E F : StepOk(E, F) /\ EntryStep(E, F)
      <3>1. PICK F, old : <<k, old>> \in E /\ F = E \ {<<k, old>>} /\ StepOk(E, F)
        BY <1>1, <2>3, DeleteStep
      <3>2. Deletes(E, F, k)
        BY <3>1 DEF Deletes
      <3>3. QED
        BY <3>1, <3>2 DEF EntryStep
    <2>4. CASE UNCHANGED <<root, nodes>>
      <3>1. StepOk(E, E)
        BY <1>1, <2>4 DEF StepOk
      <3>2. EntryStep(E, E)
        BY DEF EntryStep
      <3>3. QED
        BY <3>1, <3>2
    <2>5. QED
      BY <2>1, <2>2, <2>3, <2>4 DEF Next, UpdateAdmin, smtVars
  <1>3. PICK F : StepOk(E, F) /\ EntryStep(E, F)
    BY <1>2
  <1>4. IsMap(F) /\ root' = T(F, 0)
    BY <1>3 DEF StepOk
  <1>5. Entries' = F /\ TreeInv'
    BY <1>4, EntriesAre
  <1>6. Reachable = NodesUnder(T(E, 0)) /\ Reachable' = NodesUnder(T(F, 0))
    BY <1>1, <1>4 DEF Reachable
  <1>7. EntryStep(Entries, Entries')
    BY <1>1, <1>3, <1>5
  <1>8. QED
    BY <1>3, <1>5, <1>6, <1>7 DEF StepOk

(***************************************************************************)
(* insert_leaf, update_leaf and delete_leaf leave every node a leaf triple *)
(* or a pair, and every leaf one of a known key.                           *)
(***************************************************************************)
THEOREM TypeCorrect == Spec => []TypeOK
  <1>1. Init => TreeInv /\ TypeOK
    <2>1. Init => TreeInv
      BY TreeInit
    <2>2. TreeInv => Entries \subseteq Keys \X Values
      BY DEF TreeInv, IsMap, Universe
    <2>3. QED
      BY <2>1, <2>2 DEF Init, TypeOK
  <1>2. TreeInv /\ TypeOK /\ [Next]_smtVars => (TreeInv /\ TypeOK)'
    <2> SUFFICES ASSUME TreeInv, TypeOK, [Next]_smtVars PROVE (TreeInv /\ TypeOK)'
      OBVIOUS
    <2>1. TreeInv' /\ ((\A n \in nodes : IsNode(n)) => \A n \in nodes' : IsNode(n))
      BY TreeStep
    <2>2. Entries' \subseteq Keys \X Values
      BY <2>1 DEF TreeInv, IsMap, Universe
    <2>3. \A n \in nodes' : IsLeaf(n) \/ IsInternal(n)
      BY <2>1 DEF TypeOK, IsNode
    <2>4. admin' \in Admins
      BY DEF TypeOK, Next, smtVars, InsertLeaf, UpdateLeaf, DeleteLeaf, UpdateAdmin
    <2>5. QED
      BY <2>1, <2>2, <2>3, <2>4 DEF TypeOK
  <1>3. QED
    BY <1>1, <1>2, PTL DEF Spec

(***************************************************************************)
(* The root depends on the entries alone: whatever inserts, updates and    *)
(* deletes led to them, it is the root the circuits and the browser build. *)
(***************************************************************************)
THEOREM RootDependsOnEntries == Spec => []RootIsCanonical
  <1>1. TreeInv => RootIsCanonical
    BY CanonicalIsT DEF TreeInv, IsMap, RootIsCanonical
  <1>2. TreeInv /\ [Next]_smtVars => TreeInv'
    BY TreeStep
  <1>3. QED
    BY TreeInit, <1>1, <1>2, PTL DEF Spec

\* The store is whole before the first call.
LEMMA StoreInit == Init => StoreIsComplete
  <1> SUFFICES ASSUME Init PROVE Reachable \subseteq nodes
    BY DEF StoreIsComplete
  <1>1. IsMap({}) /\ Ok({}, 0)
    BY KeysAreNat DEF IsMap, Ok
  <1>2. root = T({}, 0)
    BY <1>1, TreeShape DEF Init
  <1>3. NodesUnder(root) = {}
    BY <1>1, <1>2, PathOfNode
  <1>4. QED
    BY <1>3 DEF Reachable

\* An update to the same value removes the leaf of a key that is still there.
LEMMA SameUpdateLoses ==
  ASSUME TreeInv, NEW k \in Keys, NEW v \in Values, <<k, v>> \in Entries, UpdateLeaf(k, v)
  PROVE  ~StoreIsComplete'
  <1>1. PICK E : E = Entries /\ IsMap(E) /\ root = T(E, 0)
    BY DEF TreeInv
  <1>2. PICK e \in E : e = <<k, v>>
    BY <1>1
  <1>3. e[1] = k /\ e[2] = v /\ k \in AllKeys /\ Bits \in Nat
    BY <1>2, KeysAreNat
  <1>4. PICK F, old : /\ <<k, old>> \in E /\ F = (E \ {<<k, old>>}) \cup {<<k, v>>}
                      /\ StepOk(E, F)
    BY <1>1, UpdateStep
  <1>5. old = v
    BY <1>1, <1>2, <1>3, <1>4 DEF IsMap
  <1>6. F = E
    BY <1>2, <1>4, <1>5
  <1>7. root' = T(E, 0)
    BY <1>4, <1>6 DEF StepOk
  <1>8. Leaf(k, v) \in NodesUnder(T(E, 0))
    <2>1. PICK d \in 0 .. Bits : Live(E, k, d) /\ ~Several(Under(E, k, d))
      BY <1>1, <1>3, PathEnds
    <2>2. T(Under(E, k, d), d) = Leaf(k, v)
      BY <1>1, <1>2, <1>3, <2>1, LeafOfEntry
    <2>3. T(Under(E, k, d), d) \in NodesUnder(T(E, 0))
      BY <1>1, <1>2, <1>3, NodeOnPath
    <2>4. QED
      BY <2>2, <2>3
  <1>9. Leaf(k, v) \notin nodes'
    <2>1. PICK f : f = Find(k) /\ f = FindResult(T(E, 0), k) /\ f.found
      BY <1>1 DEF UpdateLeaf, Find
    <2>2. PICK o \in E : o = <<k, f.foundValue>>
      BY <1>1, <1>3, <2>1, FoundEntry
    <2>3. f.foundValue = v
      BY <1>1, <1>2, <1>3, <2>2 DEF IsMap
    <2>4. QED
      BY <2>1, <2>3 DEF UpdateLeaf
  <1>10. Reachable' = NodesUnder(T(E, 0))
    BY <1>7 DEF Reachable
  <1>11. QED
    BY <1>8, <1>9, <1>10 DEF StoreIsComplete

\* Only a new admin and an update to the same value leave the entries alone.
LEMMA SameEntries ==
  ASSUME TreeInv, Next, Entries' = Entries, ~SameUpdate
  PROVE  nodes' = nodes
  <1>1. PICK E : E = Entries /\ IsMap(E) /\ root = T(E, 0)
    BY DEF TreeInv
  <1>2. ASSUME NEW k \in Keys, NEW v \in Values, InsertLeaf(k, v) PROVE FALSE
    <2>1. PICK F : F = E \cup {<<k, v>>} /\ (\A x \in E : x[1] # k) /\ StepOk(E, F)
      BY <1>1, <1>2, InsertStep
    <2>2. Entries' = F
      BY <2>1, EntriesAre DEF StepOk
    <2>3. PICK x \in E : x = <<k, v>>
      BY <1>1, <2>1, <2>2
    <2>4. QED
      BY <2>1, <2>3
  <1>3. ASSUME NEW k \in Keys, NEW v \in Values, UpdateLeaf(k, v) PROVE FALSE
    <2>1. PICK F, old : /\ <<k, old>> \in E /\ F = (E \ {<<k, old>>}) \cup {<<k, v>>}
                        /\ StepOk(E, F)
      BY <1>1, <1>3, UpdateStep
    <2>2. Entries' = F
      BY <2>1, EntriesAre DEF StepOk
    <2>3. <<k, v>> \in Entries
      BY <2>1, <2>2
    <2>4. QED
      BY <1>3, <2>3 DEF SameUpdate
  <1>4. ASSUME NEW k \in Keys, DeleteLeaf(k) PROVE FALSE
    <2>1. PICK F, old : <<k, old>> \in E /\ F = E \ {<<k, old>>} /\ StepOk(E, F)
      BY <1>1, <1>4, DeleteStep
    <2>2. Entries' = F
      BY <2>1, EntriesAre DEF StepOk
    <2>3. QED
      BY <1>1, <2>1, <2>2
  <1>5. QED
    BY <1>2, <1>3, <1>4 DEF Next, UpdateAdmin

(***************************************************************************)
(* No call but one removes a node that is still under the root: as long as *)
(* no key is updated to the value it has, every key can be reached         *)
(* (lib.rs:15-19).  And such an update does: the store that was whole is   *)
(* not afterwards (lib.rs:655).                                            *)
(***************************************************************************)
THEOREM StoreStaysComplete ==
  Spec => /\ StoreIsComplete
          /\ [][StoreIsComplete => (StoreIsComplete' <=> ~SameUpdate)]_smtVars
  <1>1. TreeInv /\ [Next]_smtVars
          => TreeInv' /\ [StoreIsComplete => (StoreIsComplete' <=> ~SameUpdate)]_smtVars
    <2> SUFFICES ASSUME TreeInv, [Next]_smtVars
                 PROVE  /\ TreeInv'
                        /\ \/ StoreIsComplete => (StoreIsComplete' <=> ~SameUpdate)
                           \/ UNCHANGED smtVars
      OBVIOUS
    <2>1. TreeInv' /\ (root' # root /\ Reachable \subseteq nodes => Reachable' \subseteq nodes')
      BY TreeStep
    <2>2. SameUpdate => ~StoreIsComplete'
      BY SameUpdateLoses DEF SameUpdate
    <2>3. CASE root' # root
      BY <2>1, <2>2, <2>3 DEF StoreIsComplete
    <2>4. CASE root' = root /\ Next
      <3>1. Reachable' = Reachable /\ Entries' = Entries
        BY <2>4 DEF Reachable, Entries
      <3>2. ~SameUpdate => nodes' = nodes
        BY <2>4, <3>1, SameEntries
      <3>3. ~SameUpdate => (StoreIsComplete => StoreIsComplete')
        BY <3>1, <3>2 DEF StoreIsComplete
      <3>4. QED
        BY <2>1, <2>2, <3>3
    <2>5. QED
      BY <2>1, <2>3, <2>4
  <1>2. QED
    BY TreeInit, StoreInit, <1>1, PTL DEF Spec

---------------------------------------------------------------------------
(***************************************************************************)
(* verify_non_membership, on the proofs find_key hands out.                *)
(***************************************************************************)
\* A store with all the nodes of a tree has those of every path.
LEMMA PathInStore ==
  ASSUME NEW E, IsMap(E), NEW store, NodesUnder(T(E, 0)) \subseteq store, NEW k \in AllKeys
  PROVE  \A i \in 0 .. Depth(T(E, 0), k) : Path(T(E, 0), k)[i] \in store \cup {Empty}
  <1>1. PICK d \in 0 .. Bits : Live(E, k, d) /\ ~Several(Under(E, k, d))
    BY PathEnds
  <1>2. Depth(T(E, 0), k) = d
    BY <1>1, FindIs
  <1>3. ASSUME NEW i \in 0 .. d PROVE Path(T(E, 0), k)[i] \in store \cup {Empty}
    <2>1. i \in 0 .. Bits /\ d \in Nat /\ i \in Nat /\ i \in 0 .. i
      BY KeysAreNat
    <2>2. Live(E, k, i)
      BY <1>1, <2>1, PathShrinks
    <2>3. Path(T(E, 0), k)[i] = T(Under(E, k, i), i)
      BY <2>1, <2>2, PathIs
    <2>4. Ok(Under(E, k, i), i)
      BY <2>1, UnderOk
    <2>5. CASE Under(E, k, i) = {}
      BY <2>3, <2>4, <2>5, TreeShape
    <2>6. CASE Under(E, k, i) # {}
      <3>1. PICK e \in Under(E, k, i) : TRUE
        BY <2>6
      <3>2. e \in E /\ Agree(e[1], k, i)
        BY DEF Under
      <3>3. Under(E, e[1], i) = Under(E, k, i)
        BY <2>1, <3>2, SamePath
      <3>4. T(Under(E, e[1], i), i) \in NodesUnder(T(E, 0))
        BY <2>1, <3>2, NodeOnPath
      <3>5. QED
        BY <2>3, <3>3, <3>4
    <2>7. QED
      BY <2>5, <2>6
  <1>4. QED
    BY <1>2, <1>3

LEMMA StoredPath ==
  ASSUME TreeInv, StoreIsComplete, NEW k \in AllKeys
  PROVE  PathIsStored(k)
  <1>1. PICK E : E = Entries /\ IsMap(E) /\ root = T(E, 0)
    BY DEF TreeInv
  <1>2. NodesUnder(T(E, 0)) \subseteq nodes
    BY <1>1 DEF StoreIsComplete, Reachable
  <1>3. QED
    BY <1>1, <1>2, PathInStore DEF PathIsStored

LEMMA AbsenceProof ==
  ASSUME TreeInv, StoreIsComplete, \A e \in Entries : e[2] # 0, NEW k \in AllKeys,
         NEW f, f = Find(k)
  PROVE  VerifyNonMembership(k, f.siblings, f.notFoundKey, f.notFoundValue)
           = IF k \in EntryKeys THEN "false" ELSE "true"
  <1>1. PICK E : E = Entries /\ IsMap(E) /\ root = T(E, 0)
    BY DEF TreeInv
  <1>2. PICK d \in 0 .. Bits : Live(E, k, d) /\ ~Several(Under(E, k, d))
    BY <1>1, PathEnds
  <1>3. f = FindResult(T(E, 0), k)
    BY <1>1 DEF Find
  <1>4. PICK end, s : end = T(Under(E, k, d), d) /\ s = f.siblings
    OBVIOUS
  <1>5. Fits(E, k, s, end, d)
    BY <1>1, <1>2, <1>3, <1>4, FindCases
  <1>6. RootOver(k, end, s) = root
    BY <1>1, <1>5, ClimbIs
  <1>7. PathIsStored(k)
    BY StoredPath
  <1>8. k \in EntryKeys <=> \E e \in E : e[1] = k
    BY <1>1 DEF EntryKeys
  <1>9. PICK bottom : bottom = IF f.notFoundKey # k /\ f.notFoundValue # 0
                                 THEN Leaf(f.notFoundKey, f.notFoundValue) ELSE Empty
    OBVIOUS
  <1>10. VerifyNonMembership(k, s, f.notFoundKey, f.notFoundValue)
           = IF f.found THEN "false" ELSE IF RootOver(k, bottom, s) # root THEN "InvalidProof"
             ELSE "true"
    BY <1>4, <1>7, <1>9 DEF VerifyNonMembership
  <1>11. \/ FoundNothing(E, k, d, f)
         \/ \E e \in E : FoundOther(E, k, d, f, e)
         \/ \E e \in E : FoundOwn(E, k, d, f, e)
    BY <1>1, <1>2, <1>3, FindCases
  <1>12. CASE FoundNothing(E, k, d, f)
    <2>1. ~f.found /\ k \notin EntryKeys /\ bottom = end
      BY <1>4, <1>8, <1>9, <1>12 DEF FoundNothing
    <2>2. QED
      BY <1>4, <1>6, <1>10, <2>1
  <1>13. ASSUME NEW e \in E, FoundOther(E, k, d, f, e)
         PROVE  ~f.found /\ k \notin EntryKeys /\ bottom = end
    <2>1. ~f.found /\ k \notin EntryKeys
      BY <1>8, <1>13 DEF FoundOther
    <2>2. e[2] # 0
      BY <1>1
    <2>3. bottom = end
      BY <1>4, <1>9, <1>13, <2>2 DEF FoundOther
    <2>4. QED
      BY <2>1, <2>3
  <1>14. ASSUME NEW e \in E, FoundOwn(E, k, d, f, e) PROVE f.found /\ k \in EntryKeys
    BY <1>8, <1>14 DEF FoundOwn
  <1>15. CASE \E e \in E : FoundOther(E, k, d, f, e)
    <2>1. ~f.found /\ k \notin EntryKeys /\ bottom = end
      BY <1>13, <1>15
    <2>2. QED
      BY <1>4, <1>6, <1>10, <2>1
  <1>16. CASE \E e \in E : FoundOwn(E, k, d, f, e)
    <2>1. f.found /\ k \in EntryKeys
      BY <1>14, <1>16
    <2>2. QED
      BY <1>4, <1>10, <2>1
  <1>17. QED
    BY <1>11, <1>12, <1>15, <1>16

(***************************************************************************)
(* While the store is whole and no key has the value zero (lib.rs:768),    *)
(* verify_non_membership accepts the proof find_key hands out for every    *)
(* key that is not blocked, and none for a key that is.                    *)
(***************************************************************************)
THEOREM AbsencesStayProvable ==
  Spec => [](StoreIsComplete /\ (\A e \in Entries : e[2] # 0) => AbsencesAreProvable)
  <1>1. TreeInv => (StoreIsComplete /\ (\A e \in Entries : e[2] # 0) => AbsencesAreProvable)
    <2>1. ASSUME TreeInv, StoreIsComplete, \A e \in Entries : e[2] # 0, NEW k \in AllKeys
          PROVE  LET f == Find(k)
                 IN VerifyNonMembership(k, f.siblings, f.notFoundKey, f.notFoundValue)
                      = IF k \in EntryKeys THEN "false" ELSE "true"
      BY <2>1, AbsenceProof
    <2>2. QED
      BY <2>1 DEF AbsencesAreProvable, AllKeys
  <1>2. TreeInv /\ [Next]_smtVars => TreeInv'
    BY TreeStep
  <1>3. QED
    BY TreeInit, <1>1, <1>2, PTL DEF Spec

---------------------------------------------------------------------------
(***************************************************************************)
(* Without its tree, the contract is the map BlockedKeys.                  *)
(***************************************************************************)

\* The refinement mapping, of any entries.
AsMap(E) == [k \in {e[1] : e \in E} |-> CHOOSE v \in Values : <<k, v>> \in E]

LEMMA AsMapIsFunction ==
  ASSUME NEW E
  PROVE  AsMap(E) = [k \in DOMAIN AsMap(E) |-> AsMap(E)[k]]
  <1> DEFINE S == {e[1] : e \in E}
             g(k) == CHOOSE v \in Values : <<k, v>> \in E
  <1>1. AsMap(E) = [k \in S |-> g(k)]
    BY DEF AsMap
  <1> HIDE DEF S, g
  <1>2. QED
    BY <1>1

LEMMA AsMapIs ==
  ASSUME NEW E, IsMap(E)
  PROVE  /\ \A k, v : <<k, v>> \in E => k \in DOMAIN AsMap(E) /\ AsMap(E)[k] = v
         /\ DOMAIN AsMap(E) = {e[1] : e \in E}
         /\ \A k \in DOMAIN AsMap(E) : <<k, AsMap(E)[k]>> \in E
  <1>1. DOMAIN AsMap(E) = {e[1] : e \in E}
    BY DEF AsMap
  <1>2. ASSUME NEW k, NEW v, <<k, v>> \in E PROVE k \in DOMAIN AsMap(E) /\ AsMap(E)[k] = v
    <2>1. PICK e \in E : e = <<k, v>>
      BY <1>2
    <2>2. e[1] = k /\ v \in Values
      BY <2>1 DEF IsMap, Universe
    <2>3. \A w \in Values : <<k, w>> \in E => w = v
      BY <1>2 DEF IsMap
    <2>4. (CHOOSE w \in Values : <<k, w>> \in E) = v
      BY <1>2, <2>2, <2>3
    <2>5. k \in {x[1] : x \in E}
      BY <2>2
    <2>6. QED
      BY <2>4, <2>5 DEF AsMap
  <1>3. ASSUME NEW k \in DOMAIN AsMap(E) PROVE <<k, AsMap(E)[k]>> \in E
    <2>1. PICK e \in E : e[1] = k
      BY <1>1
    <2>2. <<k, e[2]>> \in E
      BY <2>1, EntryType DEF IsMap
    <2>3. QED
      BY <1>2, <2>2
  <1>4. QED
    BY <1>1, <1>2, <1>3

\* The map m with v for the key k.
With(m, k, v) == [l \in DOMAIN m \cup {k} |-> IF l = k THEN v ELSE m[l]]

LEMMA InsertMaps ==
  ASSUME NEW E, IsMap(E), NEW F, IsMap(F), NEW k, NEW v, Inserts(E, F, k, v)
  PROVE  /\ k \notin DOMAIN AsMap(E)
         /\ AsMap(F) = With(AsMap(E), k, v)
  <1>1. k \notin DOMAIN AsMap(E)
    <2>1. DOMAIN AsMap(E) = {e[1] : e \in E}
      BY AsMapIs
    <2>2. QED
      BY <2>1 DEF Inserts
  <1>2. DOMAIN AsMap(F) = DOMAIN AsMap(E) \cup {k}
    <2>1. PICK n : n = <<k, v>>
      OBVIOUS
    <2>2. F = E \cup {n} /\ n[1] = k
      BY <2>1 DEF Inserts
    <2>3. {e[1] : e \in F} = {e[1] : e \in E} \cup {k}
      BY <2>2
    <2>4. QED
      BY <2>3, AsMapIs
  <1>3. ASSUME NEW l \in DOMAIN AsMap(F)
        PROVE  AsMap(F)[l] = IF l = k THEN v ELSE AsMap(E)[l]
    <2>1. CASE l = k
      <3>1. <<k, v>> \in F
        BY DEF Inserts
      <3>2. QED
        BY <2>1, <3>1, AsMapIs
    <2>2. CASE l # k
      <3>1. <<l, AsMap(E)[l]>> \in E
        BY <1>2, <2>2, AsMapIs
      <3>2. <<l, AsMap(E)[l]>> \in F
        BY <3>1 DEF Inserts
      <3>3. QED
        BY <2>2, <3>2, AsMapIs
    <2>3. QED
      BY <2>1, <2>2
  <1>4. AsMap(F) = [l \in DOMAIN AsMap(F) |-> AsMap(F)[l]]
    BY AsMapIsFunction
  <1>5. QED
    BY <1>1, <1>2, <1>3, <1>4 DEF With

LEMMA UpdateMaps ==
  ASSUME NEW E, IsMap(E), NEW F, IsMap(F), NEW k, NEW v, Updates(E, F, k, v)
  PROVE  k \in DOMAIN AsMap(E) /\ AsMap(F) = [AsMap(E) EXCEPT ![k] = v]
  <1>1. PICK old : <<k, old>> \in E /\ F = (E \ {<<k, old>>}) \cup {<<k, v>>}
    BY DEF Updates
  <1>2. k \in DOMAIN AsMap(E)
    BY <1>1, AsMapIs
  <1>3. DOMAIN AsMap(F) = DOMAIN AsMap(E)
    <2>1. PICK o, n : o = <<k, old>> /\ n = <<k, v>>
      OBVIOUS
    <2>2. o \in E /\ F = (E \ {o}) \cup {n} /\ o[1] = k /\ n[1] = k
      BY <1>1, <2>1
    <2>3. {e[1] : e \in F} = {e[1] : e \in E}
      BY <2>2
    <2>4. QED
      BY <2>3, AsMapIs
  <1>4. ASSUME NEW l \in DOMAIN AsMap(F)
        PROVE  AsMap(F)[l] = IF l = k THEN v ELSE AsMap(E)[l]
    <2>1. CASE l = k
      <3>1. <<k, v>> \in F
        BY <1>1
      <3>2. QED
        BY <2>1, <3>1, AsMapIs
    <2>2. CASE l # k
      <3>1. <<l, AsMap(E)[l]>> \in E
        BY <1>3, AsMapIs
      <3>2. <<l, AsMap(E)[l]>> \in F
        BY <1>1, <2>2, <3>1
      <3>3. QED
        BY <2>2, <3>2, AsMapIs
    <2>3. QED
      BY <2>1, <2>2
  <1>5. /\ AsMap(F) = [l \in DOMAIN AsMap(F) |-> AsMap(F)[l]]
        /\ AsMap(E) = [l \in DOMAIN AsMap(E) |-> AsMap(E)[l]]
    BY AsMapIsFunction
  <1>6. QED
    BY <1>2, <1>3, <1>4, <1>5

LEMMA DeleteMaps ==
  ASSUME NEW E, IsMap(E), NEW F, IsMap(F), NEW k, Deletes(E, F, k)
  PROVE  k \in DOMAIN AsMap(E) /\ AsMap(F) = [l \in DOMAIN AsMap(E) \ {k} |-> AsMap(E)[l]]
  <1>1. PICK old : <<k, old>> \in E /\ F = E \ {<<k, old>>}
    BY DEF Deletes
  <1>2. k \in DOMAIN AsMap(E)
    BY <1>1, AsMapIs
  <1>3. DOMAIN AsMap(F) = DOMAIN AsMap(E) \ {k}
    <2>1. PICK o : o = <<k, old>>
      OBVIOUS
    <2>2. o \in E /\ F = E \ {o} /\ o[1] = k
      BY <1>1, <2>1
    <2>3. \A e \in E : e # o => e[1] # k
      BY <2>2 DEF IsMap
    <2>4. {e[1] : e \in F} = {e[1] : e \in E} \ {k}
      BY <2>2, <2>3
    <2>5. QED
      BY <2>4, AsMapIs
  <1>4. ASSUME NEW l \in DOMAIN AsMap(F) PROVE AsMap(F)[l] = AsMap(E)[l]
    <2>1. <<l, AsMap(F)[l]>> \in F
      BY AsMapIs
    <2>2. <<l, AsMap(F)[l]>> \in E
      BY <1>1, <2>1
    <2>3. QED
      BY <2>2, AsMapIs
  <1>5. AsMap(F) = [l \in DOMAIN AsMap(F) |-> AsMap(F)[l]]
    BY AsMapIsFunction
  <1>6. QED
    BY <1>2, <1>3, <1>4, <1>5

Blocked == [k \in EntryKeys |-> CHOOSE v \in Values : <<k, v>> \in Entries]

LEMMA BlockedIs == Blocked = AsMap(Entries) /\ Blocked' = AsMap(Entries')
  BY DEF Blocked, EntryKeys, AsMap

LEMMA BlockedStep ==
  ASSUME TreeInv, TreeInv', EntryStep(Entries, Entries')
  PROVE  [Map!BlockedKeysNext]_Blocked
  <1>1. PICK E : E = Entries /\ IsMap(E)
    BY DEF TreeInv
  <1>2. PICK F : F = Entries' /\ IsMap(F)
    BY DEF TreeInv, IsMap
  <1>3. PICK m, n : m = Blocked /\ n = Blocked' /\ m = AsMap(E) /\ n = AsMap(F)
    BY <1>1, <1>2, BlockedIs
  <1>4. ASSUME NEW k \in Keys, NEW v \in Values, Inserts(E, F, k, v) PROVE Map!Insert(k, v)
    <2>1. k \notin DOMAIN m /\ n = [l \in DOMAIN m \cup {k} |-> IF l = k THEN v ELSE m[l]]
      <3>1. k \notin DOMAIN AsMap(E)
            /\ AsMap(F) = With(AsMap(E), k, v)
        BY <1>1, <1>2, <1>4, InsertMaps
      <3>2. QED
        BY <1>3, <3>1 DEF With
    <2>2. QED
      BY <1>3, <2>1 DEF Map!Insert, Blocked
  <1>5. ASSUME NEW k \in Keys, NEW v \in Values, Updates(E, F, k, v) PROVE Map!Update(k, v)
    <2>1. k \in DOMAIN m /\ n = [m EXCEPT ![k] = v]
      BY <1>1, <1>2, <1>3, <1>5, UpdateMaps
    <2>2. QED
      BY <1>3, <2>1 DEF Map!Update, Blocked
  <1>6. ASSUME NEW k \in Keys, Deletes(E, F, k) PROVE Map!Delete(k)
    <2>1. k \in DOMAIN m /\ n = [l \in DOMAIN m \ {k} |-> m[l]]
      BY <1>1, <1>2, <1>3, <1>6, DeleteMaps
    <2>2. QED
      BY <1>3, <2>1 DEF Map!Delete, Map!Restrict, Blocked
  <1>7. CASE F = E
    BY <1>3, <1>7
  <1>8. EntryStep(E, F)
    BY <1>1, <1>2
  <1>9. QED
    BY <1>4, <1>5, <1>6, <1>7, <1>8 DEF EntryStep, Map!BlockedKeysNext

(***************************************************************************)
(* The contract implements the map: whatever the layout of the tree and    *)
(* the promotion of leaves, insert_leaf adds a key that was not there,     *)
(* update_leaf changes its value and delete_leaf takes it out.             *)
(***************************************************************************)
THEOREM ContractIsAMap == Spec => BlockedKeysSpec
  <1>1. Init => Map!BlockedKeysInit
    <2> SUFFICES ASSUME Init PROVE DOMAIN Blocked = {}
      BY DEF Map!BlockedKeysInit, Blocked
    <2>1. Entries = {}
      <3>1. IsMap({}) /\ Ok({}, 0)
        BY KeysAreNat DEF IsMap, Ok
      <3>2. root = T({}, 0)
        BY <3>1, TreeShape DEF Init
      <3>3. QED
        BY <3>1, <3>2, EntriesAre
    <2>2. QED
      BY <2>1 DEF Blocked, EntryKeys
  <1>2. TreeInv /\ [Next]_smtVars => TreeInv' /\ [Map!BlockedKeysNext]_Blocked
    BY TreeStep, BlockedStep
  <1>3. QED
    BY TreeInit, <1>1, <1>2, PTL DEF Spec, BlockedKeysSpec, Map!BlockedKeysSpec, Blocked


---------------------------------------------------------------------------
(***************************************************************************)
(* The prover's sparse tree (ClientSparseTree).  It is another store of    *)
(* the same trees: what is said above of any tree holds of it.             *)
(***************************************************************************)

\* SparseTree is the same seen from ClientSparseTree.
LEMMA ClientOperators ==
  /\ \A r, k : Sparse!FindResult(r, k) = FindResult(r, k)
  /\ \A r, k : Sparse!Depth(r, k) = Depth(r, k) /\ Sparse!Path(r, k) = Path(r, k)
  /\ \A k, b, s : Sparse!RootOver(k, b, s) = RootOver(k, b, s)
  /\ \A k, b, s : Sparse!Above(k, b, s) = Above(k, b, s)
  /\ \A s : Sparse!UpToLastNode(s) = UpToLastNode(s)
  /\ \A k, v : Sparse!Leaf(k, v) = Leaf(k, v)
  /\ \A S : Sparse!CanonicalTree(S) = CanonicalTree(S)
  /\ Sparse!Empty = Empty
  <1>1. \A r, k : Sparse!Path(r, k) = Path(r, k)
    BY DEF Sparse!Path, Path, Sparse!IsInternal, IsInternal, Sparse!Bit, Bit
  <1>2. \A r, k : Sparse!Depth(r, k) = Depth(r, k)
    BY <1>1 DEF Sparse!Depth, Depth, Sparse!IsInternal, IsInternal
  <1>3. \A r, k : Sparse!Siblings(r, k) = Siblings(r, k)
    BY <1>1, <1>2 DEF Sparse!Siblings, Siblings, Sparse!Bit, Bit
  <1>4. \A r, k : Sparse!FindResult(r, k) = FindResult(r, k)
    BY <1>1, <1>2, <1>3 DEF Sparse!FindResult, FindResult, Sparse!Empty, Empty
  <1>5. \A k, b, s : Sparse!Climb(k, b, s) = Climb(k, b, s)
    BY DEF Sparse!Climb, Climb, Sparse!Join, Join, Sparse!Bit, Bit
  <1>6. \A k, b, s : Sparse!RootOver(k, b, s) = RootOver(k, b, s)
                      /\ Sparse!Above(k, b, s) = Above(k, b, s)
    BY <1>5 DEF Sparse!RootOver, RootOver, Sparse!Above, Above
  <1>7. \A s : Sparse!UpToLastNode(s) = UpToLastNode(s)
    BY DEF Sparse!UpToLastNode, UpToLastNode, Sparse!Empty, Empty
  <1>8. \A S : Sparse!Subtrees(S) = Subtrees(S)
    BY DEF Sparse!Subtrees, Subtrees, Sparse!Empty, Empty, Sparse!Leaf, Leaf, Sparse!Bit, Bit
  <1>9. \A S : Sparse!CanonicalTree(S) = CanonicalTree(S)
    BY <1>8 DEF Sparse!CanonicalTree, CanonicalTree
  <1>10. Sparse!Empty = Empty /\ \A k, v : Sparse!Leaf(k, v) = Leaf(k, v)
    BY DEF Sparse!Empty, Empty, Sparse!Leaf, Leaf
  <1>11. QED
    BY <1>1, <1>2, <1>4, <1>6, <1>7, <1>9, <1>10

LEMMA ClientSiblings ==
  ASSUME NEW k, NEW f
  PROVE  (IF f.isOld0 THEN f.siblings ELSE Sparse!CollisionSiblings(k, f)) = SiblingsAfter(k, f)
  <1>1. Sparse!PartingLevel(k, f.notFoundKey) = PartingLevel(k, f.notFoundKey)
    BY DEF Sparse!PartingLevel, PartingLevel, Sparse!Bit, Bit
  <1>2. QED
    BY <1>1, ClientOperators DEF Sparse!CollisionSiblings, SiblingsAfter

\* The entries that a search under the root r finds.
FoundUnder(r) == {<<k, FindResult(r, k).foundValue>> : k \in {j \in Keys : FindResult(r, j).found}}

LEMMA ClientEntries == Sparse!Entries = FoundUnder(smtRoot)
  BY ClientOperators DEF Sparse!Entries, FoundUnder

\* A search finds the entries of the tree and no others.
LEMMA FoundAreEntries ==
  ASSUME NEW E, IsMap(E)
  PROVE  FoundUnder(T(E, 0)) = E
  <1>1. ASSUME NEW k \in Keys, NEW f, f = FindResult(T(E, 0), k)
        PROVE  IF f.found THEN <<k, f.foundValue>> \in E ELSE \A x \in E : x[1] # k
    <2>1. k \in AllKeys
      BY KeysAreNat
    <2>2. PICK d \in 0 .. Bits : Live(E, k, d) /\ ~Several(Under(E, k, d))
      BY <2>1, PathEnds
    <2>3. \/ FoundNothing(E, k, d, f)
          \/ \E e \in E : FoundOther(E, k, d, f, e)
          \/ \E e \in E : FoundOwn(E, k, d, f, e)
      BY <1>1, <2>1, <2>2, FindCases
    <2>4. QED
      BY <2>3 DEF FoundNothing, FoundOther, FoundOwn
  <1>2. FoundUnder(T(E, 0)) \subseteq E
    BY <1>1 DEF FoundUnder
  <1>3. ASSUME NEW e \in E PROVE e \in FoundUnder(T(E, 0))
    <2>1. PICK k, f : k = e[1] /\ k \in Keys /\ f = FindResult(T(E, 0), k)
      BY EntryType DEF IsMap
    <2>2. f.found /\ <<k, f.foundValue>> \in E
      BY <1>1, <2>1
    <2>3. e = <<k, f.foundValue>>
      <3>1. PICK o : o = <<k, f.foundValue>>
        OBVIOUS
      <3>2. o \in E /\ o[1] = e[1]
        BY <2>1, <2>2, <3>1
      <3>3. QED
        BY <3>1, <3>2 DEF IsMap
    <2>4. QED
      BY <2>1, <2>2, <2>3 DEF FoundUnder
  <1>4. QED
    BY <1>2, <1>3

(***************************************************************************)
(* The inductive invariant of the prover's tree: its root is that of the   *)
(* tree of some map, and its nodes are in db.                              *)
(***************************************************************************)
HoldsTree(E, r, store) == IsMap(E) /\ r = T(E, 0) /\ NodesUnder(T(E, 0)) \subseteq store
ClientInv == \E E : HoldsTree(E, smtRoot, db)

LEMMA ClientInit == Sparse!Init => ClientInv
  <1> SUFFICES ASSUME Sparse!Init PROVE ClientInv
    OBVIOUS
  <1>1. smtRoot = Empty
    BY ClientOperators DEF Sparse!Init
  <1>2. IsMap({}) /\ Ok({}, 0)
    BY KeysAreNat DEF IsMap, Ok
  <1>3. T({}, 0) = Empty
    BY <1>2, TreeShape
  <1>4. NodesUnder(T({}, 0)) = {}
    BY <1>2, PathOfNode
  <1>5. HoldsTree({}, smtRoot, db)
    BY <1>1, <1>2, <1>3, <1>4 DEF HoldsTree
  <1>6. QED
    BY <1>5 DEF ClientInv

\* What is built over a key's leaf holds the tree of the new entries.
LEMMA BuildHolds ==
  ASSUME NEW E, HoldsTree(E, smtRoot, db), NEW F, IsMap(F), NEW k \in Keys, SameBut(E, F, k),
         NEW v, NEW s, NEW n, Fits(F, k, s, Leaf(k, v), n), Sparse!Build(k, v, s)
  PROVE  ClientInv'
  <1>1. k \in AllKeys
    BY KeysAreNat
  <1>2. PICK b : b = Leaf(k, v)
    OBVIOUS
  <1>3. smtRoot' = RootOver(k, b, s) /\ db' = db \cup {b} \cup Above(k, b, s)
    BY <1>2, ClientOperators DEF Sparse!Build
  <1>4. smtRoot' = T(F, 0)
    BY <1>1, <1>2, <1>3, ClimbIs
  <1>5. NodesUnder(T(F, 0)) \subseteq db'
    <2>1. ASSUME NEW x \in NodesUnder(T(F, 0)) PROVE x \in db'
      <3>1. x \in NodesUnder(T(E, 0)) \/ x \in Above(k, b, s) \/ x = b
        BY <1>1, <1>2, ChangedNodes DEF HoldsTree
      <3>2. QED
        BY <1>3, <3>1 DEF HoldsTree
    <2>2. QED
      BY <2>1
  <1>6. HoldsTree(F, smtRoot', db')
    BY <1>4, <1>5 DEF HoldsTree
  <1>7. QED
    BY <1>6 DEF ClientInv

LEMMA ClientStep == ClientInv /\ [Sparse!Next]_sparseVars => ClientInv'
  <1> SUFFICES ASSUME ClientInv, [Sparse!Next]_sparseVars PROVE ClientInv'
    OBVIOUS
  <1>1. PICK E : HoldsTree(E, smtRoot, db)
    BY DEF ClientInv
  <1>2. IsMap(E) /\ smtRoot = T(E, 0)
    BY <1>1 DEF HoldsTree
  <1>3. ASSUME NEW k \in Keys, NEW v \in Values, Sparse!Insert(k, v) PROVE ClientInv'
    <2>1. PICK f : f = FindResult(T(E, 0), k) /\ f = Sparse!FindResult(smtRoot, k)
      BY <1>2, ClientOperators
    <2>2. ~f.found /\ Sparse!Build(k, v, SiblingsAfter(k, f))
      BY <1>3, <2>1, ClientSiblings DEF Sparse!Insert
    <2>3. PICK F : IsMap(F) /\ SameBut(E, F, k)
                   /\ \E n : Fits(F, k, SiblingsAfter(k, f), Leaf(k, v), n)
      BY <1>2, <2>1, <2>2, InsertBuilds
    <2>4. QED
      BY <1>1, <2>2, <2>3, BuildHolds
  <1>4. ASSUME NEW k \in Keys, NEW v \in Values, Sparse!Update(k, v) PROVE ClientInv'
    <2>1. PICK f : f = FindResult(T(E, 0), k) /\ f = Sparse!FindResult(smtRoot, k)
      BY <1>2, ClientOperators
    <2>2. f.found /\ Sparse!Build(k, v, f.siblings)
      BY <1>4, <2>1 DEF Sparse!Update
    <2>3. PICK F : IsMap(F) /\ SameBut(E, F, k) /\ \E n : Fits(F, k, f.siblings, Leaf(k, v), n)
      BY <1>2, <2>1, <2>2, UpdateBuilds
    <2>4. QED
      BY <1>1, <2>2, <2>3, BuildHolds
  <1>5. CASE UNCHANGED sparseVars
    BY <1>5 DEF ClientInv, HoldsTree, sparseVars
  <1>6. QED
    BY <1>3, <1>4, <1>5 DEF Sparse!Next

\* Empty branches put after siblings are taken off again: above the bottom of a
\* path the last sibling is never empty.
LEMMA PaddingIsCut ==
  ASSUME NEW E, NEW k, NEW q, NEW b, NEW d, Fits(E, k, q, b, d), d > 0 => q[d] # Empty,
         NEW p, NEW l \in Nat, Len(p) = l, d <= l,
         \A i \in 1 .. d : p[i] = q[i], \A i \in d + 1 .. l : p[i] = Empty
  PROVE  Fits(E, k, UpToLastNode(p), b, d)
  <1>1. d \in Nat
    BY KeysAreNat DEF Fits
  <1>2. PICK n \in 0 .. l : /\ n > 0 => p[n] # Empty
                            /\ \A j \in n + 1 .. l : p[j] = Empty
                            /\ Len(UpToLastNode(p)) = n
                            /\ \A i \in 1 .. n : UpToLastNode(p)[i] = p[i]
    BY LastNode
  <1>3. n = d
    <2>1. CASE n < d
      <3>1. d \in n + 1 .. l /\ d > 0 /\ d \in 1 .. d
        BY <1>1, <2>1
      <3>2. QED
        BY <1>2, <3>1
    <2>2. CASE n > d
      <3>1. n \in d + 1 .. l /\ n > 0
        BY <1>1, <2>2
      <3>2. QED
        BY <1>2, <3>1
    <2>3. QED
      BY <1>1, <2>1, <2>2
  <1>4. \A i \in 0 .. d - 1 : UpToLastNode(p)[i + 1] = q[i + 1]
    <2>1. \A i \in 0 .. d - 1 : i + 1 \in 1 .. d
      BY <1>1
    <2>2. PICK t : t = UpToLastNode(p)
      OBVIOUS
    <2>3. \A i \in 1 .. d : t[i] = q[i]
      BY <1>2, <1>3, <2>2
    <2>4. QED
      BY <2>1, <2>2, <2>3
  <1>5. QED
    <2>1. PICK t : t = UpToLastNode(p)
      OBVIOUS
    <2>2. Len(t) = d /\ \A i \in 0 .. d - 1 : t[i + 1] = q[i + 1]
      BY <1>2, <1>3, <1>4, <2>1
    <2>3. Fits(E, k, t, b, d)
      BY <2>2 DEF Fits
    <2>4. QED
      BY <2>1, <2>3

\* Siblings padded with empty branches.
LEMMA PaddedTo ==
  ASSUME NEW d \in Nat, NEW m \in Nat, NEW q, Len(q) = d, q = [i \in 1 .. d |-> q[i]],
         NEW p, p = q \o [i \in 1 .. m |-> Empty]
  PROVE  /\ Len(p) = d + m /\ \A i \in 1 .. d : p[i] = q[i]
         /\ \A i \in d + 1 .. d + m : p[i] = Empty
  <1>1. PICK S : S = {q[i] : i \in 1 .. d} \cup {Empty}
    OBVIOUS
  <1>2. PICK pad : pad = [i \in 1 .. m |-> Empty]
    OBVIOUS
  <1>3. q \in [1 .. d -> S] /\ pad \in [1 .. m -> S]
    BY <1>1, <1>2
  <1>4. q \in Seq(S) /\ pad \in Seq(S) /\ Len(pad) = m
    <2>1. q \in Seq(S) /\ pad \in Seq(S)
      BY <1>3, SeqDef
    <2>2. Len([i \in 1 .. m |-> Empty]) = m
      OBVIOUS
    <2>3. QED
      BY <1>2, <2>1, <2>2
  <1>5. /\ Len(q \o pad) = Len(q) + Len(pad)
        /\ \A i \in 1 .. Len(q) + Len(pad) :
             (q \o pad)[i] = IF i <= Len(q) THEN q[i] ELSE pad[i - Len(q)]
    BY <1>4, ConcatProperties
  <1>6. Len(p) = d + m /\ \A i \in 1 .. d + m : p[i] = IF i <= d THEN q[i] ELSE pad[i - d]
    BY <1>2, <1>4, <1>5
  <1>7. ASSUME NEW i \in d + 1 .. d + m PROVE p[i] = Empty
    <2>1. i \in 1 .. d + m /\ ~(i <= d) /\ i - d \in 1 .. m
      OBVIOUS
    <2>2. QED
      BY <1>2, <1>6, <2>1
  <1>8. \A i \in 1 .. d : i \in 1 .. d + m /\ i <= d
    OBVIOUS
  <1>9. QED
    BY <1>6, <1>7, <1>8

\* Siblings filled up to one for each bit.
Padded(s) == s \o [i \in 1 .. Bits - Len(s) |-> Empty]

\* The padded proof of a key climbs to the root.
LEMMA ProofClimbs ==
  ASSUME NEW E, IsMap(E), NEW k \in AllKeys, NEW f, f = FindResult(T(E, 0), k),
         NEW bottom,
         bottom = IF f.found THEN Leaf(k, f.foundValue)
                  ELSE IF f.isOld0 THEN Empty ELSE Leaf(f.notFoundKey, f.notFoundValue)
  PROVE  RootOver(k, bottom, UpToLastNode(Padded(f.siblings))) = T(E, 0)
  <1>1. PICK d \in 0 .. Bits : Live(E, k, d) /\ ~Several(Under(E, k, d))
    BY PathEnds
  <1>2. bottom = T(Under(E, k, d), d)
    <2>1. \/ FoundNothing(E, k, d, f)
          \/ \E e \in E : FoundOther(E, k, d, f, e)
          \/ \E e \in E : FoundOwn(E, k, d, f, e)
      BY <1>1, FindCases
    <2>2. QED
      BY <2>1 DEF FoundNothing, FoundOther, FoundOwn
  <1>3. PICK q, p : q = f.siblings /\ p = Padded(q)
    OBVIOUS
  <1>4. q = [i \in 1 .. d |-> T(Off(E, k, i - 1), i)] /\ Fits(E, k, q, bottom, d)
    <2>1. /\ f.siblings = [i \in 1 .. d |-> T(Off(E, k, i - 1), i)]
          /\ Fits(E, k, f.siblings, T(Under(E, k, d), d), d)
      BY <1>1, FindCases
    <2>2. QED
      BY <1>2, <1>3, <2>1
  <1>5. Len(q) = d /\ q = [i \in 1 .. d |-> q[i]]
    BY <1>4 DEF Fits
  <1>6. PICK m \in Nat : m = Bits - d /\ d \in Nat /\ d + m = Bits
    BY KeysAreNat
  <1>7. /\ Len(p) = d + m /\ \A i \in 1 .. d : p[i] = q[i]
        /\ \A i \in d + 1 .. d + m : p[i] = Empty
    <2>1. p = q \o [i \in 1 .. m |-> Empty]
      BY <1>3, <1>5, <1>6 DEF Padded
    <2>2. QED
      BY <1>5, <1>6, <2>1, PaddedTo
  <1>8. d > 0 => q[d] # Empty
    <2> SUFFICES ASSUME d > 0 PROVE q[d] # Empty
      OBVIOUS
    <2>1. d \in 1 .. Bits /\ d \in 1 .. d
      BY <1>6
    <2>2. T(Off(E, k, d - 1), d) # Empty
      BY <1>1, <2>1, LastSibling
    <2>3. QED
      BY <1>4, <2>1, <2>2
  <1>9. Fits(E, k, UpToLastNode(p), bottom, d)
    <2>1. PICK l \in Nat : l = d + m /\ d <= l
      BY <1>6
    <2>2. Len(p) = l /\ \A i \in d + 1 .. l : p[i] = Empty
      BY <1>7, <2>1
    <2>3. QED
      BY <1>4, <1>7, <1>8, <2>1, <2>2, PaddingIsCut
  <1>10. RootOver(k, bottom, UpToLastNode(p)) = T(E, 0)
    <2>1. PICK s : s = UpToLastNode(p) /\ Fits(E, k, s, bottom, d)
      BY <1>9
    <2>2. RootOver(k, bottom, s) = T(E, 0)
      BY <2>1, ClimbIs
    <2>3. QED
      BY <2>1, <2>2
  <1>11. QED
    BY <1>3, <1>10

\* p is the proof made of what a search found.
ProofOf(p, f) ==
  /\ p.found = f.found /\ p.foundValue = f.foundValue /\ p.isOld0 = f.isOld0
  /\ p.notFoundKey = f.notFoundKey /\ p.notFoundValue = f.notFoundValue
  /\ p.siblings = Padded(f.siblings)

LEMMA ClientProof ==
  ASSUME NEW k
  PROVE  ProofOf(Sparse!GetProof(k, Bits), FindResult(smtRoot, k))
  <1>1. PICK f : f = FindResult(smtRoot, k) /\ f = Sparse!FindResult(smtRoot, k)
    BY ClientOperators
  <1>2. PICK p : p = Sparse!GetProof(k, Bits)
    OBVIOUS
  <1>3. p = [f EXCEPT !.siblings = Padded(f.siblings)]
    BY <1>1, <1>2, ClientOperators DEF Sparse!GetProof, Padded
  <1>4. ProofOf(p, f)
    BY <1>1, <1>3 DEF FindResult, ProofOf
  <1>5. QED
    BY <1>1, <1>2, <1>4

LEMMA ClientAgrees == ClientInv => SparseTreesAgree
  <1> SUFFICES ASSUME ClientInv PROVE SparseTreesAgree
    OBVIOUS
  <1>1. PICK E : IsMap(E) /\ smtRoot = T(E, 0) /\ NodesUnder(T(E, 0)) \subseteq db
    BY DEF ClientInv, HoldsTree
  <1>2. Sparse!Entries = E
    BY <1>1, ClientEntries, FoundAreEntries
  <1>3. smtRoot = Sparse!CanonicalTree(Sparse!Entries)
    BY <1>1, <1>2, CanonicalIsT, ClientOperators DEF IsMap
  <1>4. ASSUME NEW k \in Keys
        PROVE  LET p == Sparse!GetProof(k, Bits)
                   bottom == IF p.found THEN Sparse!Leaf(k, p.foundValue)
                             ELSE IF p.isOld0 THEN Sparse!Empty
                             ELSE Sparse!Leaf(p.notFoundKey, p.notFoundValue)
               IN /\ Sparse!CanFind(k)
                  /\ p.found \/ \A e \in Sparse!Entries : e[1] # k
                  /\ Sparse!RootOver(k, bottom, Sparse!UpToLastNode(p.siblings)) = smtRoot
    <2>1. k \in AllKeys
      BY KeysAreNat
    <2>2. PICK f : f = FindResult(smtRoot, k) /\ f = FindResult(T(E, 0), k)
      BY <1>1
    <2>3. PICK p, bottom :
             /\ p = Sparse!GetProof(k, Bits)
             /\ bottom = IF p.found THEN Leaf(k, p.foundValue)
                         ELSE IF p.isOld0 THEN Empty ELSE Leaf(p.notFoundKey, p.notFoundValue)
      OBVIOUS
    <2>4. ProofOf(p, f)
      BY <2>2, <2>3, ClientProof
    <2>5. Sparse!CanFind(k)
      BY <1>1, <2>1, PathInStore, ClientOperators DEF Sparse!CanFind
    <2>6. p.found \/ \A e \in E : e[1] # k
      <3>1. ASSUME NEW e \in E, e[1] = k PROVE f.found
        <4>1. PICK j \in Keys : /\ e = <<j, FindResult(T(E, 0), j).foundValue>>
                                /\ FindResult(T(E, 0), j).found
          BY <1>1, FoundAreEntries DEF FoundUnder
        <4>2. j = k
          BY <3>1, <4>1
        <4>3. QED
          BY <2>2, <4>1, <4>2
      <3>2. QED
        BY <2>4, <3>1 DEF ProofOf
    <2>7. RootOver(k, bottom, UpToLastNode(Padded(f.siblings))) = T(E, 0)
      <3>1. bottom = IF f.found THEN Leaf(k, f.foundValue)
                     ELSE IF f.isOld0 THEN Empty ELSE Leaf(f.notFoundKey, f.notFoundValue)
        BY <2>3, <2>4 DEF ProofOf
      <3>2. QED
        BY <1>1, <2>1, <2>2, <3>1, ProofClimbs
    <2>8. RootOver(k, bottom, UpToLastNode(p.siblings)) = smtRoot
      BY <1>1, <2>4, <2>7 DEF ProofOf
    <2>9. QED
      BY <1>2, <2>3, <2>5, <2>6, <2>8, ClientOperators
  <1>5. QED
    BY <1>3, <1>4 DEF SparseTreesAgree, Sparse!SparseTreesAgree

(***************************************************************************)
(* insert and update of the prover's tree, in any order, arrive at the     *)
(* tree the contract has for the same entries, find every key, and hand    *)
(* out proofs that climb to the root (sparse_merkle.rs).                   *)
(***************************************************************************)
THEOREM ProverKeepsTheTree == TreesSpec => []SparseTreesAgree
  <1>1. TreesInit => ClientInv
    BY ClientInit DEF TreesInit
  <1>2. ClientInv /\ [TreesNext]_treesVars => ClientInv'
    <2>1. [TreesNext]_treesVars => [Sparse!Next]_sparseVars
      BY DEF TreesNext, treesVars
    <2>2. QED
      BY <2>1, ClientStep
  <1>3. QED
    BY <1>1, <1>2, ClientAgrees, PTL DEF TreesSpec
=============================================================================
