----------------------------- MODULE TreesProofs ----------------------------
(***************************************************************************)
(* The Merkle trees that only grow, proved for every depth up to 32, every *)
(* set of leaves and every size of the ring: the membership contract's,    *)
(* the pool's and the one a wallet keeps of the membership contract's.     *)
(*                                                                         *)
(* All three are compared with one tree, that of the leaves padded with    *)
(* empty ones: Node(w, l, j) is its node j of level l.  A contract keeps   *)
(* the nodes that are left children of the next leaf's path (Holds), and   *)
(* the loop that inserts a leaf gives the nodes of its path (CarryIs).     *)
(***************************************************************************)
EXTENDS MCTrees, InductionTheorems, SequenceTheorems

INSTANCE IncrementalTree

---------------------------------------------------------------------------
(***************************************************************************)
(* The tree of a sequence of leaves.                                       *)
(***************************************************************************)

\* No tree is deeper: init and __constructor refuse more than 32 levels.
Deepest == 32

\* The leaves of the tree, padded with empty ones.
Padded(s) == [i \in Nat |-> IF i < Len(s) THEN s[i + 1] ELSE ZeroLeaf]

\* A level of nodes over the one below, and all of them.
Up(below) == [j \in Nat |-> <<below[2 * j], below[2 * j + 1]>>]

NodesOver(w) ==
  LET level[l \in 0 .. Deepest] == IF l = 0 THEN w ELSE Up(level[l - 1])
  IN level

Node(w, l, j) == NodesOver(w)[l][j]

LEMMA NodesRecursion ==
  ASSUME NEW w
  PROVE  NodesOver(w) = [l \in 0 .. Deepest |-> IF l = 0 THEN w ELSE Up(NodesOver(w)[l - 1])]
  <1> DEFINE Is(g, n) == g = [l \in 0 .. n |-> IF l = 0 THEN w ELSE Up(g[l - 1])]
             F == {n \in 0 .. Deepest : \E g : Is(g, n)}
  <1>1. 0 \in F
    <2>1. PICK g : g = [l \in 0 .. 0 |-> w]
      OBVIOUS
    <2>2. Is(g, 0)
      BY <2>1
    <2>3. 0 \in 0 .. Deepest
      BY DEF Deepest
    <2>4. QED
      BY <2>2, <2>3
  <1>2. ASSUME NEW n \in 0 .. Deepest - 1, n \in F PROVE n + 1 \in F
    <2>1. PICK g : Is(g, n)
      BY <1>2
    <2> DEFINE h == [l \in 0 .. n + 1 |-> IF l = n + 1 THEN Up(g[n]) ELSE g[l]]
    <2>2. ASSUME NEW l \in 0 .. n + 1
          PROVE  h[l] = IF l = 0 THEN w ELSE Up(h[l - 1])
      <3>1. CASE l = n + 1
        <4>1. h[l] = Up(g[n]) /\ h[l - 1] = g[n] /\ l # 0
          BY <3>1
        <4>2. QED
          BY <4>1
      <3>2. CASE l # n + 1
        <4>1. l \in 0 .. n /\ h[l] = g[l] /\ (l # 0 => h[l - 1] = g[l - 1])
          BY <3>2
        <4>2. g[l] = IF l = 0 THEN w ELSE Up(g[l - 1])
          BY <2>1, <4>1
        <4>3. QED
          BY <4>1, <4>2
      <3>3. QED
        BY <3>1, <3>2
    <2>3. Is(h, n + 1)
      BY <2>2
    <2>4. n + 1 \in 0 .. Deepest
      BY DEF Deepest
    <2>5. QED
      BY <2>3, <2>4
  <1> HIDE DEF F
  <1>3. Deepest \in F
    <2>1. Deepest \in Nat
      BY DEF Deepest
    <2>2. QED
      BY <1>1, <1>2, <2>1, UpwardInduction
  <1>4. \E g : Is(g, Deepest)
    BY <1>3 DEF F
  <1>5. QED
    BY <1>4 DEF NodesOver

\* A node is the pair of its children.
LEMMA Children ==
  ASSUME NEW w, NEW j \in Nat
  PROVE  /\ Node(w, 0, j) = w[j]
         /\ \A l \in 0 .. Deepest - 1 :
              Node(w, l + 1, j) = <<Node(w, l, 2 * j), Node(w, l, 2 * j + 1)>>
  <1>1. PICK f : f = NodesOver(w)
    OBVIOUS
  <1>2. f = [l \in 0 .. Deepest |-> IF l = 0 THEN w ELSE Up(f[l - 1])]
    BY <1>1, NodesRecursion
  <1>3. f[0][j] = w[j]
    BY <1>2 DEF Deepest
  <1>4. ASSUME NEW l \in 0 .. Deepest - 1
        PROVE  f[l + 1][j] = <<f[l][2 * j], f[l][2 * j + 1]>>
    <2>1. l + 1 \in 0 .. Deepest /\ l + 1 # 0 /\ (l + 1) - 1 = l
      BY DEF Deepest
    <2>2. f[l + 1] = Up(f[l])
      BY <1>2, <2>1
    <2>3. QED
      BY <2>2 DEF Up
  <1>5. QED
    BY <1>1, <1>3, <1>4 DEF Node

\* The leaves v and w are the same under node j of level l.
SameUnder(v, w, l, j) == \A i \in Nat : j * 2 ^ l <= i /\ i < j * 2 ^ l + 2 ^ l => v[i] = w[i]

\* A node depends on the leaves under it only.
LEMMA SameLeaves ==
  ASSUME NEW v, NEW w, NEW l \in 0 .. Deepest, NEW j \in Nat, SameUnder(v, w, l, j)
  PROVE  Node(v, l, j) = Node(w, l, j)
  <1> DEFINE Same(n, m) == \A i \in Nat : m <= i /\ i < m + 2 ^ n => v[i] = w[i]
             F == {n \in 0 .. Deepest :
                     \A k \in Nat : Same(n, k * 2 ^ n) => Node(v, n, k) = Node(w, n, k)}
  <1>1. 0 \in F
    <2>1. ASSUME NEW k \in Nat, Same(0, k * 2 ^ 0) PROVE Node(v, 0, k) = Node(w, 0, k)
      <3>1. 2 ^ 0 = 1
        OBVIOUS
      <3>2. k * 2 ^ 0 = k
        BY <3>1
      <3>3. v[k] = w[k]
        BY <2>1, <3>1, <3>2
      <3>4. QED
        BY <3>3, Children
    <2>2. QED
      BY <2>1 DEF Deepest
  <1>2. ASSUME NEW n \in 0 .. Deepest - 1, n \in F PROVE n + 1 \in F
    <2>0. n \in Nat /\ n + 1 \in 0 .. Deepest
      BY DEF Deepest
    <2>1. PICK P \in Nat \ {0} : P = 2 ^ n /\ 2 ^ (n + 1) = 2 * P
      BY <2>0, PowersDouble
    <2>2. ASSUME NEW k \in Nat, Same(n + 1, k * 2 ^ (n + 1))
          PROVE  Node(v, n + 1, k) = Node(w, n + 1, k)
      <3>1. PICK m \in Nat : m = k * P
        BY <2>1
      <3>2. /\ k * 2 ^ (n + 1) = 2 * m /\ (2 * k) * 2 ^ n = 2 * m
            /\ (2 * k + 1) * 2 ^ n = 2 * m + P
        <4>1. k * (2 * P) = 2 * m /\ (2 * k) * P = 2 * m /\ (2 * k + 1) * P = 2 * m + P
          BY <3>1
        <4>2. QED
          BY <2>1, <4>1
      <3>3. \A i \in Nat : 2 * m <= i /\ i < 2 * m + 2 * P => v[i] = w[i]
        BY <2>1, <2>2, <3>2
      <3>4. Same(n, (2 * k) * 2 ^ n) /\ Same(n, (2 * k + 1) * 2 ^ n)
        BY <2>1, <3>2, <3>3
      <3>5. /\ Node(v, n, 2 * k) = Node(w, n, 2 * k)
            /\ Node(v, n, 2 * k + 1) = Node(w, n, 2 * k + 1)
        BY <1>2, <3>4
      <3>6. /\ Node(v, n + 1, k) = <<Node(v, n, 2 * k), Node(v, n, 2 * k + 1)>>
            /\ Node(w, n + 1, k) = <<Node(w, n, 2 * k), Node(w, n, 2 * k + 1)>>
        BY Children
      <3>7. QED
        BY <3>5, <3>6
    <2>3. QED
      BY <2>0, <2>2
  <1> HIDE DEF F
  <1>3. \A n \in 0 .. Deepest : n \in F
    <2>1. Deepest \in Nat
      BY DEF Deepest
    <2>2. QED
      BY <1>1, <1>2, <2>1, UpwardInduction
  <1>4. l \in F
    BY <1>3
  <1>5. QED
    BY <1>4 DEF F, SameUnder

---------------------------------------------------------------------------
(***************************************************************************)
(* The empty tree, and the reference MerkleRoot.                           *)
(***************************************************************************)

\* get_zeroes gives the nodes with no leaf under them.
LEMMA ZeroesAre ==
  ASSUME NEW levels \in 0 .. Deepest
  PROVE  \A l \in 0 .. levels : \A j \in Nat : Zeroes(levels)[l] = Node(Padded(<< >>), l, j)
  <1> DEFINE w == Padded(<< >>)
             g == [l \in 0 .. levels |-> Node(w, l, 0)]
             z == Zeroes(levels)
  <1>0. \A i \in Nat : w[i] = ZeroLeaf
    BY DEF Padded
  <1> HIDE DEF w
  <1>1. levels \in Nat /\ levels <= Deepest /\ Deepest \in Nat /\ 0 \in Nat /\ 1 \in Nat
    BY DEF Deepest
  <1>1a. ASSUME NEW l \in 0 .. Deepest - 1
         PROVE  Node(w, l + 1, 0) = <<Node(w, l, 0), Node(w, l, 1)>>
    <2>1. Node(w, l + 1, 0) = <<Node(w, l, 2 * 0), Node(w, l, 2 * 0 + 1)>>
      BY <1>1, Children
    <2>2. 2 * 0 = 0 /\ 2 * 0 + 1 = 1
      OBVIOUS
    <2>3. QED
      BY <2>1, <2>2
  <1>2. ASSUME NEW l \in 0 .. Deepest, NEW j \in Nat, NEW k \in Nat
        PROVE  Node(w, l, j) = Node(w, l, k)
    <2> DEFINE F == {n \in 0 .. Deepest : \A a, b \in Nat : Node(w, n, a) = Node(w, n, b)}
    <2>1. 0 \in F
      BY <1>0, <1>1, Children
    <2>2. ASSUME NEW n \in 0 .. Deepest - 1, n \in F PROVE n + 1 \in F
      <3>1. ASSUME NEW a \in Nat, NEW b \in Nat PROVE Node(w, n + 1, a) = Node(w, n + 1, b)
        <4>1. /\ Node(w, n + 1, a) = <<Node(w, n, 2 * a), Node(w, n, 2 * a + 1)>>
              /\ Node(w, n + 1, b) = <<Node(w, n, 2 * b), Node(w, n, 2 * b + 1)>>
          BY Children
        <4>2. /\ Node(w, n, 2 * a) = Node(w, n, 2 * b)
              /\ Node(w, n, 2 * a + 1) = Node(w, n, 2 * b + 1)
          BY <2>2
        <4>3. QED
          BY <4>1, <4>2
      <3>2. n + 1 \in 0 .. Deepest
        BY <1>1
      <3>3. QED
        BY <3>1, <3>2
    <2> HIDE DEF F
    <2>3. l \in F
      BY <1>1, <2>1, <2>2, UpwardInduction
    <2>4. QED
      BY <2>3 DEF F
  <1>3. ASSUME NEW l \in 0 .. levels
        PROVE  g[l] = IF l = 0 THEN ZeroLeaf ELSE <<g[l - 1], g[l - 1]>>
    <2>1. CASE l = 0
      BY <1>0, <2>1, Children
    <2>2. CASE l # 0
      <3>1. l - 1 \in 0 .. Deepest - 1 /\ l - 1 \in 0 .. levels /\ (l - 1) + 1 = l
        BY <1>1, <2>2
      <3>2. Node(w, l, 0) = <<Node(w, l - 1, 0), Node(w, l - 1, 1)>>
        <4>1. PICK k \in 0 .. Deepest - 1 : k = l - 1
          BY <3>1
        <4>2. Node(w, k + 1, 0) = <<Node(w, k, 0), Node(w, k, 1)>>
          BY <1>1a
        <4>3. QED
          BY <3>1, <4>1, <4>2
      <3>3. Node(w, l - 1, 1) = Node(w, l - 1, 0)
        <4>1. l - 1 \in 0 .. Deepest
          BY <1>1, <3>1
        <4>2. QED
          BY <1>1, <1>2, <4>1
      <3>4. g[l] = Node(w, l, 0) /\ g[l - 1] = Node(w, l - 1, 0)
        BY <3>1
      <3>5. QED
        BY <2>2, <3>2, <3>3, <3>4
    <2>3. QED
      BY <2>1, <2>2
  <1>4. g = [l \in 0 .. levels |-> IF l = 0 THEN ZeroLeaf ELSE <<g[l - 1], g[l - 1]>>]
    BY <1>3
  <1> HIDE DEF g
  <1>5. z = [l \in 0 .. levels |-> IF l = 0 THEN ZeroLeaf ELSE <<z[l - 1], z[l - 1]>>]
    BY <1>4 DEF Zeroes
  <1> HIDE DEF z
  <1> DEFINE G == {l \in 0 .. levels : z[l] = Node(w, l, 0)}
  <1>6. 0 \in G
    <2>1. z[0] = ZeroLeaf /\ 0 \in 0 .. levels
      BY <1>1, <1>5
    <2>2. QED
      BY <1>0, <2>1, Children
  <1>7. ASSUME NEW l \in 0 .. levels - 1, l \in G PROVE l + 1 \in G
    <2>1. l + 1 \in 0 .. levels /\ l + 1 # 0 /\ (l + 1) - 1 = l /\ l \in 0 .. Deepest - 1
      BY <1>1
    <2>2. z[l + 1] = <<z[l], z[l]>>
      BY <1>5, <2>1
    <2>3. Node(w, l + 1, 0) = <<Node(w, l, 0), Node(w, l, 1)>>
      BY <1>1a, <2>1
    <2>4. Node(w, l, 1) = Node(w, l, 0)
      <3>1. l \in 0 .. Deepest
        BY <1>1, <2>1
      <3>2. QED
        BY <1>1, <1>2, <3>1
    <2>5. z[l] = Node(w, l, 0)
      BY <1>7
    <2>6. QED
      BY <2>1, <2>2, <2>3, <2>4, <2>5
  <1> HIDE DEF G
  <1>8. \A l \in 0 .. levels : l \in G
    BY <1>1, <1>6, <1>7, UpwardInduction
  <1>9. \A l \in 0 .. levels : z[l] = Node(w, l, 0)
    BY <1>8 DEF G
  <1>10. ASSUME NEW l \in 0 .. levels, NEW j \in Nat PROVE z[l] = Node(w, l, j)
    <2>1. l \in 0 .. Deepest
      BY <1>1
    <2>2. QED
      BY <1>2, <1>9, <2>1
  <1>11. QED
    BY <1>10 DEF w, z

\* The rows that MerkleRoot hashes level by level.
Row(seq, levels, f, l) ==
  [i \in 1 .. 2 ^ (levels - l) |->
     IF l = 0 THEN IF i <= Len(seq) THEN seq[i] ELSE ZeroLeaf
              ELSE <<f[l - 1][2 * i - 1], f[l - 1][2 * i]>>]
Rows(seq, levels, f) == [l \in 0 .. levels |-> Row(seq, levels, f, l)]

\* They are the levels of the tree.
LEMMA MerkleRootIs ==
  ASSUME NEW levels \in 0 .. Deepest, NEW s, Len(s) \in Nat
  PROVE  MerkleRoot(s, levels) = Node(Padded(s), levels, 0)
  <1> DEFINE w == Padded(s)
             W(l) == 1 .. 2 ^ (levels - l)
             g == [l \in 0 .. levels |-> [i \in W(l) |-> Node(w, l, i - 1)]]
  <1>1. levels \in Nat /\ levels <= Deepest /\ Deepest \in Nat
    BY DEF Deepest
  <1>2. ASSUME NEW i \in Nat \ {0}
        PROVE  Node(w, 0, i - 1) = IF i <= Len(s) THEN s[i] ELSE ZeroLeaf
    <2>1. i - 1 \in Nat /\ (i - 1) + 1 = i
      OBVIOUS
    <2>2. Node(w, 0, i - 1) = w[i - 1]
      BY <2>1, Children
    <2>3. QED
      BY <2>1, <2>2 DEF Padded
  <1>3. ASSUME NEW l \in 0 .. levels, l # 0, NEW i \in W(l)
        PROVE  /\ l - 1 \in 0 .. levels /\ 2 * i - 1 \in W(l - 1) /\ 2 * i \in W(l - 1)
               /\ Node(w, l, i - 1) = <<Node(w, l - 1, (2 * i - 1) - 1), Node(w, l - 1, 2 * i - 1)>>
    <2>1. l - 1 \in 0 .. levels /\ levels - l \in Nat /\ levels - (l - 1) = (levels - l) + 1
      BY <1>1, <1>3
    <2>2. PICK P \in Nat \ {0} : P = 2 ^ (levels - l) /\ 2 ^ (levels - (l - 1)) = 2 * P
      BY <2>1, PowersDouble
    <2>3. i \in Nat \ {0} /\ i <= P
      BY <2>2
    <2>4. 2 * i - 1 \in 1 .. 2 * P /\ 2 * i \in 1 .. 2 * P
      BY <2>2, <2>3
    <2>5. PICK k \in 0 .. Deepest - 1, m \in Nat : k = l - 1 /\ m = i - 1
      BY <1>1, <1>3, <2>1, <2>3
    <2>6. Node(w, k + 1, m) = <<Node(w, k, 2 * m), Node(w, k, 2 * m + 1)>>
      BY Children
    <2>7. k + 1 = l /\ 2 * m = (2 * i - 1) - 1 /\ 2 * m + 1 = 2 * i - 1
      BY <2>3, <2>5
    <2>8. QED
      BY <2>1, <2>2, <2>4, <2>5, <2>6, <2>7
  <1>4. ASSUME NEW l \in 0 .. levels PROVE g[l] = Row(s, levels, g, l)
    <2>1. ASSUME NEW i \in W(l)
          PROVE  g[l][i] = IF l = 0 THEN IF i <= Len(s) THEN s[i] ELSE ZeroLeaf
                           ELSE <<g[l - 1][2 * i - 1], g[l - 1][2 * i]>>
      <3>0. i \in Nat \ {0} /\ g[l][i] = Node(w, l, i - 1)
        OBVIOUS
      <3>1. CASE l = 0
        BY <1>2, <3>0, <3>1
      <3>2. CASE l # 0
        <4>1. /\ g[l - 1][2 * i - 1] = Node(w, l - 1, (2 * i - 1) - 1)
              /\ g[l - 1][2 * i] = Node(w, l - 1, 2 * i - 1)
          BY <1>3, <3>2
        <4>2. QED
          BY <1>3, <3>0, <3>2, <4>1
      <3>3. QED
        BY <3>1, <3>2
    <2>2. g[l] = [i \in W(l) |-> g[l][i]]
      OBVIOUS
    <2> HIDE DEF g
    <2>3. QED
      BY <2>1, <2>2 DEF Row
  <1>5. g = Rows(s, levels, g)
    <2>1. g = [l \in 0 .. levels |-> g[l]]
      OBVIOUS
    <2> HIDE DEF g
    <2>2. QED
      BY <1>4, <2>1 DEF Rows
  <1> HIDE DEF g
  <1>6. \E f : f = Rows(s, levels, f) /\ MerkleRoot(s, levels) = f[levels][1]
    <2> DEFINE h == CHOOSE f : f = Rows(s, levels, f)
    <2>1. h = Rows(s, levels, h)
      BY <1>5
    <2>2. MerkleRoot(s, levels) = h[levels][1]
      BY DEF MerkleRoot, Rows, Row
    <2>3. QED
      BY <2>1, <2>2
  <1>7. PICK f : f = Rows(s, levels, f) /\ MerkleRoot(s, levels) = f[levels][1]
    BY <1>6
  <1>8. ASSUME NEW l \in 0 .. levels PROVE f[l] = Row(s, levels, f, l)
    BY <1>7 DEF Rows
  <1> DEFINE F == {l \in 0 .. levels : \A i \in W(l) : f[l][i] = Node(w, l, i - 1)}
  <1>9. 0 \in F
    <2>1. 0 \in 0 .. levels
      BY <1>1
    <2>2. ASSUME NEW i \in W(0) PROVE f[0][i] = Node(w, 0, i - 1)
      <3>1. f[0][i] = IF i <= Len(s) THEN s[i] ELSE ZeroLeaf
        BY <1>8, <2>1 DEF Row
      <3>2. i \in Nat \ {0}
        OBVIOUS
      <3>3. QED
        BY <1>2, <3>1, <3>2
    <2>3. QED
      BY <2>1, <2>2
  <1>10. ASSUME NEW l \in 0 .. levels - 1, l \in F PROVE l + 1 \in F
    <2>1. PICK k : k = l + 1 /\ k \in 0 .. levels /\ k # 0 /\ k - 1 = l
      BY <1>1
    <2>2. ASSUME NEW i \in W(k) PROVE f[k][i] = Node(w, k, i - 1)
      <3>1. f[k][i] = <<f[k - 1][2 * i - 1], f[k - 1][2 * i]>>
        BY <1>8, <2>1 DEF Row
      <3>2. /\ k - 1 \in 0 .. levels /\ 2 * i - 1 \in W(k - 1) /\ 2 * i \in W(k - 1)
            /\ Node(w, k, i - 1) = <<Node(w, k - 1, (2 * i - 1) - 1), Node(w, k - 1, 2 * i - 1)>>
        BY <1>3, <2>1
      <3>3. \A j \in W(k - 1) : f[k - 1][j] = Node(w, k - 1, j - 1)
        BY <1>10, <2>1
      <3>4. QED
        BY <3>1, <3>2, <3>3
    <2>3. QED
      BY <2>1, <2>2
  <1> HIDE DEF F
  <1>11. levels \in F
    <2>1. \A l \in 0 .. levels : l \in F
      BY <1>1, <1>9, <1>10, UpwardInduction
    <2>2. QED
      BY <1>1, <2>1
  <1>12. f[levels][1] = Node(w, levels, 1 - 1)
    <2>1. 1 \in W(levels)
      <3>1. levels - levels = 0 /\ 2 ^ 0 = 1
        BY <1>1
      <3>2. QED
        BY <3>1
    <2>2. QED
      BY <1>11, <2>1 DEF F
  <1>13. QED
    BY <1>7, <1>12

---------------------------------------------------------------------------
(***************************************************************************)
(* Appending leaves, one (from level 0) or two (from level 1).             *)
(***************************************************************************)

\* The place of leaf n at level l.
At(n, l) == n \div 2 ^ l

\* As many leaves are appended at once when the loop begins at level "from".
Added(from) == IF from = 0 THEN 1 ELSE 2

\* The new leaves do not go beyond the node at that place.
LEMMA Places ==
  ASSUME NEW from \in {0, 1}, NEW n \in Nat, n % Added(from) = 0,
         NEW l \in Nat, l >= from, NEW Q, Q = 2 ^ l
  PROVE  /\ Q \in Nat \ {0} /\ At(n, l) \in Nat
         /\ At(n, l) * Q <= n /\ n + Added(from) <= At(n, l) * Q + Q
         /\ At(n + Added(from), l) \in {At(n, l), At(n, l) + 1}
         /\ At(n, l + 1) = At(n, l) \div 2
         /\ IsRight(n, l) <=> At(n, l) % 2 = 1
  <1>1. PICK P \in Nat \ {0} : P = 2 ^ l /\ 2 ^ (l + 1) = 2 * P
    BY PowersDouble
  <1>2. PICK q \in Nat : q = n \div P
    <2>1. n \div P \in Nat
      OBVIOUS
    <2>2. QED
      BY <2>1
  <1>3. PICK m \in Nat : m = q * P
    OBVIOUS
  <1>4. m <= n /\ n < m + P
    BY <1>1, <1>2, <1>3
  <1>5. PICK D \in {1, 2} : D = Added(from) /\ n % D = 0 /\ (from = 1 => D = 2) /\ (from = 0 => D = 1)
    BY DEF Added
  <1>6. n + D <= m + P
    <2>1. CASE from = 0
      BY <1>4, <1>5, <2>1
    <2>2. CASE from = 1
      <3>1. PICK k \in Nat : k + 1 = l
        <4>1. l - 1 \in Nat /\ (l - 1) + 1 = l
          BY <2>2
        <4>2. QED
          BY <4>1
      <3>2. PICK e \in Nat \ {0} : P = 2 * e
        <4>1. 2 ^ k \in Nat \ {0} /\ 2 ^ (k + 1) = 2 * 2 ^ k
          BY PowersDouble
        <4>2. QED
          BY <1>1, <3>1, <4>1
      <3>3. PICK a \in Nat : n = 2 * a
        BY <1>5, <2>2
      <3>4. PICK b \in Nat : b = q * e
        BY <3>2
      <3>5. m = 2 * b
        BY <1>3, <3>2, <3>4
      <3>6. QED
        BY <1>4, <1>5, <2>2, <3>2, <3>3, <3>5
    <2>3. QED
      BY <2>1, <2>2
  <1>7. (n + D) \div P \in {q, q + 1}
    <2>1. PICK r \in Nat : r = (n + D) \div P
      BY <1>1, <1>5
    <2>2. PICK k \in Nat : k = n + D
      BY <1>5
    <2>3. P * r <= k /\ k < P * r + P
      BY <1>1, <2>1, <2>2
    <2>4. CASE k < m + P
      <3>1. P * q <= k /\ k < P * q + P
        BY <1>3, <1>4, <1>5, <2>2, <2>4
      <3>2. k \div P = q
        BY <3>1
      <3>3. QED
        BY <2>2, <3>2
    <2>5. CASE k = m + P
      <3>1. k = P * (q + 1)
        BY <1>3, <2>5
      <3>2. k \div P = q + 1
        BY <3>1
      <3>3. QED
        BY <2>2, <3>2
    <2>6. QED
      BY <1>6, <2>2, <2>4, <2>5
  <1>8. n \div (2 * P) = (n \div P) \div 2
    BY Halving
  <1>9. IsRight(n, l) <=> (n \div P) % 2 = 1
    BY <1>1 DEF IsRight
  <1>10. At(n, l) = q /\ At(n + D, l) = (n + D) \div P /\ At(n, l + 1) = n \div (2 * P)
    BY <1>1, <1>2 DEF At
  <1>11. At(n, l + 1) = At(n, l) \div 2 /\ (IsRight(n, l) <=> At(n, l) % 2 = 1)
    BY <1>2, <1>8, <1>9, <1>10
  <1>12. At(n, l) * P = m
    BY <1>3, <1>10
  <1>13. At(n, l) * P <= n /\ n + D <= At(n, l) * P + P
    BY <1>4, <1>6, <1>12
  <1>14. At(n + D, l) \in {At(n, l), At(n, l) + 1}
    BY <1>7, <1>10
  <1>15. QED
    BY <1>1, <1>2, <1>5, <1>10, <1>11, <1>13, <1>14

LEMMA NextPlace ==
  ASSUME NEW from \in {0, 1}, NEW n \in Nat, n % Added(from) = 0, NEW l \in Nat, l >= from
  PROVE  At(n + Added(from), l) = At(n, l) \/ At(n + Added(from), l) = At(n, l) + 1
  <1>1. PICK Q : Q = 2 ^ l
    OBVIOUS
  <1>2. At(n + Added(from), l) \in {At(n, l), At(n, l) + 1}
    BY <1>1, Places
  <1>3. QED
    BY <1>2

\* What a contract keeps of a tree with n leaves: the left children of the
\* path that leaf n will have.
Holds(filled, w, n, from, levels) ==
  \A l \in from .. levels - 1 : IsRight(n, l) => filled[l] = Node(w, l, At(n, l) - 1)

\* The leaves v are the first n of w with d more.
Adds(w, v, n, d) ==
  /\ \A i \in Nat : i < n => v[i] = w[i]
  /\ \A i \in Nat : i >= n + d => v[i] = ZeroLeaf

\* The nodes of the new leaf's path, one level up: the left sibling is one that
\* was kept, a right sibling has no leaf yet.
LEMMA CarryStep ==
  ASSUME NEW levels \in 1 .. Deepest, NEW from \in {0, 1}, NEW n \in Nat, n % Added(from) = 0,
         NEW w, NEW v, Adds(w, v, n, Added(from)),
         NEW filled, Holds(filled, w, n, from, levels),
         NEW l \in from .. levels - 1
  PROVE  Node(v, l + 1, At(n, l + 1))
           = IF IsRight(n, l) THEN <<filled[l], Node(v, l, At(n, l))>>
             ELSE <<Node(v, l, At(n, l)), Zeroes(levels)[l]>>
  <1>1. l \in 0 .. Deepest - 1 /\ l \in 0 .. Deepest /\ l \in Nat /\ l >= from /\ l \in 0 .. levels
    BY DEF Deepest
  <1>2. PICK P, q, D : /\ P = 2 ^ l /\ q = At(n, l) /\ P \in Nat \ {0} /\ q \in Nat
                       /\ D = Added(from) /\ q * P <= n /\ n + D <= q * P + P
                       /\ At(n, l + 1) = q \div 2 /\ (IsRight(n, l) <=> q % 2 = 1)
    <2>1. PICK P, q, D : P = 2 ^ l /\ q = At(n, l) /\ D = Added(from)
      OBVIOUS
    <2>2. /\ P \in Nat \ {0} /\ q \in Nat /\ q * P <= n /\ n + D <= q * P + P
          /\ At(n, l + 1) = q \div 2 /\ (IsRight(n, l) <=> q % 2 = 1)
      BY <1>1, <2>1, Places
    <2>3. QED
      BY <2>1, <2>2
  <1>3. PICK h \in Nat : h = q \div 2 /\ (q = 2 * h \/ q = 2 * h + 1)
    <2>1. q \in Nat
      BY <1>2
    <2>2. PICK k \in Nat : k = q \div 2
      BY <2>1
    <2>3. q = 2 * k \/ q = 2 * k + 1
      BY <2>1, <2>2
    <2>4. QED
      BY <2>2, <2>3
  <1>4. Node(v, l + 1, h) = <<Node(v, l, 2 * h), Node(v, l, 2 * h + 1)>>
    BY <1>1, Children
  <1>5. CASE IsRight(n, l)
    <2>1. q = 2 * h + 1 /\ q - 1 = 2 * h
      BY <1>2, <1>3, <1>5
    <2>2. (2 * h) * P + P <= n
      BY <1>2, <2>1
    <2>3. Node(v, l, 2 * h) = Node(w, l, 2 * h)
      <3>1. PICK j \in Nat, m \in Nat : j = 2 * h /\ m = j * P /\ m = j * 2 ^ l
        BY <1>2
      <3>2. \A i \in Nat : m <= i /\ i < m + P => v[i] = w[i]
        BY <1>2, <2>2, <3>1 DEF Adds
      <3>3. SameUnder(v, w, l, j)
        BY <1>2, <3>1, <3>2 DEF SameUnder
      <3>4. Node(v, l, j) = Node(w, l, j)
        BY <1>1, <3>3, SameLeaves
      <3>5. QED
        BY <3>1, <3>4
    <2>4. filled[l] = Node(w, l, 2 * h)
      BY <1>2, <1>5, <2>1 DEF Holds
    <2>5. QED
      BY <1>2, <1>3, <1>4, <1>5, <2>1, <2>3, <2>4
  <1>6. CASE ~IsRight(n, l)
    <2>1. q = 2 * h
      BY <1>2, <1>3, <1>6
    <2>2. Node(v, l, 2 * h + 1) = Node(Padded(<< >>), l, 2 * h + 1)
      <3>0. PICK j \in Nat : j = 2 * h + 1
        OBVIOUS
      <3>1. PICK m \in Nat : m = j * P /\ m = j * 2 ^ l
        BY <1>2
      <3>2. m = q * P + P
        BY <1>2, <2>1, <3>0, <3>1
      <3>3. ASSUME NEW i \in Nat, m <= i PROVE i >= n + D
        <4>1. n + D <= m /\ D \in Nat
          BY <1>2, <3>2 DEF Added
        <4>2. QED
          BY <3>3, <4>1
      <3>4. \A i \in Nat : m <= i => v[i] = ZeroLeaf
        BY <1>2, <3>3 DEF Adds
      <3>5. \A i \in Nat : Padded(<< >>)[i] = ZeroLeaf
        BY DEF Padded
      <3>6. SameUnder(v, Padded(<< >>), l, j)
        BY <3>1, <3>4, <3>5 DEF SameUnder
      <3>7. Node(v, l, j) = Node(Padded(<< >>), l, j)
        BY <1>1, <3>6, SameLeaves
      <3>8. QED
        BY <3>0, <3>7
    <2>3. Zeroes(levels)[l] = Node(Padded(<< >>), l, 2 * h + 1)
      <3>1. levels \in 0 .. Deepest /\ 2 * h + 1 \in Nat
        BY DEF Deepest
      <3>2. QED
        BY <1>1, <3>1, ZeroesAre
    <2>4. QED
      BY <1>2, <1>3, <1>4, <1>6, <2>1, <2>2, <2>3
  <1>7. QED
    BY <1>5, <1>6

\* The loop gives the nodes of the new leaf's path.
LEMMA CarryIs ==
  ASSUME NEW levels \in 1 .. Deepest, NEW from \in {0, 1}, NEW n \in Nat, n % Added(from) = 0,
         NEW w, NEW v, Adds(w, v, n, Added(from)),
         NEW filled, Holds(filled, w, n, from, levels),
         NEW node, node = Node(v, from, At(n, from))
  PROVE  \A l \in from .. levels :
           Carry(filled, n, from, node, levels)[l] = Node(v, l, At(n, l))
  <1> DEFINE Hash(f, l) == IF l = from THEN node
                           ELSE IF IsRight(n, l - 1) THEN <<filled[l - 1], f[l - 1]>>
                           ELSE <<f[l - 1], Zeroes(levels)[l - 1]>>
             Is(f) == f = [l \in from .. levels |-> Hash(f, l)]
             g == [l \in from .. levels |-> Node(v, l, At(n, l))]
  <1>1. levels \in Nat /\ from \in Nat /\ from <= levels
    BY DEF Deepest
  <1>2. ASSUME NEW l \in from .. levels, l # from
        PROVE  /\ l - 1 \in from .. levels - 1
               /\ Node(v, l, At(n, l))
                    = IF IsRight(n, l - 1) THEN <<filled[l - 1], Node(v, l - 1, At(n, l - 1))>>
                      ELSE <<Node(v, l - 1, At(n, l - 1)), Zeroes(levels)[l - 1]>>
    <2>1. PICK k \in from .. levels - 1 : k = l - 1 /\ k + 1 = l
      BY <1>1, <1>2
    <2>2. Node(v, k + 1, At(n, k + 1))
            = IF IsRight(n, k) THEN <<filled[k], Node(v, k, At(n, k))>>
              ELSE <<Node(v, k, At(n, k)), Zeroes(levels)[k]>>
      BY CarryStep
    <2>3. QED
      BY <2>1, <2>2
  <1>3. ASSUME NEW l \in from .. levels PROVE g[l] = Hash(g, l)
    <2>1. CASE l = from
      BY <2>1
    <2>2. CASE l # from
      <3>1. l - 1 \in from .. levels /\ g[l - 1] = Node(v, l - 1, At(n, l - 1))
        BY <1>1, <1>2, <2>2
      <3>2. g[l] = Node(v, l, At(n, l))
        OBVIOUS
      <3> HIDE DEF g
      <3>3. QED
        BY <1>2, <2>2, <3>1, <3>2
    <2>3. QED
      BY <2>1, <2>2
  <1>4. Is(g)
    <2>1. g = [l \in from .. levels |-> g[l]]
      OBVIOUS
    <2> HIDE DEF g
    <2>2. QED
      BY <1>3, <2>1
  <1> HIDE DEF g
  <1>5. PICK c : c = Carry(filled, n, from, node, levels)
    OBVIOUS
  <1>6. Is(c)
    BY <1>4, <1>5 DEF Carry
  <1> DEFINE F == {k \in 0 .. levels - from :
                     c[from + k] = Node(v, from + k, At(n, from + k))}
  <1>7. 0 \in F
    <2>1. c[from] = node
      BY <1>1, <1>6
    <2>2. from + 0 = from /\ 0 \in 0 .. levels - from
      BY <1>1
    <2>3. QED
      BY <2>1, <2>2
  <1>8. ASSUME NEW k \in 0 .. (levels - from) - 1, k \in F PROVE k + 1 \in F
    <2>1. PICK l : /\ l = from + (k + 1) /\ l \in from .. levels /\ l # from /\ l - 1 = from + k
                   /\ k + 1 \in 0 .. levels - from
      BY <1>1
    <2>2. c[l - 1] = Node(v, l - 1, At(n, l - 1))
      BY <1>8, <2>1
    <2>3. c[l] = IF IsRight(n, l - 1) THEN <<filled[l - 1], c[l - 1]>>
                 ELSE <<c[l - 1], Zeroes(levels)[l - 1]>>
      BY <1>6, <2>1
    <2>4. c[l] = Node(v, l, At(n, l))
      BY <1>2, <2>1, <2>2, <2>3
    <2>5. QED
      BY <2>1, <2>4
  <1> HIDE DEF F
  <1>9. ASSUME NEW l \in from .. levels PROVE c[l] = Node(v, l, At(n, l))
    <2>1. \A k \in 0 .. levels - from : k \in F
      <3>1. levels - from \in Nat
        BY <1>1
      <3>2. QED
        BY <1>7, <1>8, <3>1, UpwardInduction
    <2>2. PICK k \in 0 .. levels - from : l = from + k
      <3>1. l - from \in 0 .. levels - from /\ l = from + (l - from)
        BY <1>1
      <3>2. QED
        BY <3>1
    <2>3. QED
      BY <2>1, <2>2 DEF F
  <1>10. QED
    BY <1>5, <1>9

\* And keeps the left children of the path that the next leaf will have.
LEMMA FilledHolds ==
  ASSUME NEW levels \in 1 .. Deepest, NEW from \in {0, 1}, NEW n \in Nat, n % Added(from) = 0,
         NEW w, NEW v, Adds(w, v, n, Added(from)),
         NEW filled, Holds(filled, w, n, from, levels), 0 .. levels - 1 \subseteq DOMAIN filled,
         NEW node, node = Node(v, from, At(n, from))
  PROVE  Holds(FilledAfter(filled, n, from, node, levels), v, n + Added(from), from, levels)
  <1>1. levels \in Nat /\ from \in Nat /\ levels <= Deepest /\ Deepest \in Nat
    BY DEF Deepest
  <1>2. PICK next : next = FilledAfter(filled, n, from, node, levels)
    OBVIOUS
  <1>3. PICK m \in Nat : m = n + Added(from)
    BY DEF Added
  <1>5. ASSUME NEW l \in from .. levels - 1, IsRight(m, l)
        PROVE  next[l] = Node(v, l, At(m, l) - 1)
    <2>1. l \in 0 .. Deepest /\ l \in Nat /\ l >= from /\ l \in DOMAIN filled /\ l \in from .. levels
      BY <1>1
    <2>2. PICK P, q, r : P = 2 ^ l /\ q = At(n, l) /\ r = At(m, l)
      OBVIOUS
    <2>3. P \in Nat \ {0} /\ q \in Nat /\ q * P <= n /\ (IsRight(n, l) <=> q % 2 = 1)
      <3>1. P = 2 ^ l
        BY <2>2
      <3>2. /\ P \in Nat \ {0} /\ At(n, l) \in Nat /\ At(n, l) * P <= n
            /\ IsRight(n, l) <=> At(n, l) % 2 = 1
        BY <2>1, <3>1, Places
      <3>3. QED
        BY <2>2, <3>2
    <2>4. r \in {q, q + 1} /\ r % 2 = 1
      <3>1. At(n + Added(from), l) = At(n, l) \/ At(n + Added(from), l) = At(n, l) + 1
        BY <2>1, NextPlace
      <3>2. At(m, l) % 2 = 1
        BY <1>5 DEF IsRight, At
      <3>3. QED
        BY <1>3, <2>2, <3>1, <3>2
    <2>5. next[l] = IF ~IsRight(n, l) THEN Carry(filled, n, from, node, levels)[l] ELSE filled[l]
      BY <1>2, <2>1 DEF FilledAfter
    <2>6. CASE r = q + 1
      <3>1. ~IsRight(n, l) /\ r - 1 = q
        BY <2>3, <2>4, <2>6
      <3>2. Carry(filled, n, from, node, levels)[l] = Node(v, l, q)
        BY <2>1, <2>2, CarryIs
      <3>3. QED
        BY <2>2, <2>5, <3>1, <3>2
    <2>7. CASE r = q
      <3>1. IsRight(n, l)
        BY <2>3, <2>4, <2>7
      <3>2. filled[l] = Node(w, l, q - 1) /\ q - 1 \in Nat
        BY <2>2, <2>3, <2>4, <2>7, <3>1 DEF Holds
      <3>3. PICK k \in Nat, b \in Nat : k = q - 1 /\ b = k * P
        BY <2>3, <3>2
      <3>4. b + P <= n
        BY <2>3, <3>3
      <3>5. \A i \in Nat : b <= i /\ i < b + P => v[i] = w[i]
        BY <2>3, <3>3, <3>4 DEF Adds
      <3>5a. SameUnder(v, w, l, k)
        BY <2>2, <3>3, <3>5 DEF SameUnder
      <3>6. Node(v, l, k) = Node(w, l, k)
        BY <2>1, <3>5a, SameLeaves
      <3>7. QED
        BY <2>2, <2>5, <2>7, <3>1, <3>2, <3>3, <3>6
    <2>8. QED
      BY <2>4, <2>6, <2>7
  <1>6. QED
    BY <1>2, <1>3, <1>5 DEF Holds

\* The leaves of a tree that holds the first n of a sequence.
First(s, n) == [i \in Nat |-> IF i < n THEN s[i + 1] ELSE ZeroLeaf]

LEMMA PaddedIsFirst ==
  ASSUME NEW s
  PROVE  /\ Padded(s) = First(s, Len(s))
         /\ Padded(<< >>) = First(s, 0)
  <1>1. Padded(s) = First(s, Len(s))
    BY DEF Padded, First
  <1>2. Padded(<< >>) = First(s, 0)
    <2>1. \A i \in Nat : ~(i < 0)
      OBVIOUS
    <2>2. Len(<< >>) = 0
      OBVIOUS
    <2>3. QED
      BY <2>1, <2>2 DEF Padded, First
  <1>3. QED
    BY <1>1, <1>2

LEMMA FirstStays ==
  ASSUME NEW s, NEW t, NEW n \in Nat, \A i \in 1 .. n : t[i] = s[i]
  PROVE  First(t, n) = First(s, n)
  <1>1. ASSUME NEW i \in Nat, i < n PROVE t[i + 1] = s[i + 1]
    <2>1. i + 1 \in 1 .. n
      BY <1>1
    <2>2. QED
      BY <2>1
  <1>2. \A i \in Nat : (IF i < n THEN t[i + 1] ELSE ZeroLeaf) = (IF i < n THEN s[i + 1] ELSE ZeroLeaf)
    BY <1>1
  <1>3. QED
    BY <1>2 DEF First

\* MerkleRoot of the first n leaves of a sequence.
LEMMA RootOfFirst ==
  ASSUME NEW levels \in 1 .. Deepest, NEW S, NEW s \in Seq(S), NEW n \in 0 .. Len(s)
  PROVE  MerkleRoot(SubSeq(s, 1, n), levels) = Node(First(s, n), levels, 0)
  <1>1. PICK t \in Seq(S) : t = SubSeq(s, 1, n) /\ Len(t) = n /\ \A i \in 1 .. n : t[i] = s[i]
    <2>1. n \in Int /\ 1 \in 1 .. Len(s) + 1 /\ n \in 1 - 1 .. Len(s)
      BY LenProperties
    <2>2. /\ SubSeq(s, 1, n) \in Seq(S)
          /\ Len(SubSeq(s, 1, n)) = n - 1 + 1
          /\ \A i \in 1 .. n - 1 + 1 : SubSeq(s, 1, n)[i] = s[1 + i - 1]
      BY <2>1, SubSeqProperties
    <2>3. n - 1 + 1 = n /\ \A i \in 1 .. n : 1 + i - 1 = i
      BY <2>1
    <2>4. PICK t : t = SubSeq(s, 1, n)
      OBVIOUS
    <2>5. \A i \in 1 .. n : t[i] = s[i]
      BY <2>2, <2>3, <2>4
    <2>6. QED
      BY <2>2, <2>3, <2>4, <2>5
  <1>2. levels \in 0 .. Deepest /\ Len(t) \in Nat
    BY <1>1 DEF Deepest
  <1>3. MerkleRoot(t, levels) = Node(Padded(t), levels, 0)
    BY <1>2, MerkleRootIs
  <1>4. Padded(t) = First(t, n)
    BY <1>1, PaddedIsFirst
  <1>5. First(t, n) = First(s, n)
    <2>1. n \in Nat
      OBVIOUS
    <2>2. QED
      BY <1>1, <2>1, FirstStays
  <1>6. QED
    BY <1>1, <1>3, <1>4, <1>5

LEMMA EmptyHolds ==
  ASSUME NEW levels \in 1 .. Deepest, NEW from \in {0, 1}, NEW filled, NEW s
  PROVE  /\ Holds(filled, First(s, 0), 0, from, levels)
         /\ Zeroes(levels)[levels] = Node(First(s, 0), levels, 0)
  <1>1. ASSUME NEW l \in from .. levels - 1 PROVE ~IsRight(0, l)
    <2>1. l \in Nat
      OBVIOUS
    <2>2. PICK P \in Nat \ {0} : P = 2 ^ l
      BY <2>1, PowersDouble
    <2>3. (0 \div P) % 2 = 0
      OBVIOUS
    <2>4. QED
      BY <2>2, <2>3 DEF IsRight
  <1>2. levels \in 0 .. Deepest /\ levels \in 0 .. levels /\ 0 \in Nat
    BY DEF Deepest
  <1>3. Zeroes(levels)[levels] = Node(Padded(<< >>), levels, 0)
    BY <1>2, ZeroesAre
  <1>4. QED
    BY <1>1, <1>3, PaddedIsFirst DEF Holds

\* The first n leaves stay, and every level has a place for a subtree.
Stays(s, t, n) == \A i \in 1 .. n : t[i] = s[i]
HasLevels(filled, levels) == 0 .. levels - 1 \subseteq DOMAIN filled

\* Appending to the first n leaves gives the next root and what is kept for
\* the append after it.
LEMMA Appends ==
  ASSUME NEW levels \in 1 .. Deepest, NEW from \in {0, 1}, NEW n \in Nat, n % Added(from) = 0,
         n + Added(from) <= 2 ^ levels,
         NEW s, NEW t, Stays(s, t, n),
         NEW filled, Holds(filled, First(s, n), n, from, levels), HasLevels(filled, levels),
         NEW node, node = Node(First(t, n + Added(from)), from, At(n, from))
  PROVE  /\ Carry(filled, n, from, node, levels)[levels] = Node(First(t, n + Added(from)), levels, 0)
         /\ Holds(FilledAfter(filled, n, from, node, levels),
                  First(t, n + Added(from)), n + Added(from), from, levels)
  <1>1. PICK w, v : w = First(s, n) /\ v = First(t, n + Added(from))
    OBVIOUS
  <1>2. Adds(w, v, n, Added(from))
    <2>1. ASSUME NEW i \in Nat, i < n PROVE v[i] = w[i]
      <3>1. i + 1 \in 1 .. n /\ i < n + Added(from)
        BY <2>1 DEF Added
      <3>2. QED
        BY <1>1, <2>1, <3>1 DEF First, Stays
    <2>2. ASSUME NEW i \in Nat, i >= n + Added(from) PROVE v[i] = ZeroLeaf
      <3>1. ~(i < n + Added(from))
        BY <2>2 DEF Added
      <3>2. QED
        BY <1>1, <3>1 DEF First
    <2>3. QED
      BY <2>1, <2>2 DEF Adds
  <1>3. At(n, levels) = 0
    <2>1. PICK P \in Nat \ {0} : P = 2 ^ levels
      <3>1. levels \in Nat
        OBVIOUS
      <3>2. QED
        BY <3>1, PowersDouble
    <2>2. n < P
      BY <2>1 DEF Added
    <2>3. n \div P = 0
      BY <2>2
    <2>4. QED
      BY <2>1, <2>3 DEF At
  <1>4. levels \in from .. levels
    BY DEF Deepest
  <1>5. Carry(filled, n, from, node, levels)[levels] = Node(v, levels, At(n, levels))
    BY <1>1, <1>2, <1>4, CarryIs
  <1>6. Holds(FilledAfter(filled, n, from, node, levels), v, n + Added(from), from, levels)
    BY <1>1, <1>2, FilledHolds DEF HasLevels
  <1>7. QED
    BY <1>1, <1>3, <1>5, <1>6

---------------------------------------------------------------------------
(***************************************************************************)
(* The membership contract.                                                *)
(***************************************************************************)

\* The loop of insert_leaf is the one proved about.
LEMMA MembershipLoop ==
  /\ \A levels : Membership!Zeroes(levels) = Zeroes(levels)
  /\ \A filled, n, from, node, levels :
       /\ Membership!Carry(filled, n, from, node, levels) = Carry(filled, n, from, node, levels)
       /\ Membership!FilledAfter(filled, n, from, node, levels)
            = FilledAfter(filled, n, from, node, levels)
  /\ \A s, levels : Membership!MerkleRoot(s, levels) = MerkleRoot(s, levels)
  BY DEF Membership!Zeroes, Zeroes, Membership!Carry, Carry, Membership!IsRight, IsRight,
         Membership!FilledAfter, FilledAfter, Membership!MerkleRoot, MerkleRoot

MemberLeaves == Membership!AddedLeaves

\* The inductive invariant: each root published, and the one stored, is over
\* the first leaves published, and the subtrees kept are theirs.
MemberInv ==
  /\ \E S : events \in Seq(S)
  /\ Len(events) = nextIndex
  /\ DOMAIN filledSubtrees = 0 .. LEVELS
  /\ Holds(filledSubtrees, First(MemberLeaves, nextIndex), nextIndex, 0, LEVELS)
  /\ membershipRoot = Node(First(MemberLeaves, nextIndex), LEVELS, 0)
  /\ \A i \in 1 .. nextIndex :
       events[i].index = i - 1 /\ events[i].root = Node(First(MemberLeaves, i), LEVELS, 0)

LEMMA MemberTypes ==
  ASSUME MemberInv
  PROVE  /\ nextIndex \in Nat /\ DOMAIN events = 1 .. nextIndex
         /\ MemberLeaves = [i \in 1 .. nextIndex |-> events[i].leaf]
         /\ \E S : MemberLeaves \in Seq(S)
         /\ Len(MemberLeaves) = nextIndex
         /\ LEVELS \in 1 .. Deepest
  <1>1. PICK S : events \in Seq(S)
    BY DEF MemberInv
  <1>2. nextIndex \in Nat /\ DOMAIN events = 1 .. nextIndex
    BY <1>1, LenProperties DEF MemberInv
  <1>3. MemberLeaves = [i \in 1 .. nextIndex |-> events[i].leaf]
    BY <1>2 DEF MemberLeaves, Membership!AddedLeaves
  <1>4. PICK U : U = {events[i].leaf : i \in 1 .. nextIndex}
    OBVIOUS
  <1>5. MemberLeaves \in [1 .. nextIndex -> U]
    BY <1>3, <1>4
  <1>6. MemberLeaves \in Seq(U) /\ Len(MemberLeaves) = nextIndex
    BY <1>2, <1>5
  <1>7. QED
    BY <1>2, <1>3, <1>6, TreesAssumption DEF Deepest

LEMMA MemberInit == Membership!Init => MemberInv
  <1> SUFFICES ASSUME Membership!Init PROVE MemberInv
    OBVIOUS
  <1>1. events = << >> /\ nextIndex = 0 /\ events \in Seq({}) /\ Len(events) = 0
    BY DEF Membership!Init
  <1>2. DOMAIN filledSubtrees = 0 .. LEVELS
    BY DEF Membership!Init
  <1>3. LEVELS \in 1 .. Deepest
    BY TreesAssumption DEF Deepest
  <1>4. membershipRoot = Zeroes(LEVELS)[LEVELS]
    BY MembershipLoop DEF Membership!Init
  <1>5. /\ Holds(filledSubtrees, First(MemberLeaves, 0), 0, 0, LEVELS)
        /\ Zeroes(LEVELS)[LEVELS] = Node(First(MemberLeaves, 0), LEVELS, 0)
    BY <1>3, EmptyHolds
  <1>6. QED
    BY <1>1, <1>2, <1>4, <1>5 DEF MemberInv

LEMMA InsertLeafStep ==
  ASSUME MemberInv, NEW caller, NEW leaf, Membership!InsertLeaf(caller, leaf)
  PROVE  /\ MemberInv'
         /\ nextIndex' = nextIndex + 1 /\ Stays(MemberLeaves, MemberLeaves', nextIndex)
  <1> DEFINE n == nextIndex
             s == MemberLeaves
             t == MemberLeaves'
             e == [leaf |-> leaf, index |-> n, root |-> membershipRoot']
  <1>1. n \in Nat /\ DOMAIN events = 1 .. n /\ LEVELS \in 1 .. Deepest /\ Len(events) = n
    BY MemberTypes DEF MemberInv
  <1>2. PICK S : events \in Seq(S)
    BY DEF MemberInv
  <1>3. /\ nextIndex' = n + 1 /\ n < 2 ^ LEVELS /\ n + 1 <= 2 ^ LEVELS
        /\ events' = Append(events, e)
        /\ membershipRoot' = Carry(filledSubtrees, n, 0, leaf, LEVELS)[LEVELS]
        /\ filledSubtrees' = FilledAfter(filledSubtrees, n, 0, leaf, LEVELS)
    <2>1. LEVELS \in Nat
      BY <1>1
    <2>2. PICK P \in Nat : P = 2 ^ LEVELS
      BY <2>1, PowersDouble
    <2>3. nextIndex' = n + 1 /\ ~(n >= P) /\ events' = Append(events, e)
      BY <2>2 DEF Membership!InsertLeaf, Membership!TreeIsFull
    <2>4. /\ membershipRoot' = Carry(filledSubtrees, n, 0, leaf, LEVELS)[LEVELS]
          /\ filledSubtrees' = FilledAfter(filledSubtrees, n, 0, leaf, LEVELS)
      BY MembershipLoop DEF Membership!InsertLeaf
    <2>5. QED
      BY <1>1, <2>2, <2>3, <2>4
  <1>4. /\ \E U : events' \in Seq(U)
        /\ Len(events') = n + 1
        /\ DOMAIN events' = 1 .. n + 1
        /\ \A i \in 1 .. n : events'[i] = events[i]
        /\ events'[n + 1] = e
    <2>1. PICK U : U = S \cup {e}
      OBVIOUS
    <2>2. events \in Seq(U) /\ e \in U
      BY <1>2, <2>1
    <2>3. /\ Append(events, e) \in Seq(U) /\ Len(Append(events, e)) = n + 1
          /\ \A i \in 1 .. n : Append(events, e)[i] = events[i]
          /\ Append(events, e)[n + 1] = e
      BY <1>1, <2>2, AppendProperties
    <2>4. QED
      BY <1>3, <2>3, LenProperties
  <1>5. s = [i \in 1 .. n |-> events[i].leaf] /\ t = [i \in 1 .. n + 1 |-> events'[i].leaf]
    BY <1>1, <1>4 DEF MemberLeaves, Membership!AddedLeaves
  <1>6. (\A i \in 1 .. n : t[i] = s[i]) /\ t[n + 1] = leaf
    <2>1. \A i \in 1 .. n : i \in 1 .. n + 1
      BY <1>1
    <2>2. n + 1 \in 1 .. n + 1
      BY <1>1
    <2>3. QED
      BY <1>4, <1>5, <2>1, <2>2
  <1> HIDE DEF s, t
  <1>7. leaf = Node(First(t, n + Added(0)), 0, At(n, 0))
    <2>1. At(n, 0) = n /\ Added(0) = 1
      <3>1. 2 ^ 0 = 1 /\ n \div 1 = n
        BY <1>1
      <3>2. QED
        BY <3>1 DEF At, Added
    <2>2. Node(First(t, n + 1), 0, n) = First(t, n + 1)[n]
      BY <1>1, Children
    <2>3. First(t, n + 1)[n] = leaf
      BY <1>1, <1>6 DEF First
    <2>4. QED
      BY <2>1, <2>2, <2>3
  <1>8. /\ membershipRoot' = Node(First(t, n + 1), LEVELS, 0)
        /\ Holds(filledSubtrees', First(t, n + 1), n + 1, 0, LEVELS)
    <2>1. PICK D : D = Added(0) /\ D = 1 /\ n % D = 0 /\ n + D <= 2 ^ LEVELS
      BY <1>1, <1>3 DEF Added
    <2>2. Holds(filledSubtrees, First(s, n), n, 0, LEVELS) /\ 0 .. LEVELS - 1 \subseteq DOMAIN filledSubtrees
      BY <1>1 DEF MemberInv, s
    <2>3. HasLevels(filledSubtrees, LEVELS) /\ Stays(s, t, n)
      BY <1>6, <2>2 DEF HasLevels, Stays
    <2>4. n % Added(0) = 0 /\ n + Added(0) <= 2 ^ LEVELS
      BY <2>1
    <2>5. /\ Carry(filledSubtrees, n, 0, leaf, LEVELS)[LEVELS] = Node(First(t, n + Added(0)), LEVELS, 0)
          /\ Holds(FilledAfter(filledSubtrees, n, 0, leaf, LEVELS),
                   First(t, n + Added(0)), n + Added(0), 0, LEVELS)
      BY <1>1, <1>7, <2>2, <2>3, <2>4, Appends
    <2>6. QED
      BY <1>3, <2>1, <2>5
  <1>9. DOMAIN filledSubtrees' = 0 .. LEVELS
    BY <1>3 DEF FilledAfter, MemberInv
  <1>10. ASSUME NEW i \in 1 .. n + 1
         PROVE  events'[i].index = i - 1 /\ events'[i].root = Node(First(t, i), LEVELS, 0)
    <2>1. CASE i = n + 1
      BY <1>1, <1>4, <1>8, <2>1
    <2>2. CASE i # n + 1
      <3>1. i \in 1 .. n /\ i \in Nat
        BY <1>1, <2>2
      <3>2. events[i].index = i - 1 /\ events[i].root = Node(First(s, i), LEVELS, 0)
        BY <3>1 DEF MemberInv, s
      <3>3. \A j \in 1 .. i : t[j] = s[j]
        BY <1>1, <1>6, <3>1
      <3>4. First(t, i) = First(s, i)
        BY <3>1, <3>3, FirstStays
      <3>5. QED
        BY <1>4, <3>1, <3>2, <3>4
    <2>3. QED
      BY <2>1, <2>2
  <1>11. MemberInv'
    BY <1>3, <1>4, <1>8, <1>9, <1>10 DEF MemberInv, t
  <1>12. Stays(MemberLeaves, MemberLeaves', nextIndex)
    BY <1>6 DEF Stays, s, t
  <1>13. QED
    BY <1>3, <1>11, <1>12

LEMMA MemberStep == MemberInv /\ [Membership!Next]_(Membership!membershipVars) => MemberInv'
  <1> SUFFICES ASSUME MemberInv, [Membership!Next]_(Membership!membershipVars) PROVE MemberInv'
    OBVIOUS
  <1>1. CASE \E caller \in Callers, leaf \in Members : Membership!InsertLeaf(caller, leaf)
    BY <1>1, InsertLeafStep
  <1>2. CASE UNCHANGED <<membershipRoot, nextIndex, filledSubtrees, events>>
    BY <1>2 DEF MemberInv, MemberLeaves, Membership!AddedLeaves
  <1>3. QED
    BY <1>1, <1>2 DEF Membership!Next, Membership!SetAdminInsertOnly, Membership!UpdateAdmin,
                      Membership!membershipVars

(***************************************************************************)
(* Every root that insert_leaf publishes, and the one the contract stores, *)
(* is the Merkle root of the leaves published up to it: a prover that      *)
(* follows the LeafAdded events arrives at each root in turn, for every    *)
(* depth and until the tree is full.                                       *)
(***************************************************************************)
THEOREM RootsHoldMembers == Membership!Spec => []RootHoldsMembers
  <1>1. MemberInv => RootHoldsMembers
    <2> SUFFICES ASSUME MemberInv PROVE RootHoldsMembers
      OBVIOUS
    <2>1. PICK S : MemberLeaves \in Seq(S)
      BY MemberTypes
    <2>2. /\ nextIndex \in Nat /\ DOMAIN events = 1 .. nextIndex /\ nextIndex = Len(events)
          /\ LEVELS \in 1 .. Deepest /\ Len(MemberLeaves) = nextIndex
      BY MemberTypes DEF MemberInv
    <2>3. MerkleRoot(MemberLeaves, LEVELS) = Node(First(MemberLeaves, nextIndex), LEVELS, 0)
      <3>1. LEVELS \in 0 .. Deepest
        BY <2>2
      <3>2. QED
        BY <2>2, <3>1, MerkleRootIs, PaddedIsFirst
    <2>4. ASSUME NEW i \in 1 .. nextIndex
          PROVE  /\ events[i].index = i - 1
                 /\ events[i].root = MerkleRoot(SubSeq(MemberLeaves, 1, i), LEVELS)
      <3>1. i \in 0 .. Len(MemberLeaves)
        BY <2>2
      <3>2. MerkleRoot(SubSeq(MemberLeaves, 1, i), LEVELS) = Node(First(MemberLeaves, i), LEVELS, 0)
        BY <2>1, <2>2, <3>1, RootOfFirst
      <3>3. QED
        BY <3>2 DEF MemberInv
    <2>5. membershipRoot = MerkleRoot(MemberLeaves, LEVELS)
      BY <2>3 DEF MemberInv
    <2>6. QED
      BY <2>2, <2>4, <2>5, MembershipLoop DEF RootHoldsMembers, Membership!RootHoldsMembers, MemberLeaves
  <1>2. QED
    BY MemberInit, MemberStep, <1>1, PTL DEF Membership!Spec

---------------------------------------------------------------------------
(***************************************************************************)
(* A root tells its leaves.                                                *)
(***************************************************************************)

\* The place above, and the side it is reached from.
LEMMA PlaceAbove ==
  ASSUME NEW i \in Nat, NEW l \in Nat
  PROVE  /\ At(i, l) \in Nat /\ At(i, l + 1) = At(i, l) \div 2
         /\ IsRight(i, l) <=> At(i, l) % 2 = 1
         /\ At(i, 0) = i
  <1>1. PICK P \in Nat \ {0} : P = 2 ^ l /\ 2 ^ (l + 1) = 2 * P
    BY PowersDouble
  <1>2. i \div P \in Nat /\ i \div (2 * P) = (i \div P) \div 2
    <2>1. i \div P \in Nat
      OBVIOUS
    <2>2. QED
      BY <2>1, Halving
  <1>3. 2 ^ 0 = 1 /\ i \div 1 = i
    OBVIOUS
  <1>4. At(i, 0) = i
    BY <1>3 DEF At
  <1>5. QED
    BY <1>1, <1>2, <1>4 DEF At, IsRight

\* LeafAt follows the bits of a place from the root down.
LEMMA LeavesOfRoot ==
  ASSUME NEW levels \in 1 .. Deepest, NEW w, NEW i \in Nat, i < 2 ^ levels
  PROVE  LeafAt(Node(w, levels, 0), i, levels) = w[i]
  <1> DEFINE r == Node(w, levels, 0)
             Hash(f, l) == IF l = levels THEN r ELSE f[l + 1][IF IsRight(i, l) THEN 2 ELSE 1]
             Is(f) == f = [l \in 0 .. levels |-> Hash(f, l)]
             g == [l \in 0 .. levels |-> Node(w, l, At(i, l))]
  <1>1. levels \in Nat /\ levels <= Deepest /\ Deepest \in Nat
    BY DEF Deepest
  <1>2. At(i, levels) = 0 /\ At(i, 0) = i
    <2>1. PICK P \in Nat \ {0} : P = 2 ^ levels
      BY <1>1, PowersDouble
    <2>2. i < P
      BY <2>1
    <2>3. i \div P = 0
      BY <2>2
    <2>4. 2 ^ 0 = 1 /\ i \div 1 = i
      OBVIOUS
    <2>5. QED
      BY <2>1, <2>3, <2>4 DEF At
  <1>3. ASSUME NEW l \in 0 .. levels - 1
        PROVE  Node(w, l, At(i, l)) = Node(w, l + 1, At(i, l + 1))[IF IsRight(i, l) THEN 2 ELSE 1]
    <2>1. l \in Nat /\ l \in 0 .. Deepest - 1
      BY <1>1
    <2>2. PICK q \in Nat, h \in Nat : q = At(i, l) /\ h = At(i, l + 1) /\ h = q \div 2
                                      /\ (IsRight(i, l) <=> q % 2 = 1)
      <3>1. /\ At(i, l) \in Nat /\ At(i, l + 1) = At(i, l) \div 2
            /\ IsRight(i, l) <=> At(i, l) % 2 = 1
        BY <2>1, PlaceAbove
      <3>2. PICK q : q = At(i, l)
        OBVIOUS
      <3>3. q \div 2 \in Nat
        BY <3>1, <3>2
      <3>4. QED
        BY <3>1, <3>2, <3>3
    <2>3. Node(w, l + 1, h) = <<Node(w, l, 2 * h), Node(w, l, 2 * h + 1)>>
      BY <2>1, Children
    <2>4. CASE IsRight(i, l)
      <3>1. q = 2 * h + 1
        BY <2>2, <2>4
      <3>2. QED
        BY <2>2, <2>3, <2>4, <3>1
    <2>5. CASE ~IsRight(i, l)
      <3>1. q = 2 * h
        BY <2>2, <2>5
      <3>2. QED
        BY <2>2, <2>3, <2>5, <3>1
    <2>6. QED
      BY <2>4, <2>5
  <1>4. ASSUME NEW l \in 0 .. levels PROVE g[l] = Hash(g, l)
    <2>1. CASE l = levels
      BY <1>2, <2>1
    <2>2. CASE l # levels
      <3>1. l \in 0 .. levels - 1 /\ l + 1 \in 0 .. levels
        BY <1>1, <2>2
      <3>2. g[l] = Node(w, l, At(i, l)) /\ g[l + 1] = Node(w, l + 1, At(i, l + 1))
        BY <3>1
      <3> HIDE DEF g
      <3>3. QED
        BY <1>3, <2>2, <3>1, <3>2
    <2>3. QED
      BY <2>1, <2>2
  <1>5. Is(g)
    <2>1. g = [l \in 0 .. levels |-> g[l]]
      OBVIOUS
    <2> HIDE DEF g
    <2>2. QED
      BY <1>4, <2>1
  <1> HIDE DEF g
  <1>6. PICK f : Is(f) /\ LeafAt(r, i, levels) = f[0]
    <2> DEFINE c == CHOOSE f : Is(f)
    <2>1. Is(c)
      BY <1>5
    <2>2. LeafAt(r, i, levels) = c[0]
      BY DEF LeafAt
    <2>3. QED
      BY <2>1, <2>2
  <1> DEFINE F == {l \in 0 .. levels : f[l] = Node(w, l, At(i, l))}
  <1>7. levels \in F
    <2>1. f[levels] = r /\ levels \in 0 .. levels
      BY <1>1, <1>6
    <2>2. QED
      BY <1>2, <2>1
  <1>8. ASSUME NEW l \in 0 .. levels - 1, l + 1 \in F PROVE l \in F
    <2>1. l \in 0 .. levels /\ l # levels
      BY <1>1
    <2>2. f[l] = f[l + 1][IF IsRight(i, l) THEN 2 ELSE 1]
      BY <1>6, <2>1
    <2>3. f[l + 1] = Node(w, l + 1, At(i, l + 1))
      BY <1>8
    <2>4. f[l] = Node(w, l, At(i, l))
      BY <1>3, <2>2, <2>3
    <2>5. QED
      BY <2>1, <2>4
  <1> HIDE DEF F
  <1>9. \A l \in 0 .. levels : l \in F
    BY <1>1, <1>7, <1>8, DownwardInduction
  <1>10. 0 \in F
    BY <1>1, <1>9
  <1>11. f[0] = Node(w, 0, i)
    BY <1>2, <1>10 DEF F
  <1>12. QED
    BY <1>6, <1>11, Children

LEMMA FirstLeavesOfRoot ==
  ASSUME NEW levels \in 1 .. Deepest, NEW S, NEW s \in Seq(S), Len(s) <= 2 ^ levels
  PROVE  FirstLeaves(Node(First(s, Len(s)), levels, 0), Len(s), levels) = s
  <1>1. PICK n \in Nat : n = Len(s) /\ DOMAIN s = 1 .. n
    BY LenProperties
  <1>2. PICK P \in Nat \ {0} : P = 2 ^ levels
    <2>1. levels \in Nat
      OBVIOUS
    <2>2. QED
      BY <2>1, PowersDouble
  <1>3. PICK r : r = Node(First(s, n), levels, 0)
    OBVIOUS
  <1>4. ASSUME NEW i \in 1 .. n PROVE LeafAt(r, i - 1, levels) = s[i]
    <2>1. i - 1 \in Nat /\ i - 1 < 2 ^ levels /\ i - 1 < n /\ (i - 1) + 1 = i
      BY <1>1, <1>2
    <2>2. LeafAt(r, i - 1, levels) = First(s, n)[i - 1]
      BY <1>3, <2>1, LeavesOfRoot
    <2>3. QED
      BY <2>1, <2>2 DEF First
  <1>5. s = [i \in 1 .. n |-> s[i]]
    BY <1>1, LenProperties
  <1>6. FirstLeaves(r, n, levels) = [i \in 1 .. n |-> s[i]]
    BY <1>4 DEF FirstLeaves
  <1>7. QED
    BY <1>1, <1>3, <1>5, <1>6

\* Two numbers of leaves give two roots: an inserted leaf is not an empty one.
LEMMA RootsTellSizes ==
  ASSUME NEW levels \in 1 .. Deepest, NEW S, ZeroLeaf \notin S, NEW s \in Seq(S),
         Len(s) <= 2 ^ levels, NEW m \in 0 .. Len(s), NEW n \in 0 .. Len(s),
         Node(First(s, m), levels, 0) = Node(First(s, n), levels, 0)
  PROVE  m = n
  <1>1. Len(s) \in Nat /\ \A i \in 1 .. Len(s) : s[i] \in S
    BY LenProperties
  <1>2. PICK P \in Nat \ {0} : P = 2 ^ levels
    <2>1. levels \in Nat
      OBVIOUS
    <2>2. QED
      BY <2>1, PowersDouble
  <1>3. ASSUME NEW a \in 0 .. Len(s), NEW b \in 0 .. Len(s), a < b,
               Node(First(s, a), levels, 0) = Node(First(s, b), levels, 0)
        PROVE  FALSE
    <2>1. a \in Nat /\ a < 2 ^ levels /\ a + 1 \in 1 .. Len(s)
      BY <1>1, <1>2, <1>3
    <2>2. First(s, a)[a] = First(s, b)[a]
      BY <1>3, <2>1, LeavesOfRoot
    <2>3. First(s, a)[a] = ZeroLeaf /\ First(s, b)[a] = s[a + 1]
      BY <1>3, <2>1 DEF First
    <2>4. QED
      BY <1>1, <2>1, <2>2, <2>3
  <1>4. m \in Int /\ n \in Int
    BY <1>1
  <1>5. QED
    BY <1>3, <1>4

---------------------------------------------------------------------------
(***************************************************************************)
(* The pool's tree and its ring.                                           *)
(***************************************************************************)

LEMMA PoolLoop ==
  /\ \A levels : Pool!Zeroes(levels) = Zeroes(levels)
  /\ \A filled, n, from, node, levels :
       /\ Pool!Carry(filled, n, from, node, levels) = Carry(filled, n, from, node, levels)
       /\ Pool!FilledAfter(filled, n, from, node, levels)
            = FilledAfter(filled, n, from, node, levels)
  /\ \A s, levels : Pool!MerkleRoot(s, levels) = MerkleRoot(s, levels)
  /\ \A r, n, levels : Pool!FirstLeaves(r, n, levels) = FirstLeaves(r, n, levels)
  BY DEF Pool!Zeroes, Zeroes, Pool!Carry, Carry, Pool!IsRight, IsRight,
         Pool!FilledAfter, FilledAfter, Pool!MerkleRoot, MerkleRoot,
         Pool!FirstLeaves, FirstLeaves, Pool!LeafAt, LeafAt

RingSlots == 0 .. PoolRing - 1

\* The root of the first n leaves.
RootOf(s, n) == Node(First(s, n), PoolLevels, 0)

\* The inductive invariant: the leaves inserted are s, which nothing but the
\* newest root tells, and what the contract stores is that of s.
TreeIs(s) ==
  /\ s \in Seq(PoolLeaves)
  /\ Len(s) = poolNextIndex
  /\ Len(s) <= 2 ^ PoolLevels
  /\ Len(s) % 2 = 0
  /\ currentRootIndex \in RingSlots
  /\ DOMAIN ring = RingSlots
  /\ ring = [i \in RingSlots |-> ring[i]]
  /\ DOMAIN filledSubtree = 0 .. PoolLevels
  /\ Holds(filledSubtree, First(s, Len(s)), Len(s), 1, PoolLevels)
  /\ ring[currentRootIndex] = RootOf(s, Len(s))
  /\ \A i \in RingSlots : ring[i] = << >> \/ \E m \in 0 .. Len(s) : ring[i] = RootOf(s, m)

\* The leaves of s keep their roots in t; g holds only roots of s.
KeepsRoots(s, t) == \A m \in 0 .. Len(s) : RootOf(t, m) = RootOf(s, m)
HasRootsOf(g, s) ==
  \A i \in RingSlots : g[i] = << >> \/ \E m \in 0 .. Len(s) : g[i] = RootOf(s, m)

LEMMA PoolTypes == PoolLevels \in 1 .. Deepest /\ PoolRing \in Nat \ {0} /\ ZeroLeaf \notin PoolLeaves
  BY TreesAssumption DEF Deepest

LEMMA PoolTreeInit == Pool!Init => TreeIs(<< >>)
  <1> SUFFICES ASSUME Pool!Init PROVE TreeIs(<< >>)
    OBVIOUS
  <1>1. /\ ring = [i \in RingSlots |-> IF i = 0 THEN Zeroes(PoolLevels)[PoolLevels] ELSE << >>]
        /\ currentRootIndex = 0 /\ poolNextIndex = 0
        /\ DOMAIN filledSubtree = 0 .. PoolLevels
    BY PoolLoop DEF Pool!Init, Pool!Unset, RingSlots
  <1>2. << >> \in Seq(PoolLeaves) /\ Len(<< >>) = 0 /\ 0 \in RingSlots /\ 0 % 2 = 0
    BY PoolTypes DEF RingSlots
  <1>3. 0 <= 2 ^ PoolLevels
    <2>1. PoolLevels \in Nat
      BY PoolTypes
    <2>2. PICK P \in Nat : P = 2 ^ PoolLevels
      BY <2>1, PowersDouble
    <2>3. QED
      BY <2>2
  <1>4. /\ Holds(filledSubtree, First(<< >>, 0), 0, 1, PoolLevels)
        /\ Zeroes(PoolLevels)[PoolLevels] = RootOf(<< >>, 0)
    BY PoolTypes, EmptyHolds DEF RootOf
  <1>5. 0 \in 0 .. Len(<< >>)
    BY <1>2
  <1>6. ring[0] = RootOf(<< >>, 0) /\ \A i \in RingSlots : i # 0 => ring[i] = << >>
    BY <1>1, <1>2, <1>4
  <1>7. \A i \in RingSlots : ring[i] = << >> \/ \E m \in 0 .. Len(<< >>) : ring[i] = RootOf(<< >>, m)
    BY <1>5, <1>6
  <1>8. DOMAIN ring = RingSlots /\ ring = [i \in RingSlots |-> ring[i]]
    BY <1>1
  <1>9. QED
    BY <1>1, <1>2, <1>3, <1>4, <1>6, <1>7, <1>8 DEF TreeIs

LEMMA TwoMore ==
  ASSUME NEW s \in Seq(PoolLeaves), NEW a \in PoolLeaves, NEW b \in PoolLeaves,
         NEW t, t = s \o <<a, b>>
  PROVE  /\ t \in Seq(PoolLeaves) /\ Len(t) = Len(s) + 2
         /\ \A i \in 1 .. Len(s) : t[i] = s[i]
         /\ t[Len(s) + 1] = a /\ t[Len(s) + 2] = b
  <1>1. PICK p : p = <<a, b>> /\ p \in Seq(PoolLeaves) /\ Len(p) = 2 /\ p[1] = a /\ p[2] = b
    <2>1. /\ <<a, b>> \in Seq(PoolLeaves) /\ Len(<<a, b>>) = 2
          /\ <<a, b>>[1] = a /\ <<a, b>>[2] = b
      OBVIOUS
    <2>2. QED
      BY <2>1
  <1>2. Len(s) \in Nat
    BY LenProperties
  <1>3. /\ s \o p \in Seq(PoolLeaves) /\ Len(s \o p) = Len(s) + Len(p)
        /\ \A i \in 1 .. Len(s) + Len(p) :
             (s \o p)[i] = IF i <= Len(s) THEN s[i] ELSE p[i - Len(s)]
    BY <1>1, ConcatProperties
  <1>4. t = s \o p
    BY <1>1
  <1>5. ASSUME NEW i \in 1 .. Len(s) PROVE t[i] = s[i]
    <2>1. i \in 1 .. Len(s) + Len(p) /\ i <= Len(s)
      BY <1>1, <1>2
    <2>2. QED
      BY <1>3, <1>4, <2>1
  <1>6. t[Len(s) + 1] = p[1] /\ t[Len(s) + 2] = p[2]
    <2>1. PICK n \in Nat : n = Len(s)
      BY <1>2
    <2>2. n + 1 \in 1 .. n + 2 /\ n + 2 \in 1 .. n + 2 /\ ~(n + 1 <= n) /\ ~(n + 2 <= n)
          /\ (n + 1) - n = 1 /\ (n + 2) - n = 2
      OBVIOUS
    <2>3. \A i \in 1 .. n + 2 : t[i] = IF i <= n THEN s[i] ELSE p[i - n]
      BY <1>1, <1>3, <1>4, <2>1
    <2>4. t[n + 1] = p[1]
      BY <2>2, <2>3
    <2>5. t[n + 2] = p[2]
      BY <2>2, <2>3
    <2>6. QED
      BY <2>1, <2>4, <2>5
  <1>7. QED
    BY <1>1, <1>3, <1>4, <1>5, <1>6

LEMMA InsertTwoStep ==
  ASSUME NEW s, TreeIs(s), NEW a \in PoolLeaves, NEW b \in PoolLeaves, Pool!InsertTwoLeaves(a, b),
         NEW t, t = s \o <<a, b>>
  PROVE  /\ TreeIs(t)' /\ Len(t) = Len(s) + 2
         /\ currentRootIndex' = (currentRootIndex + 1) % PoolRing
         /\ ring' = [ring EXCEPT ![currentRootIndex'] = RootOf(t, Len(s) + 2)]
         /\ KeepsRoots(s, t)
  <1> DEFINE n == Len(s)
  <1>1. /\ s \in Seq(PoolLeaves) /\ n \in Nat /\ n = poolNextIndex /\ n % 2 = 0
        /\ currentRootIndex \in RingSlots /\ DOMAIN ring = RingSlots
        /\ DOMAIN filledSubtree = 0 .. PoolLevels
    BY LenProperties DEF TreeIs
  <1>2. /\ t \in Seq(PoolLeaves) /\ Len(t) = n + 2
        /\ \A i \in 1 .. n : t[i] = s[i]
        /\ t[n + 1] = a /\ t[n + 2] = b
    BY <1>1, TwoMore
  <1>3. /\ n + 2 <= 2 ^ PoolLevels /\ poolNextIndex' = n + 2
        /\ currentRootIndex' = (currentRootIndex + 1) % PoolRing
        /\ ring' = [ring EXCEPT ![currentRootIndex'] =
                      Carry(filledSubtree, n, 1, <<a, b>>, PoolLevels)[PoolLevels]]
        /\ filledSubtree' = FilledAfter(filledSubtree, n, 1, <<a, b>>, PoolLevels)
    BY <1>1, PoolLoop DEF Pool!InsertTwoLeaves
  <1>4. currentRootIndex' \in RingSlots
    <2>1. PICK c \in Nat, R \in Nat \ {0} : c = currentRootIndex /\ R = PoolRing
      BY <1>1, PoolTypes DEF RingSlots
    <2>2. (c + 1) % R \in 0 .. R - 1
      OBVIOUS
    <2>3. QED
      BY <1>3, <2>1, <2>2 DEF RingSlots
  <1>5. PICK node : node = <<a, b>>
    OBVIOUS
  <1>6. node = Node(First(t, n + Added(1)), 1, At(n, 1))
    <2>1. PICK h \in Nat : n = 2 * h
      BY <1>1
    <2>2. At(n, 1) = h /\ Added(1) = 2
      <3>1. 2 ^ 1 = 2 /\ n \div 2 = h
        BY <2>1
      <3>2. QED
        BY <3>1 DEF At, Added
    <2>3. PICK v : v = First(t, n + 2)
      OBVIOUS
    <2>4. Node(v, 1, h) = <<Node(v, 0, n), Node(v, 0, n + 1)>>
      <3>1. 0 \in 0 .. Deepest - 1 /\ 0 + 1 = 1
        BY DEF Deepest
      <3>2. Node(v, 0 + 1, h) = <<Node(v, 0, 2 * h), Node(v, 0, 2 * h + 1)>>
        BY <3>1, Children
      <3>3. QED
        BY <2>1, <3>1, <3>2
    <2>5. Node(v, 0, n) = v[n] /\ Node(v, 0, n + 1) = v[n + 1]
      <3>1. n \in Nat /\ n + 1 \in Nat
        BY <1>1
      <3>2. QED
        BY <3>1, Children
    <2>6. v[n] = a /\ v[n + 1] = b
      <3>1. n \in Nat /\ n + 1 \in Nat /\ n < n + 2 /\ n + 1 < n + 2 /\ (n + 1) + 1 = n + 2
        BY <1>1
      <3>2. QED
        BY <1>2, <2>3, <3>1 DEF First
    <2>7. QED
      BY <1>5, <2>2, <2>3, <2>4, <2>5, <2>6
  <1>7. /\ Carry(filledSubtree, n, 1, node, PoolLevels)[PoolLevels] = RootOf(t, n + 2)
        /\ Holds(FilledAfter(filledSubtree, n, 1, node, PoolLevels), First(t, n + 2), n + 2, 1, PoolLevels)
    <2>1. PICK D : D = Added(1) /\ D = 2
      BY DEF Added
    <2>2. n % Added(1) = 0 /\ n + Added(1) <= 2 ^ PoolLevels
      BY <1>1, <1>3, <2>1
    <2>3. HasLevels(filledSubtree, PoolLevels) /\ Stays(s, t, n)
      <3>1. 0 .. PoolLevels - 1 \subseteq 0 .. PoolLevels
        BY PoolTypes
      <3>2. QED
        BY <1>1, <1>2, <3>1 DEF HasLevels, Stays
    <2>4. Holds(filledSubtree, First(s, n), n, 1, PoolLevels)
      BY DEF TreeIs
    <2>5. /\ Carry(filledSubtree, n, 1, node, PoolLevels)[PoolLevels]
               = Node(First(t, n + Added(1)), PoolLevels, 0)
          /\ Holds(FilledAfter(filledSubtree, n, 1, node, PoolLevels),
                   First(t, n + Added(1)), n + Added(1), 1, PoolLevels)
      BY <1>1, <1>6, <2>2, <2>3, <2>4, PoolTypes, Appends
    <2>6. QED
      BY <2>1, <2>5 DEF RootOf
  <1>8. \A m \in 0 .. n : RootOf(t, m) = RootOf(s, m)
    <2>1. ASSUME NEW m \in 0 .. n PROVE RootOf(t, m) = RootOf(s, m)
      <3>1. m \in Nat /\ \A i \in 1 .. m : t[i] = s[i]
        BY <1>1, <1>2
      <3>2. QED
        BY <3>1, FirstStays DEF RootOf
    <2>2. QED
      BY <2>1
  <1>9. ring' = [ring EXCEPT ![currentRootIndex'] = RootOf(t, n + 2)]
    BY <1>3, <1>5, <1>7
  <1>10. /\ DOMAIN ring' = RingSlots /\ ring' = [i \in RingSlots |-> ring'[i]]
         /\ ring'[currentRootIndex'] = RootOf(t, n + 2)
         /\ \A i \in RingSlots : i # currentRootIndex' => ring'[i] = ring[i]
    BY <1>1, <1>4, <1>9
  <1>11. ASSUME NEW i \in RingSlots
         PROVE  ring'[i] = << >> \/ \E m \in 0 .. n + 2 : ring'[i] = RootOf(t, m)
    <2>1. CASE i = currentRootIndex'
      <3>1. n + 2 \in 0 .. n + 2
        BY <1>1
      <3>2. QED
        BY <1>10, <2>1, <3>1
    <2>2. CASE i # currentRootIndex'
      <3>1. ring[i] = << >> \/ \E m \in 0 .. n : ring[i] = RootOf(s, m)
        BY DEF TreeIs
      <3>2. \A m \in 0 .. n : m \in 0 .. n + 2
        BY <1>1
      <3>3. QED
        BY <1>8, <1>10, <2>2, <3>1, <3>2
    <2>3. QED
      BY <2>1, <2>2
  <1>12. DOMAIN filledSubtree' = 0 .. PoolLevels
    BY <1>1, <1>3 DEF FilledAfter
  <1>13. filledSubtree' = FilledAfter(filledSubtree, n, 1, node, PoolLevels)
    BY <1>3, <1>5
  <1>14. (n + 2) % 2 = 0
    BY <1>1
  <1>15. TreeIs(t)'
    BY <1>2, <1>3, <1>4, <1>7, <1>10, <1>11, <1>12, <1>13, <1>14 DEF TreeIs
  <1>16. KeepsRoots(s, t)
    BY <1>8 DEF KeepsRoots
  <1>17. QED
    BY <1>2, <1>3, <1>9, <1>15, <1>16

---------------------------------------------------------------------------
(***************************************************************************)
(* What the roots of the ring stand for.                                   *)
(***************************************************************************)

SizesOf(r, s) == {n \in 0 .. Len(s) : r = MerkleRoot(SubSeq(s, 1, n), PoolLevels)}

OneOf(r, sizes) == IF r = << >> THEN -1 ELSE IF sizes = {} THEN -2 ELSE CHOOSE n \in sizes : TRUE
SizeOf(r, s) == OneOf(r, SizesOf(r, s))

LEMMA SizeIs ==
  ASSUME NEW s \in Seq(PoolLeaves), Len(s) <= 2 ^ PoolLevels, NEW m \in 0 .. Len(s)
  PROVE  SizeOf(RootOf(s, m), s) = m
  <1>1. Len(s) \in Nat
    BY LenProperties
  <1>2. RootOf(s, m) # << >>
    <2>1. PICK k \in 0 .. Deepest - 1 : k + 1 = PoolLevels
      <3>1. PoolLevels - 1 \in 0 .. Deepest - 1 /\ (PoolLevels - 1) + 1 = PoolLevels
        BY PoolTypes DEF Deepest
      <3>2. QED
        BY <3>1
    <2>2. PICK v : v = First(s, m)
      OBVIOUS
    <2>3. Node(v, k + 1, 0) = <<Node(v, k, 2 * 0), Node(v, k, 2 * 0 + 1)>>
      BY Children
    <2>4. Node(v, k + 1, 0) # << >>
      <3>1. PICK a, b : a = Node(v, k, 2 * 0) /\ b = Node(v, k, 2 * 0 + 1)
        OBVIOUS
      <3>2. <<a, b>> # << >>
        <4>1. Len(<<a, b>>) = 2 /\ Len(<< >>) = 0
          OBVIOUS
        <4>2. QED
          BY <4>1
      <3>3. QED
        BY <2>3, <3>1, <3>2
    <2>5. QED
      BY <2>1, <2>2, <2>4 DEF RootOf
  <1>3. \A n \in 0 .. Len(s) : MerkleRoot(SubSeq(s, 1, n), PoolLevels) = RootOf(s, n)
    BY PoolTypes, RootOfFirst DEF RootOf
  <1>4. ASSUME NEW n \in 0 .. Len(s), RootOf(s, m) = RootOf(s, n) PROVE m = n
    BY <1>4, PoolTypes, RootsTellSizes DEF RootOf
  <1>5. SizesOf(RootOf(s, m), s) = {m}
    <2>1. \A n \in 0 .. Len(s) : n \in SizesOf(RootOf(s, m), s) <=> RootOf(s, m) = RootOf(s, n)
      BY <1>3 DEF SizesOf
    <2>2. SizesOf(RootOf(s, m), s) \subseteq 0 .. Len(s)
      BY DEF SizesOf
    <2>3. QED
      BY <1>4, <2>1, <2>2
  <1>6. QED
    BY <1>2, <1>5 DEF SizeOf, OneOf

\* The ring g as numbers of leaves of s; g with another value in a slot.
SizesIn(g, s) == [i \in DOMAIN g |-> SizeOf(g[i], s)]
Put(g, c, v) == [g EXCEPT ![c] = v]

LeavesOfPool == Pool!InsertedLeaves
SizesOfRing == [i \in DOMAIN ring |-> Pool!LeavesUnder(ring[i])]

\* insert_two_leaves on the mapped state.
LEMMA SizesMoveOn ==
  ASSUME NEW s \in Seq(PoolLeaves), NEW t \in Seq(PoolLeaves), Len(t) = Len(s) + 2,
         Len(t) <= 2 ^ PoolLevels,
         KeepsRoots(s, t),
         NEW g, DOMAIN g = RingSlots, NEW c \in RingSlots, HasRootsOf(g, s),
         NEW h, h = Put(g, c, RootOf(t, Len(s) + 2))
  PROVE  SizesIn(h, t) = Put(SizesIn(g, s), c, Len(s) + 2)
  <1>1. Len(s) \in Nat /\ Len(s) <= 2 ^ PoolLevels
    <2>1. PoolLevels \in Nat
      BY PoolTypes
    <2>2. PICK P \in Nat : P = 2 ^ PoolLevels
      BY <2>1, PowersDouble
    <2>3. Len(s) \in Nat
      BY LenProperties
    <2>4. QED
      BY <2>2, <2>3
  <1>2. DOMAIN h = RingSlots /\ h[c] = RootOf(t, Len(s) + 2)
        /\ \A i \in RingSlots : i # c => h[i] = g[i]
    BY DEF Put
  <1>3. SizeOf(h[c], t) = Len(s) + 2
    <2>1. Len(s) + 2 \in 0 .. Len(t)
      BY <1>1
    <2>2. QED
      BY <1>2, <2>1, SizeIs
  <1>4. ASSUME NEW i \in RingSlots, i # c PROVE SizeOf(h[i], t) = SizeOf(g[i], s)
    <2>1. CASE g[i] = << >>
      BY <1>2, <1>4, <2>1 DEF SizeOf, OneOf
    <2>2. CASE g[i] # << >>
      <3>1. PICK m \in 0 .. Len(s) : g[i] = RootOf(s, m)
        BY <2>2 DEF HasRootsOf
      <3>2. SizeOf(g[i], s) = m
        BY <1>1, <3>1, SizeIs
      <3>3. h[i] = RootOf(t, m) /\ m \in 0 .. Len(t)
        BY <1>1, <1>2, <1>4, <3>1 DEF KeepsRoots
      <3>4. SizeOf(h[i], t) = m
        BY <3>3, SizeIs
      <3>5. QED
        BY <3>2, <3>4
    <2>3. QED
      BY <2>1, <2>2
  <1>5. QED
    BY <1>2, <1>3, <1>4 DEF SizesIn, Put

\* LeavesUnder, of n inserted leaves s.
Under(r, s, n) ==
  OneOf(r, {k \in 0 .. n : r = Pool!MerkleRoot(SubSeq(s, 1, k), PoolLevels)})

LEMMA UnderIs == ASSUME NEW r, NEW s, NEW n, n = Len(s) PROVE Under(r, s, n) = SizeOf(r, s)
  <1>1. {k \in 0 .. n : r = Pool!MerkleRoot(SubSeq(s, 1, k), PoolLevels)} = SizesOf(r, s)
    BY PoolLoop DEF SizesOf
  <1>2. QED
    BY <1>1 DEF Under, SizeOf

LEMMA MappedState ==
  /\ LeavesOfPool = FirstLeaves(ring[currentRootIndex], poolNextIndex, PoolLevels)
  /\ LeavesOfPool' = FirstLeaves(ring'[currentRootIndex'], poolNextIndex', PoolLevels)
  /\ Len(LeavesOfPool) = poolNextIndex
       => SizesOfRing = [i \in DOMAIN ring |-> SizeOf(ring[i], LeavesOfPool)]
  /\ Len(LeavesOfPool') = poolNextIndex'
       => SizesOfRing' = [i \in DOMAIN ring' |-> SizeOf(ring'[i], LeavesOfPool')]
  <1>1. /\ LeavesOfPool = FirstLeaves(ring[currentRootIndex], poolNextIndex, PoolLevels)
        /\ LeavesOfPool' = FirstLeaves(ring'[currentRootIndex'], poolNextIndex', PoolLevels)
    BY PoolLoop DEF LeavesOfPool, Pool!InsertedLeaves
  <1>2. ASSUME NEW r
        PROVE  /\ Pool!LeavesUnder(r) = Under(r, LeavesOfPool, poolNextIndex)
               /\ Pool!LeavesUnder(r)' = Under(r, LeavesOfPool', poolNextIndex')
    BY DEF Pool!LeavesUnder, Pool!Unset, Under, OneOf, LeavesOfPool
  <1>3. SizesOfRing = [i \in DOMAIN ring |-> Under(ring[i], LeavesOfPool, poolNextIndex)]
    BY <1>2 DEF SizesOfRing
  <1>4. SizesOfRing' = [i \in DOMAIN ring' |-> Under(ring'[i], LeavesOfPool', poolNextIndex')]
    BY DEF SizesOfRing, Pool!LeavesUnder, Pool!Unset, Under, OneOf, LeavesOfPool
  <1>5. QED
    BY <1>1, <1>3, <1>4, UnderIs

LEMMA StateIsMapped ==
  ASSUME NEW s, TreeIs(s)
  PROVE  LeavesOfPool = s /\ SizesOfRing = [i \in RingSlots |-> SizeOf(ring[i], s)]
  <1>1. /\ s \in Seq(PoolLeaves) /\ Len(s) <= 2 ^ PoolLevels /\ Len(s) = poolNextIndex
        /\ DOMAIN ring = RingSlots /\ currentRootIndex \in RingSlots
        /\ ring[currentRootIndex] = RootOf(s, Len(s))
    BY DEF TreeIs
  <1>2. FirstLeaves(RootOf(s, Len(s)), Len(s), PoolLevels) = s
    BY <1>1, PoolTypes, FirstLeavesOfRoot DEF RootOf
  <1>3. LeavesOfPool = s
    BY <1>1, <1>2, MappedState
  <1>4. QED
    BY <1>1, <1>3, MappedState

LEMMA NextStateIsMapped ==
  ASSUME NEW s, TreeIs(s)'
  PROVE  LeavesOfPool' = s /\ SizesOfRing' = [i \in RingSlots |-> SizeOf(ring'[i], s)]
  <1>1. /\ s \in Seq(PoolLeaves) /\ Len(s) <= 2 ^ PoolLevels /\ Len(s) = poolNextIndex'
        /\ DOMAIN ring' = RingSlots /\ currentRootIndex' \in RingSlots
        /\ ring'[currentRootIndex'] = RootOf(s, Len(s))
    BY DEF TreeIs
  <1>2. FirstLeaves(RootOf(s, Len(s)), Len(s), PoolLevels) = s
    BY <1>1, PoolTypes, FirstLeavesOfRoot DEF RootOf
  <1>3. LeavesOfPool' = s
    BY <1>1, <1>2, MappedState
  <1>4. QED
    BY <1>1, <1>3, MappedState

LEMMA PoolRefinesInit == Pool!Init => Pool!Tree!TreeInit
  <1> SUFFICES ASSUME Pool!Init PROVE Pool!Tree!TreeInit
    OBVIOUS
  <1>1. TreeIs(<< >>)
    BY PoolTreeInit
  <1>2. LeavesOfPool = << >> /\ SizesOfRing = [i \in RingSlots |-> SizeOf(ring[i], << >>)]
    BY <1>1, StateIsMapped
  <1>3. /\ ring[0] = RootOf(<< >>, 0) /\ currentRootIndex = 0 /\ 0 \in RingSlots
        /\ \A i \in RingSlots : i # 0 => ring[i] = << >>
    <2>1. currentRootIndex = 0 /\ \A i \in RingSlots : i # 0 => ring[i] = << >>
      BY DEF Pool!Init, Pool!Unset, RingSlots
    <2>2. Len(<< >>) = 0
      OBVIOUS
    <2>3. QED
      BY <1>1, <2>1, <2>2 DEF TreeIs
  <1>4. SizeOf(RootOf(<< >>, 0), << >>) = 0
    <2>1. << >> \in Seq(PoolLeaves) /\ Len(<< >>) = 0 /\ 0 \in 0 .. Len(<< >>)
      OBVIOUS
    <2>2. Len(<< >>) <= 2 ^ PoolLevels
      BY <1>1 DEF TreeIs
    <2>3. QED
      BY <2>1, <2>2, SizeIs
  <1>5. \A i \in RingSlots : SizeOf(ring[i], << >>) = IF i = 0 THEN 0 ELSE -1
    <2>1. SizeOf(<< >>, << >>) = -1
      BY DEF SizeOf, OneOf
    <2>2. QED
      BY <1>3, <1>4, <2>1
  <1>6. SizesOfRing = [i \in RingSlots |-> IF i = 0 THEN 0 ELSE -1]
    BY <1>2, <1>5
  <1>7. QED
    BY <1>2, <1>3, <1>6 DEF Pool!Tree!TreeInit, Pool!Tree!Slots, Pool!Tree!NoRoot, RingSlots,
                            LeavesOfPool, SizesOfRing

LEMMA PoolRefinesStep ==
  ASSUME NEW s, TreeIs(s), [Pool!Next]_(Pool!historyVars)
  PROVE  (\E t : TreeIs(t)') /\ [Pool!Tree!TreeNext]_(Pool!Tree!treeVars)
  <1>1. CASE UNCHANGED Pool!historyVars
    <2>1. UNCHANGED <<ring, currentRootIndex, poolNextIndex, filledSubtree>>
      BY <1>1 DEF Pool!historyVars
    <2>2. TreeIs(s)'
      BY <2>1 DEF TreeIs
    <2>3. LeavesOfPool' = LeavesOfPool /\ SizesOfRing' = SizesOfRing
      BY <2>1, <2>2, StateIsMapped, NextStateIsMapped
    <2>4. QED
      BY <2>1, <2>2, <2>3 DEF Pool!Tree!treeVars, LeavesOfPool, SizesOfRing
  <1>2. ASSUME NEW a \in PoolLeaves, NEW b \in PoolLeaves, Pool!InsertTwoLeaves(a, b)
        PROVE  (\E t : TreeIs(t)') /\ Pool!Tree!TreeNext
    <2>1. PICK t : t = s \o <<a, b>>
      OBVIOUS
    <2>2. /\ TreeIs(t)' /\ Len(t) = Len(s) + 2
          /\ currentRootIndex' = (currentRootIndex + 1) % PoolRing
          /\ ring' = [ring EXCEPT ![currentRootIndex'] = RootOf(t, Len(s) + 2)]
          /\ KeepsRoots(s, t)
      BY <1>2, <2>1, InsertTwoStep
    <2>3. /\ LeavesOfPool = s /\ LeavesOfPool' = t
          /\ SizesOfRing = [i \in RingSlots |-> SizeOf(ring[i], s)]
          /\ SizesOfRing' = [i \in RingSlots |-> SizeOf(ring'[i], t)]
      BY <2>2, StateIsMapped, NextStateIsMapped
    <2>4. /\ s \in Seq(PoolLeaves) /\ t \in Seq(PoolLeaves) /\ Len(t) <= 2 ^ PoolLevels
          /\ DOMAIN ring = RingSlots /\ DOMAIN ring' = RingSlots /\ currentRootIndex' \in RingSlots
          /\ HasRootsOf(ring, s)
      BY <2>2 DEF TreeIs, HasRootsOf
    <2>5. PICK g, h, c : g = ring /\ h = ring' /\ c = currentRootIndex'
      OBVIOUS
    <2>6. SizesIn(h, t) = Put(SizesIn(g, s), c, Len(s) + 2)
      <3>1. /\ s \in Seq(PoolLeaves) /\ t \in Seq(PoolLeaves) /\ Len(t) = Len(s) + 2
            /\ Len(t) <= 2 ^ PoolLevels /\ KeepsRoots(s, t)
        BY <2>2, <2>4
      <3>2. DOMAIN g = RingSlots /\ c \in RingSlots /\ HasRootsOf(g, s)
        BY <2>4, <2>5
      <3>3. h = Put(g, c, RootOf(t, Len(s) + 2))
        BY <2>2, <2>5 DEF Put
      <3>4. QED
        BY <3>1, <3>2, <3>3, SizesMoveOn
    <2>7. SizesOfRing' = [SizesOfRing EXCEPT ![currentRootIndex'] = Len(s) + 2]
      BY <2>3, <2>4, <2>5, <2>6 DEF SizesIn, Put
    <2>8. ~(Len(s) + 2 > 2 ^ PoolLevels)
      <3>1. PoolLevels \in Nat /\ Len(s) \in Nat
        BY <2>4, PoolTypes, LenProperties
      <3>2. PICK P \in Nat : P = 2 ^ PoolLevels
        BY <3>1, PowersDouble
      <3>3. QED
        BY <2>2, <2>4, <3>1, <3>2
    <2>9. Pool!Tree!InsertTwoLeaves(a, b)
      BY <2>1, <2>2, <2>3, <2>7 DEF Pool!Tree!InsertTwoLeaves, Pool!Tree!NextSlot, Pool!Tree!NextIndex,
                                    LeavesOfPool, SizesOfRing
    <2>10. ~Pool!Tree!TreeIsFull
      BY <2>3, <2>8 DEF Pool!Tree!TreeIsFull, Pool!Tree!NextIndex, Pool!Tree!Capacity, LeavesOfPool
    <2>11. QED
      BY <2>2, <2>9, <2>10 DEF Pool!Tree!TreeNext
  <1>3. QED
    BY <1>1, <1>2 DEF Pool!Next

(***************************************************************************)
(* The ring of roots and the filled subtrees of merkle_with_history.rs     *)
(* implement the tree that the pool and the wallets reason about: every    *)
(* root in the ring is the root of the leaves there were when it was       *)
(* written, and no two numbers of leaves have one root.                    *)
(***************************************************************************)
THEOREM RingRefinesTree == Pool!Spec => PoolTreeSpec
  <1> DEFINE Inv == \E s : TreeIs(s)
  <1>1. Pool!Init => Inv /\ Pool!Tree!TreeInit
    BY PoolTreeInit, PoolRefinesInit
  <1>2. Inv /\ [Pool!Next]_(Pool!historyVars) => Inv' /\ [Pool!Tree!TreeNext]_(Pool!Tree!treeVars)
    BY PoolRefinesStep
  <1> HIDE DEF Inv
  <1>3. QED
    BY <1>1, <1>2, PTL DEF Pool!Spec, PoolTreeSpec, Pool!TreeSpec, Pool!Tree!TreeSpec

---------------------------------------------------------------------------
(***************************************************************************)
(* The wallet's tree: the paths up from a place.                           *)
(***************************************************************************)

\* A level has as many places as leaves reach.
LEMMA PlaceIsThere ==
  ASSUME NEW levels \in Nat, NEW i \in Nat, i < 2 ^ levels, NEW l \in 0 .. levels
  PROVE  At(i, l) \in 0 .. 2 ^ (levels - l) - 1
  <1> DEFINE F == {m \in 0 .. levels : At(i, m) \in Nat /\ At(i, m) < 2 ^ (levels - m)}
  <1>1. 0 \in F
    <2>1. levels - 0 = levels /\ 0 \in 0 .. levels /\ 0 \in Nat
      OBVIOUS
    <2>2. At(i, 0) = i
      BY <2>1, PlaceAbove
    <2>3. QED
      BY <2>1, <2>2
  <1>2. ASSUME NEW m \in 0 .. levels - 1, m \in F PROVE m + 1 \in F
    <2>1. PICK k \in Nat : k = levels - (m + 1) /\ k + 1 = levels - m
      <3>1. levels - (m + 1) \in Nat /\ (levels - (m + 1)) + 1 = levels - m
        OBVIOUS
      <3>2. QED
        BY <3>1
    <2>2. PICK P \in Nat \ {0} : P = 2 ^ k /\ 2 ^ (k + 1) = 2 * P
      BY PowersDouble
    <2>3. PICK q \in Nat : q = At(i, m) /\ q < 2 * P
      BY <1>2, <2>1, <2>2
    <2>4. m \in Nat /\ m + 1 \in 0 .. levels
      OBVIOUS
    <2>5. At(i, m + 1) = q \div 2
      BY <2>3, <2>4, PlaceAbove
    <2>6. q \div 2 \in Nat /\ q \div 2 < P
      BY <2>3
    <2>7. QED
      BY <2>1, <2>2, <2>4, <2>5, <2>6
  <1> HIDE DEF F
  <1>3. l \in F
    BY <1>1, <1>2, UpwardInduction
  <1>4. PICK R : R = 2 ^ (levels - l)
    OBVIOUS
  <1>5. PICK K \in Nat : K = R
    <2>1. levels - l \in Nat
      OBVIOUS
    <2>2. QED
      BY <1>4, <2>1, PowersDouble
  <1>6. QED
    BY <1>3, <1>4, <1>5 DEF F

\* Two siblings share a level and a parent, the pair of the two.
LEMMA SiblingIs ==
  ASSUME NEW k \in Nat, NEW q \in 0 .. 2 ^ (k + 1) - 1
  PROVE  Wallet!Sibling(q) \in 0 .. 2 ^ (k + 1) - 1 /\ Wallet!Sibling(q) # q
  <1>1. PICK P \in Nat \ {0} : P = 2 ^ k /\ 2 ^ (k + 1) = 2 * P
    BY PowersDouble
  <1>2. q \in Nat /\ q < 2 * P
    BY <1>1
  <1>3. CASE q % 2 = 0
    BY <1>1, <1>2, <1>3 DEF Wallet!Sibling
  <1>4. CASE q % 2 # 0
    BY <1>1, <1>2, <1>4 DEF Wallet!Sibling
  <1>5. QED
    BY <1>3, <1>4

LEMMA ParentIs ==
  ASSUME NEW w, NEW l \in 0 .. Deepest - 1, NEW q \in Nat
  PROVE  Node(w, l + 1, q \div 2)
           = Wallet!Parent(q, Node(w, l, q), Node(w, l, Wallet!Sibling(q)))
  <1>1. PICK h \in Nat : h = q \div 2 /\ (q = 2 * h \/ q = 2 * h + 1)
    <2>1. q \div 2 \in Nat /\ (q = 2 * (q \div 2) \/ q = 2 * (q \div 2) + 1)
      OBVIOUS
    <2>2. QED
      BY <2>1
  <1>2. Node(w, l + 1, h) = <<Node(w, l, 2 * h), Node(w, l, 2 * h + 1)>>
    BY Children
  <1>3. CASE q = 2 * h
    <2>1. q % 2 = 0 /\ Wallet!Sibling(q) = 2 * h + 1
      BY <1>3 DEF Wallet!Sibling
    <2>2. QED
      BY <1>1, <1>2, <1>3, <2>1 DEF Wallet!Parent
  <1>4. CASE q = 2 * h + 1
    <2>1. q % 2 # 0 /\ Wallet!Sibling(q) = 2 * h
      BY <1>4 DEF Wallet!Sibling
    <2>2. QED
      BY <1>1, <1>2, <1>4, <2>1 DEF Wallet!Parent
  <1>5. QED
    BY <1>1, <1>3, <1>4

\* The leaves v and w differ in leaf n at most.
SameBut(v, w, n) == \A i \in Nat : i # n => v[i] = w[i]

\* Then the nodes off the path of n are the same.
LEMMA OthersStay ==
  ASSUME NEW v, NEW w, NEW n \in Nat, SameBut(v, w, n),
         NEW l \in 0 .. Deepest, NEW j \in Nat, j # At(n, l)
  PROVE  Node(v, l, j) = Node(w, l, j)
  <1>1. l \in Nat
    BY DEF Deepest
  <1>2. PICK P \in Nat \ {0} : P = 2 ^ l
    BY <1>1, PowersDouble
  <1>3. PICK q \in Nat : q = n \div P /\ q # j
    <2>1. n \div P \in Nat /\ n \div P # j
      BY <1>2 DEF At
    <2>2. QED
      BY <2>1
  <1>4. PICK m \in Nat, b \in Nat : m = q * P /\ b = j * P
    BY <1>2
  <1>5. m <= n /\ n < m + P
    BY <1>2, <1>3, <1>4
  <1>6. b + P <= m \/ m + P <= b
    <2>1. CASE j < q
      <3>1. PICK d \in Nat : q = j + 1 + d
        <4>1. q - (j + 1) \in Nat /\ q = j + 1 + (q - (j + 1))
          BY <2>1
        <4>2. QED
          BY <4>1
      <3>2. PICK c \in Nat : c = d * P
        OBVIOUS
      <3>3. m = b + P + c
        BY <1>4, <3>1, <3>2
      <3>4. QED
        BY <3>3
    <2>2. CASE j > q
      <3>1. PICK d \in Nat : j = q + 1 + d
        <4>1. j - (q + 1) \in Nat /\ j = q + 1 + (j - (q + 1))
          BY <2>2
        <4>2. QED
          BY <4>1
      <3>2. PICK c \in Nat : c = d * P
        OBVIOUS
      <3>3. b = m + P + c
        BY <1>4, <3>1, <3>2
      <3>4. QED
        BY <3>3
    <2>3. QED
      BY <1>3, <2>1, <2>2
  <1>7. \A i \in Nat : b <= i /\ i < b + P => i # n
    BY <1>5, <1>6
  <1>8. SameUnder(v, w, l, j)
    BY <1>2, <1>4, <1>7 DEF SameUnder, SameBut
  <1>9. QED
    BY <1>8, SameLeaves

LEMMA DeepEnough == LEVELS \in 1 .. Deepest /\ LEVELS \in Nat /\ LEVELS <= Deepest /\ Deepest \in Nat
  BY TreesAssumption DEF Deepest

\* One level up the path of a place.
LEMMA PathUp ==
  ASSUME NEW w, NEW i \in Nat, i < 2 ^ LEVELS, NEW l \in 0 .. LEVELS - 1, NEW q, q = At(i, l)
  PROVE  /\ q \in Nat /\ q \in 0 .. 2 ^ (LEVELS - l) - 1
         /\ Wallet!Sibling(q) \in 0 .. 2 ^ (LEVELS - l) - 1 /\ Wallet!Sibling(q) # q
         /\ Node(w, l + 1, At(i, l + 1))
              = Wallet!Parent(q, Node(w, l, q), Node(w, l, Wallet!Sibling(q)))
         /\ IsRight(i, l) <=> q % 2 = 1
  <1>1. l \in Nat /\ l \in 0 .. LEVELS /\ l \in 0 .. Deepest - 1
    BY DeepEnough
  <1>2. q \in Nat /\ At(i, l + 1) = q \div 2 /\ (IsRight(i, l) <=> q % 2 = 1)
    BY <1>1, PlaceAbove
  <1>3. q \in 0 .. 2 ^ (LEVELS - l) - 1
    BY <1>1, DeepEnough, PlaceIsThere
  <1>4. Wallet!Sibling(q) \in 0 .. 2 ^ (LEVELS - l) - 1 /\ Wallet!Sibling(q) # q
    <2>1. PICK k \in Nat : k + 1 = LEVELS - l
      <3>1. LEVELS - l - 1 \in Nat /\ (LEVELS - l - 1) + 1 = LEVELS - l
        BY DeepEnough
      <3>2. QED
        BY <3>1
    <2>2. q \in 0 .. 2 ^ (k + 1) - 1
      BY <1>3, <2>1
    <2>3. Wallet!Sibling(q) \in 0 .. 2 ^ (k + 1) - 1 /\ Wallet!Sibling(q) # q
      BY <2>2, SiblingIs
    <2>4. QED
      BY <2>1, <2>3
  <1>5. Node(w, l + 1, q \div 2) = Wallet!Parent(q, Node(w, l, q), Node(w, l, Wallet!Sibling(q)))
    BY <1>1, <1>2, ParentIs
  <1>6. QED
    BY <1>2, <1>3, <1>4, <1>5

\* A path hashed with the siblings of its nodes gives the nodes of the tree.
Climbs(f, w, i) ==
  /\ f[0] = w[i]
  /\ \A l \in 0 .. LEVELS - 1 :
       f[l + 1] = Wallet!Parent(At(i, l), f[l], Node(w, l, Wallet!Sibling(At(i, l))))

LEMMA ClimbIs ==
  ASSUME NEW w, NEW i \in Nat, i < 2 ^ LEVELS, NEW f, Climbs(f, w, i)
  PROVE  \A l \in 0 .. LEVELS : f[l] = Node(w, l, At(i, l))
  <1> DEFINE F == {l \in 0 .. LEVELS : f[l] = Node(w, l, At(i, l))}
  <1>1. 0 \in F
    <2>1. 0 \in Nat /\ 0 \in 0 .. LEVELS
      BY DeepEnough
    <2>2. At(i, 0) = i /\ Node(w, 0, i) = w[i]
      BY <2>1, PlaceAbove, Children
    <2>3. QED
      BY <2>1, <2>2 DEF Climbs
  <1>2. ASSUME NEW l \in 0 .. LEVELS - 1, l \in F PROVE l + 1 \in F
    <2>1. PICK q : q = At(i, l)
      OBVIOUS
    <2>2. Node(w, l + 1, At(i, l + 1)) = Wallet!Parent(q, Node(w, l, q), Node(w, l, Wallet!Sibling(q)))
      BY <2>1, PathUp
    <2>3. f[l] = Node(w, l, q)
      BY <1>2, <2>1
    <2>4. f[l + 1] = Wallet!Parent(q, f[l], Node(w, l, Wallet!Sibling(q)))
      BY <2>1 DEF Climbs
    <2>5. l + 1 \in 0 .. LEVELS
      BY DeepEnough
    <2>6. QED
      BY <2>2, <2>3, <2>4, <2>5
  <1> HIDE DEF F
  <1>3. \A l \in 0 .. LEVELS : l \in F
    BY <1>1, <1>2, DeepEnough, UpwardInduction
  <1>4. QED
    BY <1>3 DEF F

\* The nodes of a path do climb.
LEMMA NodesClimb ==
  ASSUME NEW w, NEW i \in Nat, i < 2 ^ LEVELS,
         NEW g, g = [l \in 0 .. LEVELS |-> Node(w, l, At(i, l))]
  PROVE  Climbs(g, w, i)
  <1>1. 0 \in Nat /\ 0 \in 0 .. LEVELS
    BY DeepEnough
  <1>2. At(i, 0) = i /\ Node(w, 0, i) = w[i]
    BY <1>1, PlaceAbove, Children
  <1>3. ASSUME NEW l \in 0 .. LEVELS - 1
        PROVE  g[l + 1] = Wallet!Parent(At(i, l), g[l], Node(w, l, Wallet!Sibling(At(i, l))))
    <2>1. l \in 0 .. LEVELS /\ l + 1 \in 0 .. LEVELS
      BY DeepEnough
    <2>2. PICK q : q = At(i, l)
      OBVIOUS
    <2>3. Node(w, l + 1, At(i, l + 1)) = Wallet!Parent(q, Node(w, l, q), Node(w, l, Wallet!Sibling(q)))
      BY <2>2, PathUp
    <2>4. g[l] = Node(w, l, q) /\ g[l + 1] = Node(w, l + 1, At(i, l + 1))
      BY <2>1, <2>2
    <2>5. QED
      BY <2>2, <2>3, <2>4
  <1>4. QED
    BY <1>1, <1>2, <1>3 DEF Climbs

\* The wallet's nodes are those of the leaves w.
KeepsNodesOf(w) ==
  levels_data = [l \in 0 .. LEVELS |-> [j \in 0 .. 2 ^ (LEVELS - l) - 1 |-> Node(w, l, j)]]

LEMMA NewPathIs ==
  ASSUME NEW w, KeepsNodesOf(w), next_index \in Nat, next_index < 2 ^ LEVELS,
         NEW v, SameBut(v, w, next_index), NEW leaf, leaf = v[next_index]
  PROVE  \A l \in 0 .. LEVELS : Wallet!NewPath(leaf)[l] = Node(v, l, At(next_index, l))
  <1> DEFINE Up1(f, l) ==
               LET i == next_index \div 2 ^ (l - 1)
               IN Wallet!Parent(i, f[l - 1], levels_data[l - 1][Wallet!Sibling(i)])
             Is(f) == f = [l \in 0 .. LEVELS |-> IF l = 0 THEN leaf ELSE Up1(f, l)]
  <1>1. PICK g : g = [l \in 0 .. LEVELS |-> Node(v, l, At(next_index, l))]
    OBVIOUS
  <1>2. ASSUME NEW l \in 0 .. LEVELS - 1
        PROVE  levels_data[l][Wallet!Sibling(At(next_index, l))]
                 = Node(v, l, Wallet!Sibling(At(next_index, l)))
    <2>1. PICK q, s : q = At(next_index, l) /\ s = Wallet!Sibling(q)
      OBVIOUS
    <2>2. s \in 0 .. 2 ^ (LEVELS - l) - 1 /\ s # q
      BY <2>1, PathUp
    <2>3. l \in 0 .. LEVELS /\ l \in 0 .. Deepest /\ s \in Nat
      BY <2>2, DeepEnough
    <2>4. levels_data[l][s] = Node(w, l, s)
      BY <2>2, <2>3 DEF KeepsNodesOf
    <2>5. Node(v, l, s) = Node(w, l, s)
      BY <2>1, <2>2, <2>3, OthersStay
    <2>6. QED
      BY <2>1, <2>4, <2>5
  <1>3. ASSUME NEW f, DOMAIN f = 0 .. LEVELS, f = [l \in 0 .. LEVELS |-> f[l]]
        PROVE  Is(f) <=> Climbs(f, v, next_index)
    <2>1. ASSUME NEW l \in 0 .. LEVELS - 1
          PROVE  Up1(f, l + 1) = Wallet!Parent(At(next_index, l), f[l],
                                               Node(v, l, Wallet!Sibling(At(next_index, l))))
      <3>1. (l + 1) - 1 = l
        OBVIOUS
      <3>2. Up1(f, l + 1) = Wallet!Parent(At(next_index, l), f[l],
                                          levels_data[l][Wallet!Sibling(At(next_index, l))])
        BY <3>1 DEF At
      <3>3. QED
        BY <1>2, <3>2
    <2> HIDE DEF Up1
    <2>2. ASSUME Is(f) PROVE Climbs(f, v, next_index)
      <3>1. f[0] = leaf
        <4>1. 0 \in 0 .. LEVELS
          BY DeepEnough
        <4>2. QED
          BY <2>2, <4>1
      <3>2. ASSUME NEW l \in 0 .. LEVELS - 1 PROVE f[l + 1] = Up1(f, l + 1)
        <4>1. l + 1 \in 0 .. LEVELS /\ l + 1 # 0
          BY DeepEnough
        <4>2. QED
          BY <2>2, <4>1
      <3>3. QED
        BY <2>1, <3>1, <3>2 DEF Climbs
    <2>3. ASSUME Climbs(f, v, next_index) PROVE Is(f)
      <3>1. ASSUME NEW l \in 0 .. LEVELS PROVE f[l] = IF l = 0 THEN leaf ELSE Up1(f, l)
        <4>1. CASE l = 0
          BY <2>3, <4>1 DEF Climbs
        <4>2. CASE l # 0
          <5>1. PICK k \in 0 .. LEVELS - 1 : k + 1 = l
            <6>1. l - 1 \in 0 .. LEVELS - 1 /\ (l - 1) + 1 = l
              BY <4>2, DeepEnough
            <6>2. QED
              BY <6>1
          <5>2. f[k + 1] = Up1(f, k + 1)
            BY <2>1, <2>3 DEF Climbs
          <5>3. QED
            BY <4>2, <5>1, <5>2
        <4>3. QED
          BY <4>1, <4>2
      <3>2. QED
        BY <1>3, <3>1
    <2>4. QED
      BY <2>2, <2>3
  <1>4. Is(g)
    <2>1. Climbs(g, v, next_index)
      BY <1>1, NodesClimb
    <2>2. DOMAIN g = 0 .. LEVELS /\ g = [l \in 0 .. LEVELS |-> g[l]]
      BY <1>1
    <2>3. QED
      BY <1>3, <2>1, <2>2
  <1>5. PICK f : Is(f) /\ Wallet!NewPath(leaf) = f
    <2> DEFINE c == CHOOSE f : Is(f)
    <2>1. Is(c)
      BY <1>4
    <2>2. Wallet!NewPath(leaf) = c
      BY DEF Wallet!NewPath
    <2>3. QED
      BY <2>1, <2>2
  <1>6. Climbs(f, v, next_index)
    <2>1. DOMAIN f = 0 .. LEVELS /\ f = [l \in 0 .. LEVELS |-> f[l]]
      BY <1>5
    <2>2. QED
      BY <1>3, <1>5, <2>1
  <1>7. QED
    BY <1>5, <1>6, ClimbIs

\* The place above every leaf is the root's.
LEMMA TopPlace == ASSUME NEW i \in Nat, i < 2 ^ LEVELS PROVE At(i, LEVELS) = 0
  <1>1. PICK P \in Nat \ {0} : P = 2 ^ LEVELS
    BY DeepEnough, PowersDouble
  <1>2. i < P
    BY <1>1
  <1>3. i \div P = 0
    BY <1>2
  <1>4. QED
    BY <1>1, <1>3 DEF At

\* The elements of a proof are the siblings on the path.
ElementsAre(elements, w, i) ==
  \A l \in 0 .. LEVELS - 1 : elements[l] = Node(w, l, Wallet!Sibling(At(i, l)))

LEMMA CircuitRootIs ==
  ASSUME NEW w, NEW i \in Nat, i < 2 ^ LEVELS, NEW leaf, leaf = w[i],
         NEW p, p.indices = i, ElementsAre(p.elements, w, i)
  PROVE  Wallet!CircuitRoot(leaf, p) = Node(w, LEVELS, 0)
  <1> DEFINE Up1(f, l) == IF Wallet!IsRight(p.indices, l - 1)
                            THEN <<p.elements[l - 1], f[l - 1]>>
                            ELSE <<f[l - 1], p.elements[l - 1]>>
             Is(f) == f = [l \in 0 .. LEVELS |-> IF l = 0 THEN leaf ELSE Up1(f, l)]
  <1>1. PICK g : g = [l \in 0 .. LEVELS |-> Node(w, l, At(i, l))]
    OBVIOUS
  <1>2. ASSUME NEW f, NEW l \in 0 .. LEVELS - 1
        PROVE  Up1(f, l + 1) = Wallet!Parent(At(i, l), f[l], Node(w, l, Wallet!Sibling(At(i, l))))
    <2>1. (l + 1) - 1 = l
      OBVIOUS
    <2>2. PICK q, e : q = At(i, l) /\ e = Node(w, l, Wallet!Sibling(q)) /\ p.elements[l] = e
      BY DEF ElementsAre
    <2>3. q \in Nat /\ (IsRight(i, l) <=> q % 2 = 1)
      BY <2>2, PathUp
    <2>4. Wallet!IsRight(p.indices, l) <=> q % 2 = 1
      BY <2>3 DEF Wallet!IsRight, IsRight
    <2>5. Up1(f, l + 1) = IF q % 2 = 1 THEN <<e, f[l]>> ELSE <<f[l], e>>
      BY <2>1, <2>2, <2>4
    <2>6. q % 2 = 0 \/ q % 2 = 1
      BY <2>3
    <2>7. Wallet!Parent(q, f[l], e) = IF q % 2 = 1 THEN <<e, f[l]>> ELSE <<f[l], e>>
      BY <2>6 DEF Wallet!Parent
    <2>8. QED
      BY <2>2, <2>5, <2>7
  <1> HIDE DEF Up1
  <1>3. Is(g)
    <2>1. Climbs(g, w, i)
      BY <1>1, NodesClimb
    <2>2. ASSUME NEW l \in 0 .. LEVELS PROVE g[l] = IF l = 0 THEN leaf ELSE Up1(g, l)
      <3>1. CASE l = 0
        BY <2>1, <3>1 DEF Climbs
      <3>2. CASE l # 0
        <4>1. PICK k \in 0 .. LEVELS - 1 : k + 1 = l
          <5>1. l - 1 \in 0 .. LEVELS - 1 /\ (l - 1) + 1 = l
            BY <3>2, DeepEnough
          <5>2. QED
            BY <5>1
        <4>2. g[k + 1] = Up1(g, k + 1)
          BY <1>2, <2>1 DEF Climbs
        <4>3. QED
          BY <3>2, <4>1, <4>2
      <3>3. QED
        BY <3>1, <3>2
    <2>3. g = [l \in 0 .. LEVELS |-> g[l]]
      BY <1>1
    <2>4. QED
      BY <2>2, <2>3
  <1>4. PICK f : Is(f) /\ Wallet!CircuitRoot(leaf, p) = f[LEVELS]
    <2> DEFINE c == CHOOSE f : Is(f)
    <2>1. Is(c)
      BY <1>3
    <2>2. Wallet!CircuitRoot(leaf, p) = c[LEVELS]
      BY DEF Wallet!CircuitRoot, Up1
    <2>3. QED
      BY <2>1, <2>2
  <1>5. Climbs(f, w, i)
    <2>1. f[0] = leaf
      <3>1. 0 \in 0 .. LEVELS
        BY DeepEnough
      <3>2. QED
        BY <1>4, <3>1
    <2>2. ASSUME NEW l \in 0 .. LEVELS - 1 PROVE f[l + 1] = Up1(f, l + 1)
      <3>1. l + 1 \in 0 .. LEVELS /\ l + 1 # 0
        BY DeepEnough
      <3>2. QED
        BY <1>4, <3>1
    <2>3. QED
      BY <1>2, <2>1, <2>2 DEF Climbs
  <1>6. f[LEVELS] = Node(w, LEVELS, At(i, LEVELS))
    <2>1. LEVELS \in 0 .. LEVELS
      BY DeepEnough
    <2>2. QED
      BY <1>5, <2>1, ClimbIs
  <1>7. QED
    BY <1>4, <1>6, TopPlace

\* The rows of the reference tree.
RefRow(s, f, l) ==
  [i \in 0 .. 2 ^ (LEVELS - l) - 1 |->
     IF l = 0 THEN IF i < Len(s) THEN s[i + 1] ELSE ZeroLeaf
              ELSE <<f[l - 1][2 * i], f[l - 1][2 * i + 1]>>]
RefRows(s, f) == [l \in 0 .. LEVELS |-> RefRow(s, f, l)]
NodeRow(w, l) == [i \in 0 .. 2 ^ (LEVELS - l) - 1 |-> Node(w, l, i)]

\* A row of nodes from the one below.
LEMMA NextRow ==
  ASSUME NEW s, Len(s) \in Nat, NEW f, NEW l \in 0 .. LEVELS,
         l # 0 => f[l - 1] = NodeRow(Padded(s), l - 1)
  PROVE  RefRow(s, f, l) = NodeRow(Padded(s), l)
  <1> DEFINE W == 0 .. 2 ^ (LEVELS - l) - 1
  <1>1. CASE l = 0
    <2>1. ASSUME NEW i \in W
          PROVE  Node(Padded(s), 0, i) = IF i < Len(s) THEN s[i + 1] ELSE ZeroLeaf
      <3>1. i \in Nat
        OBVIOUS
      <3>2. QED
        BY <3>1, Children DEF Padded
    <2>2. QED
      BY <1>1, <2>1 DEF RefRow, NodeRow
  <1>2. CASE l # 0
    <2>1. PICK k \in 0 .. Deepest - 1 : k = l - 1 /\ k + 1 = l
      <3>1. l - 1 \in 0 .. Deepest - 1 /\ (l - 1) + 1 = l
        BY <1>2, DeepEnough
      <3>2. QED
        BY <3>1
    <2>2. PICK P \in Nat \ {0} : P = 2 ^ (LEVELS - l) /\ 2 ^ (LEVELS - k) = 2 * P
      <3>1. LEVELS - l \in Nat /\ LEVELS - k = (LEVELS - l) + 1
        BY <2>1, DeepEnough
      <3>2. QED
        BY <3>1, PowersDouble
    <2>3. ASSUME NEW i \in W
          PROVE  Node(Padded(s), l, i) = <<f[l - 1][2 * i], f[l - 1][2 * i + 1]>>
      <3>1. i \in Nat /\ i < P
        BY <2>2
      <3>2. 2 * i \in 0 .. 2 * P - 1 /\ 2 * i + 1 \in 0 .. 2 * P - 1
        BY <3>1
      <3>3. f[k] = NodeRow(Padded(s), k)
        BY <1>2, <2>1
      <3>4. f[k][2 * i] = Node(Padded(s), k, 2 * i) /\ f[k][2 * i + 1] = Node(Padded(s), k, 2 * i + 1)
        BY <2>2, <3>2, <3>3 DEF NodeRow
      <3>5. Node(Padded(s), k + 1, i) = <<Node(Padded(s), k, 2 * i), Node(Padded(s), k, 2 * i + 1)>>
        BY <3>1, Children
      <3>6. QED
        BY <2>1, <3>4, <3>5
    <2>4. QED
      BY <1>2, <2>3 DEF RefRow, NodeRow
  <1>3. QED
    BY <1>1, <1>2

LEMMA ReferenceRows ==
  ASSUME NEW s, Len(s) \in Nat
  PROVE  \E f : /\ f = RefRows(s, f)
                /\ f = CHOOSE g : g = RefRows(s, g)
                /\ \A l \in 0 .. LEVELS : f[l] = NodeRow(Padded(s), l)
  <1>1. PICK g : g = [l \in 0 .. LEVELS |-> NodeRow(Padded(s), l)]
    OBVIOUS
  <1>2. g = RefRows(s, g)
    <2>1. ASSUME NEW l \in 0 .. LEVELS PROVE RefRow(s, g, l) = NodeRow(Padded(s), l)
      <3>1. l # 0 => l - 1 \in 0 .. LEVELS
        BY DeepEnough
      <3>2. l # 0 => g[l - 1] = NodeRow(Padded(s), l - 1)
        BY <1>1, <3>1
      <3>3. QED
        BY <3>2, NextRow
    <2>2. QED
      BY <1>1, <2>1 DEF RefRows
  <1>3. PICK f : f = RefRows(s, f) /\ f = CHOOSE h : h = RefRows(s, h)
    BY <1>2
  <1> DEFINE F == {l \in 0 .. LEVELS : f[l] = NodeRow(Padded(s), l)}
  <1>4. ASSUME NEW l \in 0 .. LEVELS PROVE f[l] = RefRow(s, f, l)
    BY <1>3 DEF RefRows
  <1>5. 0 \in F
    <2>1. 0 \in 0 .. LEVELS
      BY DeepEnough
    <2>2. RefRow(s, f, 0) = NodeRow(Padded(s), 0)
      BY <2>1, NextRow
    <2>3. QED
      BY <1>4, <2>1, <2>2
  <1>6. ASSUME NEW l \in 0 .. LEVELS - 1, l \in F PROVE l + 1 \in F
    <2>1. PICK k \in 0 .. LEVELS : k = l + 1 /\ k - 1 = l
      BY DeepEnough
    <2>2. f[k - 1] = NodeRow(Padded(s), k - 1)
      BY <1>6, <2>1
    <2>3. RefRow(s, f, k) = NodeRow(Padded(s), k)
      BY <2>2, NextRow
    <2>4. QED
      BY <1>4, <2>1, <2>3
  <1> HIDE DEF F
  <1>7. \A l \in 0 .. LEVELS : l \in F
    BY <1>5, <1>6, DeepEnough, UpwardInduction
  <1>8. QED
    BY <1>3, <1>7 DEF F

\* The sides of a path are the bits of its place.
LEMMA SidesAre == ASSUME NEW i \in Nat, i < 2 ^ LEVELS PROVE Wallet!SidesOf(i) = i
  <1>1. PICK f : f = [l \in 0 .. LEVELS - 1 |-> 2 ^ l * ((i \div 2 ^ l) % 2)]
    OBVIOUS
  <1>2. Wallet!SidesOf(i) = SumFunctionOnSet(f, 0 .. LEVELS - 1)
    BY <1>1 DEF Wallet!SidesOf, Wallet!SumFunctionOnSet, Wallet!FoldFunctionOnSet,
                Wallet!MapThenFoldSet, SumFunctionOnSet, FoldFunctionOnSet, MapThenFoldSet
  <1>3. ASSUME NEW l \in 0 .. LEVELS - 1
        PROVE  \E P, q \in Nat : /\ P = 2 ^ l /\ q = At(i, l) /\ f[l] = P * (q % 2) /\ f[l] \in Nat
                                 /\ 2 ^ (l + 1) = 2 * P /\ At(i, l + 1) = q \div 2
    <2>1. l \in Nat
      OBVIOUS
    <2>2. PICK P \in Nat \ {0} : P = 2 ^ l /\ 2 ^ (l + 1) = 2 * P
      BY <2>1, PowersDouble
    <2>3. PICK q \in Nat : q = At(i, l) /\ At(i, l + 1) = q \div 2
      BY <2>1, PlaceAbove
    <2>4. f[l] = P * (q % 2)
      BY <1>1, <2>2, <2>3 DEF At
    <2>5. P * (q % 2) \in Nat
      OBVIOUS
    <2>6. QED
      BY <2>2, <2>3, <2>4, <2>5
  <1> DEFINE Sum(k) == SumFunctionOnSet(f, 0 .. k - 1)
             F == {k \in 0 .. LEVELS : Sum(k) \in Nat /\ Sum(k) + 2 ^ k * At(i, k) = i}
  <1>4. 0 \in F
    <2>1. 0 .. 0 - 1 = {}
      OBVIOUS
    <2>2. Sum(0) = 0
      BY <2>1, SumOfNothing
    <2>3. 2 ^ 0 = 1 /\ 0 \in Nat /\ 0 \in 0 .. LEVELS
      BY DeepEnough
    <2>4. At(i, 0) = i
      BY <2>3, PlaceAbove
    <2>5. 2 ^ 0 * At(i, 0) = i
      BY <2>3, <2>4
    <2>6. QED
      BY <2>2, <2>3, <2>5
  <1>5. ASSUME NEW k \in 0 .. LEVELS - 1, k \in F PROVE k + 1 \in F
    <2>1. PICK P \in Nat, q \in Nat : /\ P = 2 ^ k /\ q = At(i, k) /\ f[k] = P * (q % 2)
                                      /\ 2 ^ (k + 1) = 2 * P /\ At(i, k + 1) = q \div 2
      BY <1>3
    <2>2. Sum(k + 1) = f[k] + Sum(k)
      <3>1. 0 .. (k + 1) - 1 = (0 .. k - 1) \cup {k} /\ k \notin 0 .. k - 1
        OBVIOUS
      <3>2. IsFiniteSet(0 .. k - 1)
        BY FS_Interval
      <3>3. \A l \in (0 .. k - 1) \cup {k} : f[l] \in Int
        <4>1. \A l \in (0 .. k - 1) \cup {k} : l \in 0 .. LEVELS - 1
          BY DeepEnough
        <4>2. QED
          BY <1>3, <4>1
      <3>4. QED
        BY <3>1, <3>2, <3>3, SumAddsElement
    <2>3. PICK s \in Nat : s = Sum(k) /\ s + P * q = i
      BY <1>5, <2>1
    <2>4. PICK h \in Nat : h = q \div 2 /\ (q = 2 * h \/ q = 2 * h + 1)
      <3>1. q \div 2 \in Nat /\ (q = 2 * (q \div 2) \/ q = 2 * (q \div 2) + 1)
        OBVIOUS
      <3>2. QED
        BY <3>1
    <2>5. P * (q % 2) \in Nat /\ P * (q % 2) + (2 * P) * h = P * q
      <3>1. PICK c \in Nat : c = P * h /\ (2 * P) * h = 2 * c
        OBVIOUS
      <3>2. CASE q = 2 * h
        <4>1. q % 2 = 0 /\ P * q = 2 * c /\ P * 0 = 0
          BY <3>1, <3>2
        <4>2. QED
          BY <3>1, <4>1
      <3>3. CASE q = 2 * h + 1
        <4>1. q % 2 = 1 /\ P * q = 2 * c + P /\ P * 1 = P
          BY <3>1, <3>3
        <4>2. QED
          BY <3>1, <4>1
      <3>4. QED
        BY <2>4, <3>2, <3>3
    <2>6. PICK d \in Nat, e \in Nat : d = P * (q % 2) /\ e = (2 * P) * h
      <3>1. (2 * P) * h \in Nat
        OBVIOUS
      <3>2. QED
        BY <2>5, <3>1
    <2>7. Sum(k + 1) = d + s /\ 2 ^ (k + 1) * At(i, k + 1) = e /\ d + e = P * q
      BY <2>1, <2>2, <2>3, <2>4, <2>5, <2>6
    <2>8. d + s \in Nat
      OBVIOUS
    <2>9. (d + s) + e = i
      <3>1. PICK x \in Nat : x = d + e /\ x = P * q
        BY <2>7
      <3>2. s + x = i
        BY <2>3, <3>1
      <3>3. QED
        BY <3>1, <3>2
    <2>10. k + 1 \in 0 .. LEVELS
      BY DeepEnough
    <2>11. QED
      BY <2>7, <2>8, <2>9, <2>10
  <1> HIDE DEF F
  <1>6. LEVELS \in F
    <2>1. \A k \in 0 .. LEVELS : k \in F
      BY <1>4, <1>5, DeepEnough, UpwardInduction
    <2>2. LEVELS \in 0 .. LEVELS
      BY DeepEnough
    <2>3. QED
      BY <2>1, <2>2
  <1>7. Sum(LEVELS) \in Nat /\ Sum(LEVELS) + 2 ^ LEVELS * At(i, LEVELS) = i
    BY <1>6 DEF F
  <1>8. 2 ^ LEVELS * At(i, LEVELS) = 0
    <2>1. PICK P \in Nat \ {0} : P = 2 ^ LEVELS
      BY DeepEnough, PowersDouble
    <2>2. QED
      BY <2>1, TopPlace
  <1>9. QED
    BY <1>2, <1>7, <1>8

\* The tree kept over the leaves s is the tree of s, with all its proofs.
LEMMA TreeIsOf ==
  ASSUME NEW s, Len(s) \in Nat, next_index = Len(s), KeepsNodesOf(Padded(s))
  PROVE  Wallet!TreeOf(s) /\ Wallet!Root = Node(Padded(s), LEVELS, 0)
  <1> DEFINE w == Padded(s)
  <1>1. Wallet!Root = Node(w, LEVELS, 0)
    <2>1. 0 \in 0 .. 2 ^ (LEVELS - LEVELS) - 1 /\ LEVELS \in 0 .. LEVELS
      <3>1. LEVELS - LEVELS = 0 /\ 2 ^ 0 = 1
        BY DeepEnough
      <3>2. QED
        BY <3>1, DeepEnough
    <2>2. QED
      BY <2>1 DEF KeepsNodesOf, Wallet!Root
  <1>2. Wallet!Root = Wallet!MerkleRoot(s, LEVELS)
    <2>1. LEVELS \in 0 .. Deepest
      BY DeepEnough
    <2>2. MerkleRoot(s, LEVELS) = Node(w, LEVELS, 0)
      BY <2>1, MerkleRootIs
    <2>3. Wallet!MerkleRoot(s, LEVELS) = MerkleRoot(s, LEVELS)
      BY DEF Wallet!MerkleRoot, MerkleRoot
    <2>4. QED
      BY <1>1, <2>2, <2>3
  <1>3. PICK f : /\ f = CHOOSE g : g = RefRows(s, g)
                 /\ \A l \in 0 .. LEVELS : f[l] = NodeRow(w, l)
    BY ReferenceRows
  <1>4. ASSUME NEW i \in 0 .. 2 ^ LEVELS - 1
        PROVE  /\ Wallet!GetProof(i) = Wallet!ReferenceProof(s, i)
               /\ Wallet!CircuitRoot(IF i < Len(s) THEN s[i + 1] ELSE ZeroLeaf, Wallet!GetProof(i))
                    = Wallet!Root
    <2>1. i \in Nat /\ i < 2 ^ LEVELS
      <3>1. PICK P \in Nat : P = 2 ^ LEVELS
        BY DeepEnough, PowersDouble
      <3>2. i \in 0 .. P - 1
        BY <3>1
      <3>3. i \in Nat /\ i < P
        BY <3>2
      <3>4. QED
        BY <3>1, <3>3
    <2>2. PICK e : e = [l \in 0 .. LEVELS - 1 |-> levels_data[l][Wallet!Sibling(i \div 2 ^ l)]]
      OBVIOUS
    <2>3. ASSUME NEW l \in 0 .. LEVELS - 1
          PROVE  /\ e[l] = Node(w, l, Wallet!Sibling(At(i, l)))
                 /\ e[l] = f[l][Wallet!Sibling(i \div 2 ^ l)]
      <3>1. PICK q, r : q = At(i, l) /\ r = Wallet!Sibling(q) /\ q = i \div 2 ^ l
        BY DEF At
      <3>2. r \in 0 .. 2 ^ (LEVELS - l) - 1 /\ l \in 0 .. LEVELS
        <4>1. r \in 0 .. 2 ^ (LEVELS - l) - 1
          BY <2>1, <3>1, PathUp
        <4>2. QED
          BY <4>1, DeepEnough
      <3>3. levels_data[l][r] = Node(w, l, r) /\ f[l][r] = Node(w, l, r)
        <4>1. levels_data[l][r] = Node(w, l, r)
          BY <3>2 DEF KeepsNodesOf
        <4>2. f[l] = NodeRow(w, l)
          BY <1>3, <3>2
        <4>3. f[l][r] = Node(w, l, r)
          BY <3>2, <4>2 DEF NodeRow
        <4>4. QED
          BY <4>1, <4>3
      <3>4. e[l] = levels_data[l][r]
        BY <2>2, <3>1
      <3>5. QED
        BY <3>1, <3>3, <3>4
    <2>4. e = [l \in 0 .. LEVELS - 1 |-> f[l][Wallet!Sibling(i \div 2 ^ l)]]
      BY <2>2, <2>3
    <2>5. Wallet!GetProof(i) = [elements |-> e, indices |-> Wallet!SidesOf(i)]
      BY <2>2 DEF Wallet!GetProof
    <2>6. Wallet!ReferenceProof(s, i)
            = [elements |-> [l \in 0 .. LEVELS - 1 |-> f[l][Wallet!Sibling(i \div 2 ^ l)]],
               indices  |-> Wallet!SidesOf(i)]
      BY <1>3 DEF Wallet!ReferenceProof, RefRows, RefRow
    <2>7. PICK p : p = Wallet!GetProof(i) /\ p.indices = i /\ p.elements = e
      BY <2>1, <2>5, SidesAre
    <2>8. ElementsAre(p.elements, w, i)
      BY <2>3, <2>7 DEF ElementsAre
    <2>9. w[i] = IF i < Len(s) THEN s[i + 1] ELSE ZeroLeaf
      BY <2>1 DEF Padded
    <2>10. Wallet!CircuitRoot(w[i], p) = Node(w, LEVELS, 0)
      <3>1. PICK leaf : leaf = w[i]
        OBVIOUS
      <3> HIDE DEF w
      <3>2. Wallet!CircuitRoot(leaf, p) = Node(w, LEVELS, 0)
        BY <2>1, <2>7, <2>8, <3>1, CircuitRootIs
      <3>3. QED
        BY <3>1, <3>2
    <2>11. QED
      BY <1>1, <2>4, <2>5, <2>6, <2>7, <2>9, <2>10
  <1>5. QED
    BY <1>1, <1>2, <1>4 DEF Wallet!TreeOf

\* new_with_zero_leaf keeps the tree of no leaves.
LEMMA WalletStarts == ASSUME Wallet!Init, NEW s PROVE next_index = 0 /\ KeepsNodesOf(First(s, 0))
  <1>1. levels_data = [l \in 0 .. LEVELS |->
                         [j \in 0 .. 2 ^ (LEVELS - l) - 1 |-> Wallet!Zeroes(LEVELS)[l]]]
    BY DEF Wallet!Init
  <1>2. Wallet!Zeroes(LEVELS) = Zeroes(LEVELS)
    BY DEF Wallet!Zeroes, Zeroes
  <1>3. PICK z, w : z = Zeroes(LEVELS) /\ w = Padded(<< >>)
    OBVIOUS
  <1>4. \A l \in 0 .. LEVELS : \A j \in Nat : z[l] = Node(w, l, j)
    <2>1. LEVELS \in 0 .. Deepest
      BY DeepEnough
    <2>2. QED
      BY <1>3, <2>1, ZeroesAre
  <1>5. \A l \in 0 .. LEVELS : \A j \in 0 .. 2 ^ (LEVELS - l) - 1 : z[l] = Node(w, l, j)
    BY <1>4
  <1>6. KeepsNodesOf(w)
    BY <1>1, <1>2, <1>3, <1>5 DEF KeepsNodesOf
  <1>7. QED
    BY <1>3, <1>6, PaddedIsFirst DEF Wallet!Init

\* insert rewrites the path of the new leaf and nothing else.
LEMMA WalletInserts ==
  ASSUME NEW s, NEW n \in Nat, n = next_index, KeepsNodesOf(First(s, n)),
         NEW leaf, leaf = s[n + 1], Wallet!Insert(leaf)
  PROVE  next_index' = n + 1 /\ KeepsNodesOf(First(s, n + 1))'
  <1>1. n = next_index
    OBVIOUS
  <1>2. n < 2 ^ LEVELS /\ next_index' = n + 1
    BY <1>1 DEF Wallet!Insert
  <1>3. PICK w, v : w = First(s, n) /\ v = First(s, n + 1)
    OBVIOUS
  <1>4. SameBut(v, w, n) /\ leaf = v[n]
    <2>1. ASSUME NEW i \in Nat, i # n PROVE i < n + 1 <=> i < n
      BY <2>1
    <2>2. n < n + 1
      OBVIOUS
    <2>3. QED
      BY <1>1, <1>3, <2>1, <2>2 DEF SameBut, First
  <1>5. \A l \in 0 .. LEVELS : Wallet!NewPath(leaf)[l] = Node(v, l, At(n, l))
    BY <1>1, <1>2, <1>3, <1>4, NewPathIs
  <1>6. PICK h : h = Wallet!NewPath(leaf)
    OBVIOUS
  <1>7. levels_data' = [l \in 0 .. LEVELS |-> [levels_data[l] EXCEPT ![At(n, l)] = h[l]]]
    BY <1>1, <1>6 DEF Wallet!Insert, At
  <1>8. ASSUME NEW l \in 0 .. LEVELS
        PROVE  [levels_data[l] EXCEPT ![At(n, l)] = h[l]]
                 = [j \in 0 .. 2 ^ (LEVELS - l) - 1 |-> Node(v, l, j)]
    <2>1. levels_data[l] = [j \in 0 .. 2 ^ (LEVELS - l) - 1 |-> Node(w, l, j)]
      BY <1>1, <1>3 DEF KeepsNodesOf
    <2>2. PICK q, x : q = At(n, l) /\ x = Node(v, l, q) /\ h[l] = x
      BY <1>5, <1>6
    <2>3. ASSUME NEW j \in 0 .. 2 ^ (LEVELS - l) - 1, j # q PROVE Node(v, l, j) = Node(w, l, j)
      <3>1. l \in 0 .. Deepest /\ j \in Nat
        BY DeepEnough
      <3>2. QED
        BY <1>4, <2>2, <2>3, <3>1, OthersStay
    <2>4. QED
      BY <2>1, <2>2, <2>3
  <1>9. levels_data' = [l \in 0 .. LEVELS |-> [j \in 0 .. 2 ^ (LEVELS - l) - 1 |-> Node(v, l, j)]]
    BY <1>7, <1>8
  <1>10. QED
    BY <1>1, <1>2, <1>3, <1>9 DEF KeepsNodesOf

\* The inductive invariant: the wallet has the first leaves published.
WalletInv ==
  /\ MemberInv
  /\ next_index \in 0 .. nextIndex
  /\ KeepsNodesOf(First(MemberLeaves, next_index))

LEMMA WalletInit == TreesInit => WalletInv
  <1> SUFFICES ASSUME TreesInit PROVE WalletInv
    OBVIOUS
  <1>1. Membership!Init /\ Wallet!Init
    BY DEF TreesInit
  <1>2. MemberInv
    BY <1>1, MemberInit
  <1>3. next_index = 0 /\ KeepsNodesOf(First(MemberLeaves, 0))
    BY <1>1, WalletStarts
  <1>4. 0 \in 0 .. nextIndex
    BY <1>2, MemberTypes
  <1>5. QED
    BY <1>2, <1>3, <1>4 DEF WalletInv

\* What the contract does leaves the wallet with the first leaves.
LEMMA LeavesStay ==
  ASSUME WalletInv, MemberInv', nextIndex' \in {nextIndex, nextIndex + 1},
         Stays(MemberLeaves, MemberLeaves', nextIndex), UNCHANGED walletVars
  PROVE  WalletInv'
  <1>1. /\ nextIndex \in Nat /\ next_index \in 0 .. nextIndex
        /\ next_index' = next_index /\ levels_data' = levels_data
    BY MemberTypes DEF WalletInv, walletVars
  <1>2. PICK n \in Nat : n = next_index /\ n <= nextIndex
    BY <1>1
  <1>3. \A i \in 1 .. n : MemberLeaves'[i] = MemberLeaves[i]
    BY <1>1, <1>2 DEF Stays
  <1>4. First(MemberLeaves', n) = First(MemberLeaves, n)
    BY <1>3, FirstStays
  <1>5. KeepsNodesOf(First(MemberLeaves, n))'
    <2>1. KeepsNodesOf(First(MemberLeaves, n))
      BY <1>2 DEF WalletInv
    <2>2. PICK w : w = First(MemberLeaves, n) /\ w = First(MemberLeaves', n)
      BY <1>4
    <2>3. KeepsNodesOf(w)'
      BY <1>1, <2>1, <2>2 DEF KeepsNodesOf
    <2>4. QED
      BY <2>2, <2>3 DEF KeepsNodesOf
  <1>6. next_index' \in 0 .. nextIndex'
    BY <1>1, <1>2
  <1>7. QED
    BY <1>1, <1>2, <1>5, <1>6 DEF WalletInv, KeepsNodesOf

LEMMA WalletFollowsStep ==
  ASSUME WalletInv, WalletFollows, UNCHANGED memberVars
  PROVE  WalletInv'
  <1>1. nextIndex \in Nat /\ next_index \in 0 .. nextIndex /\ MemberLeaves = [i \in 1 .. nextIndex |-> events[i].leaf]
    BY MemberTypes DEF WalletInv
  <1>2. PICK n \in Nat : n = next_index /\ n < nextIndex
    BY <1>1 DEF WalletFollows
  <1>3. PICK s : s = MemberLeaves
    OBVIOUS
  <1>4. PICK leaf : leaf = events[n + 1].leaf /\ leaf = s[n + 1]
    <2>1. n + 1 \in 1 .. nextIndex
      BY <1>1, <1>2
    <2>2. QED
      BY <1>1, <1>3, <2>1
  <1>5. Wallet!Insert(leaf)
    BY <1>2, <1>4 DEF WalletFollows
  <1>6. KeepsNodesOf(First(s, n))
    BY <1>2, <1>3 DEF WalletInv
  <1>7. next_index' = n + 1 /\ KeepsNodesOf(First(s, n + 1))'
    BY <1>2, <1>4, <1>5, <1>6, WalletInserts
  <1>8. MemberInv' /\ MemberLeaves' = s /\ nextIndex' = nextIndex
    BY <1>3 DEF WalletInv, memberVars, MemberInv, MemberLeaves, Membership!AddedLeaves
  <1>9. n + 1 \in 0 .. nextIndex
    BY <1>1, <1>2
  <1>10. KeepsNodesOf(First(MemberLeaves, next_index))'
    BY <1>7, <1>8 DEF KeepsNodesOf
  <1>11. QED
    BY <1>7, <1>8, <1>9, <1>10 DEF WalletInv

LEMMA WalletStep == WalletInv /\ [TreesNext]_treesVars => WalletInv'
  <1> SUFFICES ASSUME WalletInv, [TreesNext]_treesVars PROVE WalletInv'
    OBVIOUS
  <1>1. nextIndex \in Nat /\ MemberInv
    BY MemberTypes DEF WalletInv
  <1>2. CASE UNCHANGED <<memberVars, walletVars>>
    <2>1. MemberInv' /\ MemberLeaves' = MemberLeaves /\ nextIndex' = nextIndex
      BY <1>1, <1>2 DEF memberVars, MemberInv, MemberLeaves, Membership!AddedLeaves
    <2>2. Stays(MemberLeaves, MemberLeaves', nextIndex) /\ UNCHANGED walletVars
      BY <1>2, <2>1 DEF Stays
    <2>3. QED
      BY <1>1, <2>1, <2>2, LeavesStay
  <1>3. CASE Membership!Next /\ UNCHANGED walletVars
    <2>1. CASE \E caller \in Callers, leaf \in Members : Membership!InsertLeaf(caller, leaf)
      <3>1. MemberInv' /\ nextIndex' = nextIndex + 1 /\ Stays(MemberLeaves, MemberLeaves', nextIndex)
        BY <1>1, <2>1, InsertLeafStep
      <3>2. QED
        BY <1>3, <3>1, LeavesStay
    <2>2. CASE UNCHANGED <<membershipRoot, nextIndex, filledSubtrees, events>>
      <3>1. MemberInv' /\ MemberLeaves' = MemberLeaves /\ nextIndex' = nextIndex
        BY <1>1, <2>2 DEF MemberInv, MemberLeaves, Membership!AddedLeaves
      <3>2. Stays(MemberLeaves, MemberLeaves', nextIndex)
        BY <3>1 DEF Stays
      <3>3. QED
        BY <1>1, <1>3, <3>1, <3>2, LeavesStay
    <2>3. QED
      BY <1>3, <2>1, <2>2 DEF Membership!Next, Membership!SetAdminInsertOnly, Membership!UpdateAdmin
  <1>4. CASE WalletFollows /\ UNCHANGED memberVars
    BY <1>4, WalletFollowsStep
  <1>5. QED
    BY <1>2, <1>3, <1>4 DEF TreesNext, treesVars

(***************************************************************************)
(* A wallet that follows the LeafAdded events, however far behind and      *)
(* whatever else the contract does, has the tree of the leaves it has      *)
(* seen, with the root the contract published with the last of them, and   *)
(* its proof of every place leads the circuit to that root.                *)
(***************************************************************************)
THEOREM WalletKeepsTheTree == TreesSpec => []WalletTreeAgrees
  <1>1. WalletInv => WalletTreeAgrees
    <2> SUFFICES ASSUME WalletInv PROVE WalletTreeAgrees
      OBVIOUS
    <2>1. /\ nextIndex \in Nat /\ next_index \in 0 .. nextIndex
          /\ MemberLeaves = [i \in 1 .. nextIndex |-> events[i].leaf]
      BY MemberTypes DEF WalletInv
    <2>2. PICK n \in Nat : n = next_index /\ n <= nextIndex
      BY <2>1
    <2>3. PICK s : s = [i \in 1 .. n |-> events[i].leaf]
      OBVIOUS
    <2>4. Len(s) = n
      <3>1. PICK S : S = {events[i].leaf : i \in 1 .. n}
        OBVIOUS
      <3>2. s \in [1 .. n -> S]
        BY <2>3, <3>1
      <3>3. QED
        BY <3>2
    <2>5. Padded(s) = First(MemberLeaves, n)
      <3>1. \A i \in 1 .. n : s[i] = MemberLeaves[i]
        BY <2>1, <2>2, <2>3
      <3>2. First(s, n) = First(MemberLeaves, n)
        BY <3>1, FirstStays
      <3>3. QED
        BY <2>4, <3>2, PaddedIsFirst
    <2>6. KeepsNodesOf(Padded(s))
      BY <2>2, <2>5 DEF WalletInv
    <2>7. Wallet!TreeOf(s) /\ Wallet!Root = Node(First(MemberLeaves, n), LEVELS, 0)
      <3>1. Len(s) \in Nat /\ next_index = Len(s)
        BY <2>2, <2>4
      <3>2. QED
        BY <2>5, <2>6, <3>1, TreeIsOf
    <2>8. next_index > 0 => Wallet!Root = events[next_index].root
      <3>1. ASSUME n > 0 PROVE events[n].root = Node(First(MemberLeaves, n), LEVELS, 0)
        <4>1. n \in 1 .. nextIndex
          BY <2>1, <2>2, <3>1
        <4>2. QED
          BY <4>1 DEF WalletInv, MemberInv
      <3>2. QED
        BY <2>2, <2>7, <3>1
    <2>9. next_index = nextIndex => Wallet!Root = membershipRoot
      BY <2>2, <2>7 DEF WalletInv, MemberInv
    <2>10. QED
      BY <2>2, <2>3, <2>7, <2>8, <2>9 DEF WalletTreeAgrees
  <1>2. QED
    BY WalletInit, WalletStep, <1>1, PTL DEF TreesSpec
=============================================================================
