----------------------------- MODULE SparseTree -----------------------------
(***************************************************************************)
(* The sparse Merkle tree of contracts/asp-non-membership/src/lib.rs as a  *)
(* value: its nodes, its paths and how a path is walked and rebuilt.       *)
(*                                                                         *)
(* Poseidon2 is collision free, so a hash is written as what it hashes: an *)
(* internal node is the pair of its children, a leaf the triple the        *)
(* contract stores for it, and the zero hash, an empty branch, is Empty.   *)
(* The contract's store is then the set of the nodes it holds.             *)
(***************************************************************************)
EXTENDS Integers, Sequences, SequencesExt

CONSTANT Bits   \* bits of a key, 256 in the contract

\* Find of the contract reads one bit of the key per level.
ASSUME BitsAssumption == Bits \in Nat \ {0}

Empty == << >>

\* Mutant: key and value change places.
LeafOfValue(k, v) == <<1, v, k>>

Leaf(k, v) == <<1, k, v>>
IsLeaf(n) == Len(n) = 3
IsInternal(n) == Len(n) = 2

\* split_bits, least significant bit first: level i branches on bit i.
Bit(k, i) == (k \div 2 ^ i) % 2

\* The node at a level of the key's path with its sibling.
Join(k, i, sibling, node) == IF Bit(k, i) = 1 THEN <<sibling, node>> ELSE <<node, sibling>>

\* The nodes the key's bits lead through, from r down to level Bits; below
\* a leaf or an empty branch there is nothing more to go through.
Path(r, k) ==
  LET f[i \in 0 .. Bits] ==
        IF i = 0 THEN r
        ELSE IF IsInternal(f[i - 1]) THEN f[i - 1][Bit(k, i - 1) + 1] ELSE f[i - 1]
  IN f

\* How many internal nodes that is.
Depth(r, k) == CHOOSE i \in 0 .. Bits : ~IsInternal(Path(r, k)[i])
                                        /\ \A j \in 0 .. i - 1 : IsInternal(Path(r, k)[j])

\* Mutant: the sibling is read from the key's own side.
SiblingsOfOwnSide(r, k) == [i \in 1 .. Depth(r, k) |-> Path(r, k)[i - 1][Bit(k, i - 1) + 1]]

Siblings(r, k) == [i \in 1 .. Depth(r, k) |-> Path(r, k)[i - 1][2 - Bit(k, i - 1)]]

\* The nodes over the bottom node of a path with these siblings: the node at
\* level 0 is the root, the one at level Len(siblings) the bottom.
Climb(k, bottom, siblings) ==
  LET f[i \in 0 .. Len(siblings)] ==
        IF i = Len(siblings) THEN bottom ELSE Join(k, i, siblings[i + 1], f[i + 1])
  IN f

\* The nodes strictly above the bottom, and the root.
Above(k, bottom, siblings) == {Climb(k, bottom, siblings)[i] : i \in 0 .. Len(siblings) - 1}
RootOver(k, bottom, siblings) == Climb(k, bottom, siblings)[0]

\* Siblings without the empty branches at their end.
UpToLastNode(siblings) ==
  SubSeq(siblings, 1, CHOOSE n \in 0 .. Len(siblings) :
                        /\ n > 0 => siblings[n] # Empty
                        /\ \A m \in n + 1 .. Len(siblings) : siblings[m] = Empty)

\* find_key_internal: what a path from r ends at.
FindResult(r, k) ==
  LET end == Path(r, k)[Depth(r, k)]
      found == end # Empty /\ end[2] = k
  IN [found |-> found,
      siblings |-> Siblings(r, k),
      foundValue |-> IF found THEN end[3] ELSE 0,
      notFoundKey |-> IF end = Empty THEN k ELSE IF found THEN 0 ELSE end[2],
      notFoundValue |-> IF end = Empty \/ found THEN 0 ELSE end[3],
      isOld0 |-> end = Empty]

\* The first level at which two keys part.
PartingLevel(k, l) == CHOOSE i \in 0 .. Bits - 1 :
                        Bit(k, i) # Bit(l, i) /\ \A j \in 0 .. i - 1 : Bit(k, j) = Bit(l, j)

---------------------------------------------------------------------------
(***************************************************************************)
(* The reference: the one tree that holds a set of entries, whatever the   *)
(* order they came in.  A branch with no entry is empty, a branch with one *)
(* is its leaf, any other splits on the next bit; keys that agree on all   *)
(* bits are one key.                                                       *)
(***************************************************************************)
Subtrees(entries) ==
  LET tree[i \in 0 .. Bits] ==
        [S \in SUBSET entries |->
           IF S = {} THEN Empty
           ELSE IF i = Bits \/ \E e \in S : S = {e}
             THEN LET e == CHOOSE x \in S : TRUE IN Leaf(e[1], e[2])
           ELSE <<tree[i + 1][{e \in S : Bit(e[1], i) = 0}],
                  tree[i + 1][{e \in S : Bit(e[1], i) = 1}]>>]
  IN tree

CanonicalTree(entries) == Subtrees(entries)[0][entries]
============================================================================
