--------------------------- MODULE IncrementalTree --------------------------
(***************************************************************************)
(* The incremental Merkle tree both contracts append to, the pool in       *)
(* contracts/pool/src/merkle_with_history.rs and the ASP membership        *)
(* contract in contracts/asp-membership/src/lib.rs: the loop that carries  *)
(* a new node to the root past the subtrees filled before it.              *)
(*                                                                         *)
(* Poseidon2 is collision free, so the hash of two nodes is their pair and *)
(* a root is the whole tree.                                               *)
(***************************************************************************)
EXTENDS Integers, Sequences

CONSTANT ZeroLeaf   \* get_zeroes[0], the hash an empty leaf has

\* get_zeroes: the root of an empty tree of each height.
Zeroes(levels) ==
  LET zero[l \in 0 .. levels] == IF l = 0 THEN ZeroLeaf ELSE <<zero[l - 1], zero[l - 1]>>
  IN zero

\* The node of the appended leaf's path at a level is a right child.
IsRight(index, lvl) == (index \div 2 ^ lvl) % 2 = 1

\* current_hash of the loop on its way from level "from" to the root, for the
\* leaf "index" and the node it gives at level "from".
Carry(filled, index, from, node, levels) ==
  LET hash[l \in from .. levels] ==
        IF l = from THEN node
        ELSE IF IsRight(index, l - 1) THEN <<filled[l - 1], hash[l - 1]>>
        ELSE <<hash[l - 1], Zeroes(levels)[l - 1]>>
  IN hash

\* Mutant: the subtree is stored at right children instead of left ones.
FilledOnRight(filled, index, from, node, levels) ==
  [l \in DOMAIN filled |->
     IF l \in from .. levels - 1 /\ IsRight(index, l)
       THEN Carry(filled, index, from, node, levels)[l] ELSE filled[l]]

\* FilledSubtrees after the loop: a left child is kept for its right sibling.
FilledAfter(filled, index, from, node, levels) ==
  [l \in DOMAIN filled |->
     IF l \in from .. levels - 1 /\ ~IsRight(index, l)
       THEN Carry(filled, index, from, node, levels)[l] ELSE filled[l]]

---------------------------------------------------------------------------
(***************************************************************************)
(* The reference: the Merkle tree of a sequence of leaves, padded with     *)
(* empty ones and hashed level by level.                                   *)
(***************************************************************************)
MerkleRoot(seq, levels) ==
  LET level[l \in 0 .. levels] ==
        [i \in 1 .. 2 ^ (levels - l) |->
           IF l = 0 THEN IF i <= Len(seq) THEN seq[i] ELSE ZeroLeaf
                    ELSE <<level[l - 1][2 * i - 1], level[l - 1][2 * i]>>]
  IN level[levels][1]

\* The leaf at a position of the tree with this root.
LeafAt(r, i, levels) ==
  LET node[l \in 0 .. levels] ==
        IF l = levels THEN r ELSE node[l + 1][IF IsRight(i, l) THEN 2 ELSE 1]
  IN node[0]

FirstLeaves(r, n, levels) == [i \in 1 .. n |-> LeafAt(r, i - 1, levels)]
============================================================================
