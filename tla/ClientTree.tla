----------------------------- MODULE ClientTree -----------------------------
(***************************************************************************)
(* The Merkle tree the wallet keeps of the pool's and of the membership    *)
(* contract's leaves, app/crates/prover/src/merkle.rs: all nodes of all    *)
(* levels, one path rewritten at each insertion.  With it the reference    *)
(* tree of circuits/src/core/merkle.rs, which is built from all leaves at  *)
(* once, and the circuit that recomputes a root, merkleProof.circom.       *)
(***************************************************************************)
EXTENDS IncrementalTree, Functions

CONSTANTS
  LEVELS,     \* depth of the tree
  Leaves      \* leaves that can be inserted

VARIABLES
  levels_data,  \* the nodes of each level, 0 the leaves
  next_index

clientVars == <<levels_data, next_index>>

\* new_with_zero_leaf.
Init ==
  /\ levels_data = [l \in 0 .. LEVELS |-> [i \in 0 .. 2 ^ (LEVELS - l) - 1 |-> Zeroes(LEVELS)[l]]]
  /\ next_index = 0

Sibling(i) == IF i % 2 = 0 THEN i + 1 ELSE i - 1

\* Mutant: the parent takes its children in the order they are met.
ParentInOrderMet(i, node, sibling) == <<node, sibling>>

Parent(i, node, sibling) == IF i % 2 = 0 THEN <<node, sibling>> ELSE <<sibling, node>>

\* current_hash on the leaf's way to the root.
NewPath(leaf) ==
  LET hash[l \in 0 .. LEVELS] ==
        IF l = 0 THEN leaf
        ELSE LET i == next_index \div 2 ^ (l - 1)
             IN Parent(i, hash[l - 1], levels_data[l - 1][Sibling(i)])
  IN hash

Insert(leaf) ==
  /\ next_index < 2 ^ LEVELS
  /\ levels_data' = [l \in 0 .. LEVELS |->
                       [levels_data[l] EXCEPT ![next_index \div 2 ^ l] = NewPath(leaf)[l]]]
  /\ next_index' = next_index + 1

Next == \E leaf \in Leaves : Insert(leaf)

Root == levels_data[LEVELS][0]

---------------------------------------------------------------------------
(***************************************************************************)
(* Proofs of inclusion: path elements, and the sides as one number.        *)
(***************************************************************************)

SidesOf(index) ==
  SumFunctionOnSet([l \in 0 .. LEVELS - 1 |-> 2 ^ l * ((index \div 2 ^ l) % 2)], 0 .. LEVELS - 1)

\* get_proof: also of a place that nothing was inserted at.
GetProof(index) ==
  [elements |-> [l \in 0 .. LEVELS - 1 |-> levels_data[l][Sibling(index \div 2 ^ l)]],
   indices  |-> SidesOf(index)]

\* merkle_proof of circuits: the levels are hashed from the leaves on the way.
ReferenceProof(seq, index) ==
  LET level[l \in 0 .. LEVELS] ==
        [i \in 0 .. 2 ^ (LEVELS - l) - 1 |->
           IF l = 0 THEN IF i < Len(seq) THEN seq[i + 1] ELSE ZeroLeaf
                    ELSE <<level[l - 1][2 * i], level[l - 1][2 * i + 1]>>]
  IN [elements |-> [l \in 0 .. LEVELS - 1 |-> level[l][Sibling(index \div 2 ^ l)]],
      indices  |-> SidesOf(index)]

\* MerkleProof(levels) of the circuit: a bit of the number per level says on
\* which side the path element is.
CircuitRoot(leaf, proof) ==
  LET hash[l \in 0 .. LEVELS] ==
        IF l = 0 THEN leaf
        ELSE IF IsRight(proof.indices, l - 1)
          THEN <<proof.elements[l - 1], hash[l - 1]>>
          ELSE <<hash[l - 1], proof.elements[l - 1]>>
  IN hash[LEVELS]

---------------------------------------------------------------------------

(***************************************************************************)
(* The wallet's tree of some leaves is the tree everybody else computes:   *)
(* its root is that of the whole list, and its proof of every place is the *)
(* reference's and leads the circuit to that root and to the place's leaf. *)
(***************************************************************************)
TreeOf(seq) ==
  /\ next_index = Len(seq)
  /\ Root = MerkleRoot(seq, LEVELS)
  /\ \A i \in 0 .. 2 ^ LEVELS - 1 :
       LET leaf == IF i < Len(seq) THEN seq[i + 1] ELSE ZeroLeaf
       IN /\ GetProof(i) = ReferenceProof(seq, i)
          /\ CircuitRoot(leaf, GetProof(i)) = Root
=============================================================================
