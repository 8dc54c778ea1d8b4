------------------------ MODULE MerkleTreeWithHistory -----------------------
(***************************************************************************)
(* contracts/pool/src/merkle_with_history.rs hash by hash: the state the   *)
(* contract keeps is the ring of roots and one filled subtree per level,   *)
(* never the leaves.  It refines CommitmentTree, in which a root is the    *)
(* number of leaves under it.                                              *)
(***************************************************************************)
EXTENDS IncrementalTree

CONSTANTS
  LEVELS,
  ROOT_HISTORY_SIZE,
  Commitments

VARIABLES
  ring,             \* Root(i)
  currentRootIndex, \* CurrentRootIndex
  nextIndex,        \* NextIndex
  filledSubtree     \* FilledSubtree(i)

historyVars == <<ring, currentRootIndex, nextIndex, filledSubtree>>

\* A ring slot that has never been written.
Unset == << >>

Init ==
  /\ ring = [i \in 0 .. ROOT_HISTORY_SIZE - 1 |-> IF i = 0 THEN Zeroes(LEVELS)[LEVELS] ELSE Unset]
  /\ currentRootIndex = 0
  /\ nextIndex = 0
  /\ filledSubtree = [l \in 0 .. LEVELS |-> Zeroes(LEVELS)[l]]

\* Mutant: the index is halved once for the pair and once more at level 1.
InsertTwoLeavesShifted(leaf1, leaf2) ==
  /\ nextIndex + 2 <= 2 ^ LEVELS
  /\ currentRootIndex' = (currentRootIndex + 1) % ROOT_HISTORY_SIZE
  /\ ring' = [ring EXCEPT ![currentRootIndex'] =
               Carry(filledSubtree, nextIndex \div 2, 1, <<leaf1, leaf2>>, LEVELS)[LEVELS]]
  /\ filledSubtree' = FilledAfter(filledSubtree, nextIndex \div 2, 1, <<leaf1, leaf2>>, LEVELS)
  /\ nextIndex' = nextIndex + 2

\* insert_two_leaves: the pair enters the loop at level 1.
InsertTwoLeaves(leaf1, leaf2) ==
  /\ nextIndex % 2 = 0
  /\ nextIndex + 2 <= 2 ^ LEVELS
  /\ currentRootIndex' = (currentRootIndex + 1) % ROOT_HISTORY_SIZE
  /\ ring' = [ring EXCEPT ![currentRootIndex'] =
               Carry(filledSubtree, nextIndex, 1, <<leaf1, leaf2>>, LEVELS)[LEVELS]]
  /\ filledSubtree' = FilledAfter(filledSubtree, nextIndex, 1, <<leaf1, leaf2>>, LEVELS)
  /\ nextIndex' = nextIndex + 2

Next == \E leaf1, leaf2 \in Commitments : InsertTwoLeaves(leaf1, leaf2)

Spec == Init /\ [][Next]_historyVars

---------------------------------------------------------------------------

\* The leaves under the newest root.
InsertedLeaves == FirstLeaves(ring[currentRootIndex], nextIndex, LEVELS)

\* How many of them a root in the ring is the root of.
LeavesUnder(r) ==
  LET sizes == {n \in 0 .. nextIndex : r = MerkleRoot(SubSeq(InsertedLeaves, 1, n), LEVELS)}
  IN IF r = Unset THEN -1 ELSE IF sizes = {} THEN -2 ELSE CHOOSE n \in sizes : TRUE

\* The contract's ring and filled subtrees implement the tree of leaves the
\* pool and the wallets reason about: each root in the ring is the Merkle
\* root of the leaves there were when it was written.
Tree == INSTANCE CommitmentTree WITH
  leaves <- InsertedLeaves,
  roots <- [i \in DOMAIN ring |-> LeavesUnder(ring[i])],
  rootIndex <- currentRootIndex

TreeSpec == Tree!TreeSpec
============================================================================
