-------------------------- MODULE CommitmentTree --------------------------
(***************************************************************************)
(* The pool's commitment tree with its history of roots, as the pool       *)
(* contract sees it: contracts/pool/src/merkle_with_history.rs.            *)
(*                                                                         *)
(* The tree only grows, two leaves at a time, and the hash is treated as   *)
(* collision free, so the root of the tree after n insertions stands for   *)
(* exactly the first n leaves.  A root is therefore written as that        *)
(* number: the root n is the root of the first n leaves.  A root of any    *)
(* other tree is ForeignRoot, and a ring slot never written is NoRoot.     *)
(* The module MerkleTreeWithHistory computes the roots hash by hash and    *)
(* refines this one.                                                       *)
(***************************************************************************)
EXTENDS Integers, Sequences

CONSTANTS
  LEVELS,             \* depth of the tree, constructor argument
  ROOT_HISTORY_SIZE,  \* slots of the ring of roots, 90 in the contract
  Commitments         \* the values a leaf can take

VARIABLES
  leaves,     \* the leaves inserted so far; NextIndex is its length
  roots,      \* the ring: Root(i) of the contract's storage
  rootIndex   \* CurrentRootIndex

treeVars == <<leaves, roots, rootIndex>>

\* init refuses any other depth (WrongLevels); the ring needs one slot.
ASSUME LevelsAssumption == LEVELS \in 1 .. 32
ASSUME HistoryAssumption == ROOT_HISTORY_SIZE \in Nat \ {0}

NoRoot == -1
ForeignRoot == -2

Slots == 0 .. ROOT_HISTORY_SIZE - 1

\* max_leaves of insert_two_leaves.
Capacity == 2 ^ LEVELS

\* NextIndex of the contract's storage.
NextIndex == Len(leaves)

TreeInit ==
  /\ leaves = << >>
  /\ roots = [i \in Slots |-> IF i = 0 THEN 0 ELSE NoRoot]
  /\ rootIndex = 0

\* Mutant: the ring index is not reduced.
NextSlotUnreduced(i) == i + 1

\* The slot the ring moves to.
NextSlot(i) == (i + 1) % ROOT_HISTORY_SIZE

\* insert_two_leaves refuses when the two leaves do not fit.
TreeIsFull == NextIndex + 2 > Capacity

\* Mutant: the history keeps only the newest root, the ring never moves on.
InsertTwoLeavesInPlace(c0, c1) ==
  /\ leaves' = leaves \o <<c0, c1>>
  /\ rootIndex' = rootIndex
  /\ roots' = [roots EXCEPT ![rootIndex] = NextIndex + 2]

\* insert_two_leaves, past its capacity check: the new root goes into the
\* next slot of the ring, over the oldest one once the ring is full.
InsertTwoLeaves(c0, c1) ==
  /\ leaves' = leaves \o <<c0, c1>>
  /\ rootIndex' = NextSlot(rootIndex)
  /\ roots' = [roots EXCEPT ![rootIndex'] = NextIndex + 2]

\* Mutant: a root of any tree will do.
IsAnyRoot(r) == r \in Int

\* is_known_root scans every slot of the ring.  NoRoot as an argument is the
\* zero root, which it refuses before the scan; a slot never written holds
\* nothing a root can be equal to.
IsKnownRoot(r) == r # NoRoot /\ \E i \in Slots : roots[i] = r

\* get_last_root.
LastRoot == roots[rootIndex]

TreeNext == \E c0, c1 \in Commitments : ~TreeIsFull /\ InsertTwoLeaves(c0, c1)

TreeSpec == TreeInit /\ [][TreeNext]_treeVars

TreeTypeOK ==
  /\ leaves \in Seq(Commitments)
  /\ roots \in [Slots -> Nat \cup {NoRoot}]
  /\ rootIndex \in Slots

(***************************************************************************)
(* What the ring promises a wallet (the comment on insert_two_leaves): the *)
(* roots accepted are exactly those of the last ROOT_HISTORY_SIZE trees,   *)
(* each until ROOT_HISTORY_SIZE further insertions have overwritten it.    *)
(***************************************************************************)
KnownRootsAreRecent ==
  \A r \in (-2) .. Capacity :
    IsKnownRoot(r) <=> /\ r >= 0
                       /\ r % 2 = 0
                       /\ r <= NextIndex
                       /\ NextIndex - r < 2 * ROOT_HISTORY_SIZE

\* The current root is the root of every leaf inserted: a wallet that reads
\* get_root and proves against it is never behind the tree.
CurrentRootIsLatest == LastRoot = NextIndex
===========================================================================
