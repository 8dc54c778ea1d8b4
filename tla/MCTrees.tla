------------------------------- MODULE MCTrees ------------------------------
(***************************************************************************)
(* The trees for TLC, side by side: the pool's, two leaves at a time and   *)
(* with its ring; the ASP membership contract's with a wallet that follows *)
(* its LeafAdded events; the ASP non-membership contract's; the prover's   *)
(* sparse tree.  They share no state: a run grows one of them.             *)
(***************************************************************************)
EXTENDS MCNonMembership

CONSTANTS ZeroLeaf, LEVELS, Members, Callers, PoolLevels, PoolRing, PoolLeaves

ASSUME TreesAssumption ==
  /\ PoolLevels \in 1 .. 32 /\ PoolRing \in Nat \ {0} /\ ZeroLeaf \notin PoolLeaves
  /\ LEVELS \in 1 .. 32 /\ ZeroLeaf \notin Members

VARIABLES
  growing,          \* "pool", "membership", "non_membership", "client"
  ring, currentRootIndex, poolNextIndex, filledSubtree,
  membershipRoot, nextIndex, filledSubtrees, membershipAdmin, adminInsertOnly, events,
  levels_data, next_index,
  db, smtRoot

Pool == INSTANCE MerkleTreeWithHistory WITH
  LEVELS <- PoolLevels, ROOT_HISTORY_SIZE <- PoolRing, Commitments <- PoolLeaves,
  nextIndex <- poolNextIndex
Membership == INSTANCE AspMembership WITH root <- membershipRoot, admin <- membershipAdmin
Wallet == INSTANCE ClientTree WITH Leaves <- Members
Sparse == INSTANCE ClientSparseTree

poolTreeVars == <<ring, currentRootIndex, poolNextIndex, filledSubtree>>
memberVars == <<membershipRoot, nextIndex, filledSubtrees, membershipAdmin, adminInsertOnly, events>>
walletVars == <<levels_data, next_index>>
sparseVars == <<db, smtRoot>>
treesVars == <<growing, smtVars, poolTreeVars, memberVars, walletVars, sparseVars>>

\* Leaves are one-element tuples, which no inner node is.
MCZeroLeaf == <<"zero">>
MCLeaves == {<<"c1">>, <<"c2">>}

\* Nothing depends on who the first admin is.
TreesInit ==
  /\ growing \in {"pool", "membership", "non_membership", "client"}
  /\ Init /\ Pool!Init /\ Membership!Init /\ Wallet!Init /\ Sparse!Init
  /\ growing # "membership" => membershipAdmin = CHOOSE a \in Callers : TRUE
  /\ growing # "non_membership" => admin = CHOOSE a \in Admins : TRUE

\* The wallet inserts the next event's leaf.
WalletFollows ==
  /\ next_index < nextIndex
  /\ Wallet!Insert(events[next_index + 1].leaf)

TreesNext ==
  /\ UNCHANGED growing
  /\ \/ /\ growing = "pool"
        /\ Pool!Next
        /\ UNCHANGED <<smtVars, memberVars, walletVars, sparseVars>>
     \/ /\ growing = "membership"
        /\ Membership!Next
        /\ UNCHANGED <<smtVars, poolTreeVars, walletVars, sparseVars>>
     \/ /\ growing = "membership"
        /\ WalletFollows
        /\ UNCHANGED <<smtVars, poolTreeVars, memberVars, sparseVars>>
     \/ /\ growing = "non_membership"
        /\ ChangesNext
        /\ UNCHANGED <<poolTreeVars, memberVars, walletVars, sparseVars>>
     \/ /\ growing = "client"
        /\ Sparse!Next
        /\ UNCHANGED <<smtVars, poolTreeVars, memberVars, walletVars>>

TreesSpec == TreesInit /\ [][TreesNext]_treesVars

\* insert_two_leaves and is_known_root implement the tree that Pool uses
\* (MerkleTreeWithHistory).
PoolTreeSpec == Pool!TreeSpec

\* insert_leaf leaves the root of exactly the members inserted
\* (AspMembership).
RootHoldsMembers == Membership!RootHoldsMembers

\* The prover's sparse tree is the contract's (ClientSparseTree).
SparseTreesAgree == Sparse!SparseTreesAgree

(***************************************************************************)
(* A wallet that follows the LeafAdded events has the tree of the leaves   *)
(* it has seen, whatever the contract did in between: the root of the last *)
(* event it followed, and the contract's once it followed them all.        *)
(***************************************************************************)
WalletTreeAgrees ==
  /\ Wallet!TreeOf([i \in 1 .. next_index |-> events[i].leaf])
  /\ next_index > 0 => Wallet!Root = events[next_index].root
  /\ next_index = nextIndex => Wallet!Root = membershipRoot
=============================================================================
