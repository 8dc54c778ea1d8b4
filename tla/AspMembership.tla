---------------------------- MODULE AspMembership ---------------------------
(***************************************************************************)
(* The ASP membership contract, contracts/asp-membership/src/lib.rs: an    *)
(* incremental Merkle tree that keeps its newest root only.  scripts/      *)
(* deploy.sh opens insertion to everybody with set_admin_insert_only.      *)
(***************************************************************************)
EXTENDS IncrementalTree

CONSTANTS
  LEVELS,
  Members,   \* the leaves that can be inserted
  Callers    \* accounts that call the contract

VARIABLES
  root,            \* Root
  nextIndex,       \* NextIndex
  filledSubtrees,  \* FilledSubtrees(i)
  admin,           \* Admin
  adminInsertOnly, \* AdminInsertOnly
  events           \* the LeafAdded events published

membershipVars == <<root, nextIndex, filledSubtrees, admin, adminInsertOnly, events>>

Init ==
  /\ root = Zeroes(LEVELS)[LEVELS]
  /\ nextIndex = 0
  /\ filledSubtrees = [l \in 0 .. LEVELS |-> Zeroes(LEVELS)[l]]
  /\ admin \in Callers
  /\ adminInsertOnly = TRUE
  /\ events = << >>

TreeIsFull == nextIndex >= 2 ^ LEVELS

InsertLeaf(caller, leaf) ==
  /\ adminInsertOnly => caller = admin
  /\ ~TreeIsFull
  /\ root' = Carry(filledSubtrees, nextIndex, 0, leaf, LEVELS)[LEVELS]
  /\ filledSubtrees' = FilledAfter(filledSubtrees, nextIndex, 0, leaf, LEVELS)
  /\ events' = Append(events, [leaf |-> leaf, index |-> nextIndex, root |-> root'])
  /\ nextIndex' = nextIndex + 1
  /\ UNCHANGED <<admin, adminInsertOnly>>

\* Authorised by the admin, like UpdateAdmin.
SetAdminInsertOnly(adminOnly) ==
  /\ adminInsertOnly' = adminOnly
  /\ UNCHANGED <<root, nextIndex, filledSubtrees, admin, events>>

UpdateAdmin(newAdmin) ==
  /\ admin' = newAdmin
  /\ UNCHANGED <<root, nextIndex, filledSubtrees, adminInsertOnly, events>>

Next ==
  \/ \E caller \in Callers, leaf \in Members : InsertLeaf(caller, leaf)
  \/ \E adminOnly \in BOOLEAN : SetAdminInsertOnly(adminOnly)
  \/ \E newAdmin \in Callers : UpdateAdmin(newAdmin)

Spec == Init /\ [][Next]_membershipVars

---------------------------------------------------------------------------

AddedLeaves == [i \in DOMAIN events |-> events[i].leaf]

(***************************************************************************)
(* Every root that insert_leaf publishes is the Merkle root of the leaves  *)
(* published so far, at the indices published, and the contract keeps the  *)
(* last one: a wallet that rebuilds the tree from the LeafAdded events     *)
(* arrives at each root in turn.                                           *)
(***************************************************************************)
RootHoldsMembers ==
  /\ nextIndex = Len(events)
  /\ root = MerkleRoot(AddedLeaves, LEVELS)
  /\ \A i \in DOMAIN events :
       /\ events[i].index = i - 1
       /\ events[i].root = MerkleRoot(SubSeq(AddedLeaves, 1, i), LEVELS)
=============================================================================
