-------------------------- MODULE AspNonMembership --------------------------
(***************************************************************************)
(* The ASP non-membership contract, contracts/asp-non-membership/src/lib.rs:*)
(* the sparse Merkle tree of the keys that are blocked, all of its nodes   *)
(* kept in contract storage under their hash.  A call that returns an      *)
(* error changes nothing.  The pool reads the variable root (get_root) and *)
(* wallets read the nodes from storage to build their proofs.              *)
(***************************************************************************)
EXTENDS SparseTree, FiniteSets, FiniteSetsExt

CONSTANTS
  Keys,     \* keys a leaf can have: numbers of Bits bits
  Values,   \* values a leaf can have
  Admins    \* accounts that can be the admin

VARIABLES
  root,     \* Root: hash of the root node, Empty for the empty tree
  nodes,    \* the Node entries of the store
  admin     \* Admin

smtVars == <<root, nodes, admin>>

ASSUME SmtAssumption == Keys \subseteq 0 .. 2 ^ Bits - 1 /\ Values \subseteq Nat

\* find_key_internal fails with KeyNotFound where a node is not in the store.
PathIsStored(k) ==
  \A i \in 0 .. Depth(root, k) : Path(root, k)[i] \in nodes \cup {Empty}

Find(k) == FindResult(root, k)

---------------------------------------------------------------------------
(***************************************************************************)
(* insert_leaf.                                                            *)
(***************************************************************************)

\* The siblings of the new leaf: where the path ends at another leaf, the
\* bits the two keys share become empty branches down to where they part.
NewSiblings(k) ==
  LET f == Find(k)
      shared == PartingLevel(k, f.notFoundKey) - Len(f.siblings)
  IN IF f.isOld0 THEN f.siblings
     ELSE f.siblings \o [i \in 1 .. shared |-> Empty]
                     \o <<Leaf(f.notFoundKey, f.notFoundValue)>>

\* Mutant: the leaf the key collided with is removed with the old path.
ReplacedNodesAndOldLeaf(k) ==
  LET f == Find(k)
  IN IF f.isOld0 THEN Above(k, Empty, f.siblings)
     ELSE {Leaf(f.notFoundKey, f.notFoundValue)}
          \cup Above(k, Leaf(f.notFoundKey, f.notFoundValue), UpToLastNode(f.siblings))

\* The nodes of the old path that insert_leaf removes ("mixed").
ReplacedNodes(k) ==
  LET f == Find(k)
  IN IF f.isOld0 THEN Above(k, Empty, f.siblings)
     ELSE Above(k, Leaf(f.notFoundKey, f.notFoundValue), UpToLastNode(f.siblings))

InsertLeaf(k, v) ==
  /\ PathIsStored(k)
  /\ ~Find(k).found
  /\ LET new == NewSiblings(k)
     IN /\ root' = RootOver(k, Leaf(k, v), new)
        /\ nodes' = (nodes \ ReplacedNodes(k)) \cup Above(k, Leaf(k, v), new) \cup {Leaf(k, v)}
  /\ UNCHANGED admin

---------------------------------------------------------------------------
(***************************************************************************)
(* delete_leaf.  A last sibling that is a leaf is promoted: it takes the   *)
(* place of the parent, and moves up past the empty branches above it.     *)
(***************************************************************************)
\* Mutant: a sibling that is a leaf stays where it is.
PromotesNothing(siblings) == FALSE

PromotesSibling(siblings) == siblings # << >> /\ IsLeaf(Last(siblings))

DeleteLeaf(k) ==
  LET f == Find(k)
      promoted == PromotesSibling(f.siblings)
      rest == IF promoted THEN Front(f.siblings) ELSE f.siblings
      bottom == IF promoted THEN Last(f.siblings) ELSE Empty
      kept == UpToLastNode(rest)
      removed == {Leaf(k, f.foundValue)} \cup Above(k, Leaf(k, f.foundValue), rest)
  IN /\ PathIsStored(k)
     /\ f.found
     /\ f.siblings # << >> => Last(f.siblings) \in nodes
     /\ root' = RootOver(k, bottom, kept)
     /\ nodes' = (nodes \ removed) \cup Above(k, bottom, kept)
     /\ UNCHANGED admin

\* update_leaf: each new node is written before the old one is removed.
UpdateLeaf(k, v) ==
  LET f == Find(k)
      old == Leaf(k, f.foundValue)
      new == Leaf(k, v)
  IN /\ PathIsStored(k)
     /\ f.found
     /\ root' = RootOver(k, new, f.siblings)
     /\ nodes' = (nodes \cup {new} \cup Above(k, new, f.siblings))
                   \ ({old} \cup Above(k, old, f.siblings))
     /\ UNCHANGED admin

UpdateAdmin(a) == admin' = a /\ UNCHANGED <<root, nodes>>

\* Mutant: the collision leaf is hashed also when its key is the key itself,
\* as it is for a path that ends at an empty branch.
VerifyAlwaysHashesLeaf(k, siblings, notFoundKey, notFoundValue) ==
  IF ~PathIsStored(k) THEN "KeyNotFound"
  ELSE IF Find(k).found THEN "false"
  ELSE IF RootOver(k, Leaf(notFoundKey, notFoundValue), siblings) # root THEN "InvalidProof"
  ELSE "true"

\* verify_non_membership, a call that changes nothing.
VerifyNonMembership(k, siblings, notFoundKey, notFoundValue) ==
  LET f == Find(k)
      bottom == IF notFoundKey # k /\ notFoundValue # 0
                  THEN Leaf(notFoundKey, notFoundValue) ELSE Empty
  IN IF ~PathIsStored(k) THEN "KeyNotFound"
     ELSE IF f.found THEN "false"
     ELSE IF \/ siblings # f.siblings
             \/ <<notFoundKey, notFoundValue>> # <<f.notFoundKey, f.notFoundValue>>
             \/ RootOver(k, bottom, siblings) # root
       THEN "InvalidProof"
     ELSE "true"

\* __constructor.
Init == root = Empty /\ nodes = {} /\ admin \in Admins

\* The caller of every action is the admin.
Next ==
  \/ \E k \in Keys, v \in Values : InsertLeaf(k, v) \/ UpdateLeaf(k, v)
  \/ \E k \in Keys : DeleteLeaf(k)
  \/ \E a \in Admins : UpdateAdmin(a)

Spec == Init /\ [][Next]_smtVars

---------------------------------------------------------------------------
(***************************************************************************)
(* What makes the contract correct.                                        *)
(***************************************************************************)

\* The nodes of the tree under a root, level by level.
NodesUnder(r) ==
  LET level[i \in 0 .. Bits] ==
        IF i = 0 THEN {r} \ {Empty}
        ELSE (UNION {{n[1], n[2]} : n \in {m \in level[i - 1] : IsInternal(m)}}) \ {Empty}
  IN UNION {level[i] : i \in 0 .. Bits}

Reachable == NodesUnder(root)

\* The entries of the tree, as pairs.
Entries == {<<n[2], n[3]>> : n \in {m \in Reachable : IsLeaf(m)}}
EntryKeys == {e[1] : e \in Entries}

\* A step that updates a key to the value it has.
SameUpdate == \E k \in Keys, v \in Values : <<k, v>> \in Entries /\ UpdateLeaf(k, v)

\* Every node of the tree is a stored triple or pair, over known keys.
TypeOK ==
  /\ Entries \subseteq Keys \X Values
  /\ \A n \in nodes : IsLeaf(n) \/ IsInternal(n)
  /\ admin \in Admins

(***************************************************************************)
(* lib.rs:15-19: all tree nodes are in contract storage, so that a wallet  *)
(* can assemble the proof of any key from it.  A node missing under the    *)
(* root makes every call on the keys below it fail for good.               *)
(***************************************************************************)
StoreIsComplete == Reachable \subseteq nodes

(***************************************************************************)
(* The root the pool compares proofs with depends on the entries alone,    *)
(* whatever inserts, updates and deletes led to them: the provers in the   *)
(* circuits and the browser build their tree from the entries.             *)
(***************************************************************************)
RootIsCanonical == root = CanonicalTree(Entries)

(***************************************************************************)
(* The proof find_key hands out for a key that is not in the tree is one   *)
(* verify_non_membership accepts, and a key in the tree has none.          *)
(***************************************************************************)
AbsencesAreProvable ==
  \A k \in 0 .. 2 ^ Bits - 1 :
    LET f == Find(k)
    IN VerifyNonMembership(k, f.siblings, f.notFoundKey, f.notFoundValue)
         = IF k \in EntryKeys THEN "false" ELSE "true"

\* The contract implements a map from keys to values: see BlockedKeys.
Map == INSTANCE BlockedKeys WITH
  entries <- [k \in EntryKeys |-> CHOOSE v \in Values : <<k, v>> \in Entries]

BlockedKeysSpec == Map!BlockedKeysSpec
============================================================================
