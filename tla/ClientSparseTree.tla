-------------------------- MODULE ClientSparseTree --------------------------
(***************************************************************************)
(* The sparse Merkle tree of the prover crate, app/crates/prover/src/      *)
(* sparse_merkle.rs: the counterpart of the contract's tree that makes     *)
(* proofs of absence outside the chain.  It never removes a node and has   *)
(* no delete; a call that returns an error changes nothing.                *)
(***************************************************************************)
EXTENDS SparseTree

CONSTANTS Keys, Values

VARIABLES
  db,      \* the nodes by their hash
  smtRoot  \* root

smtClientVars == <<db, smtRoot>>

Init == db = {} /\ smtRoot = Empty

\* find fails where a node is missing and, at 256 bits, where the path is
\* longer than a key.
CanFind(k) == \A i \in 0 .. Depth(smtRoot, k) : Path(smtRoot, k)[i] \in db \cup {Empty}

\* Mutant: the old leaf goes beside the new one's path one level early.
CollisionSiblingsEarly(k, f) ==
  f.siblings \o [i \in 1 .. PartingLevel(k, f.notFoundKey) - Len(f.siblings) - 1 |-> Empty]
             \o <<Leaf(f.notFoundKey, f.notFoundValue)>>

\* The siblings of the new leaf below the leaf it collides with.
CollisionSiblings(k, f) ==
  f.siblings \o [i \in 1 .. PartingLevel(k, f.notFoundKey) - Len(f.siblings) |-> Empty]
             \o <<Leaf(f.notFoundKey, f.notFoundValue)>>

\* The path is built from the leaf to the root and its nodes stored.
Build(k, v, siblings) ==
  /\ db' = db \cup {Leaf(k, v)} \cup Above(k, Leaf(k, v), siblings)
  /\ smtRoot' = RootOver(k, Leaf(k, v), siblings)

Insert(k, v) ==
  LET f == FindResult(smtRoot, k)
  IN /\ CanFind(k) /\ ~f.found
     /\ Build(k, v, IF f.isOld0 THEN f.siblings ELSE CollisionSiblings(k, f))

Update(k, v) ==
  LET f == FindResult(smtRoot, k)
  IN /\ CanFind(k) /\ f.found
     /\ Build(k, v, f.siblings)

Next == \E k \in Keys, v \in Values : Insert(k, v) \/ Update(k, v)

\* get_proof, padded with empty branches to maxLevels.
GetProof(k, maxLevels) ==
  LET f == FindResult(smtRoot, k)
  IN [f EXCEPT !.siblings = @ \o [i \in 1 .. maxLevels - Len(@) |-> Empty]]

---------------------------------------------------------------------------

\* The entries that find returns.
Entries == {<<k, FindResult(smtRoot, k).foundValue>> : k \in {j \in Keys : FindResult(smtRoot, j).found}}

(***************************************************************************)
(* Whatever the inserts and updates and their order, the tree is the one   *)
(* the contract arrives at for the same entries (CanonicalTree, which      *)
(* RootIsCanonical states of the contract), every key can be looked up,    *)
(* and the padded proof climbs to the root from the key's leaf, from the   *)
(* leaf it collides with, or from an empty branch.                         *)
(***************************************************************************)
SparseTreesAgree ==
  /\ smtRoot = CanonicalTree(Entries)
  /\ \A k \in Keys :
       LET p == GetProof(k, Bits)
           bottom == IF p.found THEN Leaf(k, p.foundValue)
                     ELSE IF p.isOld0 THEN Empty ELSE Leaf(p.notFoundKey, p.notFoundValue)
       IN /\ CanFind(k)
          /\ p.found \/ \A e \in Entries : e[1] # k
          /\ RootOver(k, bottom, UpToLastNode(p.siblings)) = smtRoot
=============================================================================
