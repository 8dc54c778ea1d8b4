---------------------------- MODULE PoolProofs ----------------------------
(***************************************************************************)
(* The pool's tree, its safety and its money, proved for every set of      *)
(* keys, accounts and policy contracts, every depth of the tree, every     *)
(* size of the ring and every proof a call may carry.                      *)
(*                                                                         *)
(* First the ring of roots on its own: the inductive invariant gives each  *)
(* slot its age, the number of insertions since it was written, and its    *)
(* content from that age.  Then the safety of the nullifiers.  Then the    *)
(* money: no call creates value, whatever form its nullifiers come in;     *)
(* while they are canonical, the pool holds the tokens of its unspent      *)
(* notes, and an unspent note can be taken out.  The value of the unspent  *)
(* notes is followed through a call as the sum, over all leaves, of what   *)
(* each still holds.  Marking a nullifier takes the amount of its note off *)
(* that sum, whether the note is a leaf or a zero-amount padding that was  *)
(* never inserted; the two new leaves add theirs; CallConservesValue       *)
(* relates the four to the tokens that moved.                              *)
(***************************************************************************)
EXTENDS Pool, FiniteSetTheorems, InductionTheorems

\* Insertions since slot i was written, had the ring always been turning.
Age(i) == IF i <= rootIndex THEN rootIndex - i ELSE rootIndex + ROOT_HISTORY_SIZE - i

RingInv ==
  /\ TreeTypeOK
  /\ \E m \in Nat : NextIndex = 2 * m
  /\ \A i \in Slots :
       roots[i] = IF NextIndex - 2 * Age(i) >= 0 THEN NextIndex - 2 * Age(i) ELSE NoRoot

(***************************************************************************)
(* The ring moves on by one slot and goes back to slot 0 after the last:   *)
(* (root_index + 1) % ROOT_HISTORY_SIZE in insert_two_leaves.              *)
(***************************************************************************)
LEMMA NextSlotValue ==
  ASSUME NEW i \in Slots
  PROVE  NextSlot(i) = IF i = ROOT_HISTORY_SIZE - 1 THEN 0 ELSE i + 1
  <1> USE HistoryAssumption DEF NextSlot, Slots
  <1>1. CASE i = ROOT_HISTORY_SIZE - 1
    BY <1>1, SMT
  <1>2. CASE i # ROOT_HISTORY_SIZE - 1
    <2>1. i + 1 \in 0 .. ROOT_HISTORY_SIZE - 1
      BY <1>2
    <2>2. QED
      BY <1>2, <2>1, SMT
  <1>3. QED
    BY <1>1, <1>2

\* Two leaves more, two more in NextIndex.
LEMMA TwoMoreLeaves ==
  ASSUME TreeTypeOK, NEW c0 \in Commitments, NEW c1 \in Commitments,
         InsertTwoLeaves(c0, c1)
  PROVE  /\ leaves' \in Seq(Commitments)
         /\ NextIndex \in Nat
         /\ NextIndex' = NextIndex + 2
  BY DEF TreeTypeOK, InsertTwoLeaves, NextIndex

LEMMA RingInit == TreeInit => RingInv
  <1> SUFFICES ASSUME TreeInit PROVE RingInv
    OBVIOUS
  <1> USE HistoryAssumption DEF TreeInit, Slots, NoRoot, NextIndex
  <1>1. NextIndex = 0 /\ 0 \in Slots
    OBVIOUS
  <1>2. TreeTypeOK
    BY <1>1 DEF TreeTypeOK
  <1>3. ASSUME NEW i \in Slots
        PROVE  roots[i] = IF NextIndex - 2 * Age(i) >= 0
                            THEN NextIndex - 2 * Age(i) ELSE NoRoot
    <2>1. CASE i = 0
      BY <2>1, <1>1 DEF Age
    <2>2. CASE i # 0
      <3>1. Age(i) = ROOT_HISTORY_SIZE - i /\ Age(i) \in Nat /\ Age(i) > 0
        BY <2>2 DEF Age
      <3>2. QED
        BY <2>2, <3>1, <1>1
    <2>3. QED
      BY <2>1, <2>2
  <1>4. \E m \in Nat : NextIndex = 2 * m
    BY <1>1
  <1>5. QED
    BY <1>2, <1>3, <1>4 DEF RingInv

\* Writing the new root keeps every slot at the content its age gives it.
LEMMA RingStep ==
  ASSUME RingInv, NEW c0 \in Commitments, NEW c1 \in Commitments,
         InsertTwoLeaves(c0, c1)
  PROVE  RingInv'
  <1> USE HistoryAssumption
  <1>1. TreeTypeOK /\ rootIndex \in Slots
    BY DEF RingInv, TreeTypeOK
  <1>2. NextIndex \in Nat /\ NextIndex' = NextIndex + 2 /\ leaves' \in Seq(Commitments)
    BY <1>1, TwoMoreLeaves
  <1>3. rootIndex' = (IF rootIndex = ROOT_HISTORY_SIZE - 1 THEN 0 ELSE rootIndex + 1)
    BY <1>1, NextSlotValue DEF InsertTwoLeaves
  <1>4. rootIndex' \in Slots
    BY <1>1, <1>3 DEF Slots
  <1>5. roots' = [roots EXCEPT ![rootIndex'] = NextIndex + 2]
    BY DEF InsertTwoLeaves
  <1>6. TreeTypeOK'
    BY <1>1, <1>2, <1>4, <1>5 DEF TreeTypeOK
  <1>7. \E m \in Nat : NextIndex' = 2 * m
    <2>1. PICK m \in Nat : NextIndex = 2 * m
      BY DEF RingInv
    <2>2. NextIndex' = 2 * (m + 1)
      BY <1>2, <2>1
    <2>3. QED
      BY <2>2
  <1>8. ASSUME NEW i \in Slots
        PROVE  roots'[i] = IF NextIndex' - 2 * Age(i)' >= 0
                             THEN NextIndex' - 2 * Age(i)' ELSE NoRoot
    <2>1. CASE i = rootIndex'
      <3>0. i \in Int
        BY DEF Slots
      <3>1. i <= rootIndex' /\ rootIndex' - i = 0
        <4>1. i <= i /\ i - i = 0
          BY <3>0
        <4>2. QED
          BY <4>1, <2>1
      <3>2. Age(i)' = 0
        BY <3>1 DEF Age
      <3>3. roots'[i] = NextIndex + 2
        BY <2>1, <1>1, <1>4, <1>5 DEF TreeTypeOK
      <3>4. NextIndex' - 2 * Age(i)' = NextIndex + 2 /\ NextIndex + 2 >= 0
        BY <3>2, <1>2
      <3>5. QED
        BY <3>3, <3>4
    <2>2. CASE i # rootIndex'
      <3>1. Age(i)' = Age(i) + 1 /\ Age(i) \in Nat
        BY <2>2, <1>1, <1>3, <1>4 DEF Age, Slots
      <3>2. roots'[i] = roots[i]
        BY <2>2, <1>1, <1>5 DEF TreeTypeOK
      <3>3. roots[i] = IF NextIndex - 2 * Age(i) >= 0 THEN NextIndex - 2 * Age(i) ELSE NoRoot
        BY DEF RingInv
      <3>4. NextIndex' - 2 * Age(i)' = NextIndex - 2 * Age(i)
        BY <3>1, <1>2
      <3>5. QED
        BY <3>2, <3>3, <3>4
    <2>3. QED
      BY <2>1, <2>2
  <1>9. QED
    BY <1>6, <1>7, <1>8 DEF RingInv, Slots, NoRoot

\* A step that leaves the tree alone leaves the ring alone.
LEMMA RingStutter == RingInv /\ UNCHANGED treeVars => RingInv'
  BY DEF RingInv, treeVars, TreeTypeOK, NextIndex, Age, Slots, NoRoot

(***************************************************************************)
(* The slots of the ring hold the roots of the last ROOT_HISTORY_SIZE      *)
(* trees and nothing else.                                                 *)
(***************************************************************************)
LEMMA RingKnowsRecentRoots == RingInv => KnownRootsAreRecent
  <1> SUFFICES ASSUME RingInv, NEW r \in (-2) .. Capacity
               PROVE  IsKnownRoot(r) <=> /\ r >= 0
                                         /\ r % 2 = 0
                                         /\ r <= NextIndex
                                         /\ NextIndex - r < 2 * ROOT_HISTORY_SIZE
    BY DEF KnownRootsAreRecent
  <1> USE HistoryAssumption DEF NoRoot
  <1>0. r \in Int
    OBVIOUS
  <1>1. rootIndex \in Slots /\ NextIndex \in Nat
    BY DEF RingInv, TreeTypeOK, NextIndex
  <1>2. PICK m \in Nat : NextIndex = 2 * m
    BY DEF RingInv
  <1>3. ASSUME IsKnownRoot(r)
        PROVE  /\ r >= 0 /\ r % 2 = 0 /\ r <= NextIndex
               /\ NextIndex - r < 2 * ROOT_HISTORY_SIZE
    <2>1. PICK i \in Slots : roots[i] = r /\ r # -1
      BY <1>3 DEF IsKnownRoot
    <2>2. Age(i) \in 0 .. ROOT_HISTORY_SIZE - 1
      BY <1>1 DEF Age, Slots
    <2>3. r = NextIndex - 2 * Age(i) /\ r >= 0
      BY <2>1, <2>2, <1>1 DEF RingInv
    <2>4. r = 2 * (m - Age(i)) /\ m - Age(i) \in Int
      BY <2>3, <2>2, <1>2
    <2>5. r % 2 = 0
      <3> DEFINE h == m - Age(i)
      <3>1. h \in Int /\ r = 2 * h
        BY <2>4
      <3> HIDE DEF h
      <3>2. QED
        BY <3>1, SMT
    <2>6. QED
      BY <2>2, <2>3, <2>5, <1>1
  <1>4. ASSUME r >= 0, r % 2 = 0, r <= NextIndex, NextIndex - r < 2 * ROOT_HISTORY_SIZE
        PROVE  IsKnownRoot(r)
    <2>1. PICK h \in Int : r = 2 * h
      BY <1>0, <1>4, SMT
    <2> DEFINE age == m - h
               slot == IF age <= rootIndex THEN rootIndex - age
                                           ELSE rootIndex + ROOT_HISTORY_SIZE - age
    <2>2. age \in 0 .. ROOT_HISTORY_SIZE - 1
      BY <2>1, <1>2, <1>4
    <2>3. slot \in Slots /\ Age(slot) = age
      BY <2>2, <1>1 DEF Age, Slots
    <2>4. NextIndex - 2 * age = r
      BY <2>1, <1>2
    <2>5. roots[slot] = r
      BY <2>3, <2>4, <1>4 DEF RingInv
    <2>6. QED
      BY <2>3, <2>5, <1>4 DEF IsKnownRoot
  <1>5. QED
    BY <1>3, <1>4

(***************************************************************************)
(* is_known_root accepts the roots of the last ROOT_HISTORY_SIZE trees,    *)
(* and no other, in every state of the tree on its own.                    *)
(***************************************************************************)
THEOREM TreeKnowsRecentRoots == TreeSpec => []KnownRootsAreRecent
  <1>1. TreeInit => RingInv
    BY RingInit
  <1>2. RingInv /\ [TreeNext]_treeVars => RingInv'
    BY RingStep, RingStutter DEF TreeNext
  <1>3. RingInv => KnownRootsAreRecent
    BY RingKnowsRecentRoots
  <1>4. QED
    BY <1>1, <1>2, <1>3, PTL DEF TreeSpec

---------------------------------------------------------------------------

\* Whatever form they come in, the nullifiers of the calls that succeed are
\* different numbers.
TwoNullifiersPerCall == IsFiniteSet(nullifiers) /\ Cardinality(nullifiers) = NextIndex

\* The inductive invariant: each part uses the others when a call succeeds.
PoolInv ==
  /\ TypeOK
  /\ RingInv
  /\ TwoNullifiersPerCall
  /\ SpentNotesExist
  /\ AmountsInRange

\* A call returned no error: every check of transact and internal_transact
\* passed.
LEMMA ChecksPassed ==
  ASSUME NEW p, NEW ext, NEW sender, TransactError(p, ext, sender) = "None"
  PROVE  /\ ext.amount > 0 => ~DepositRefused(ext, sender)
         /\ IsKnownRoot(p.root)
         /\ \A i \in 1 .. 2 : ~IsSpent(p.inputNullifiers[i])
         /\ p.extDataHash = ext
         /\ ~(Magnitude(ext.amount) >= MaxExtAmount)
         /\ p.publicAmount = CalculatePublicAmount(ext.amount)
         /\ PolicyRootsAreLive(p)
         /\ Circuit(p)
         /\ ext.amount < 0 => ~WithdrawalRefused(ext)
         /\ ~TreeIsFull
  BY DEF TransactError

LEMMA ProofTypes ==
  ASSUME NEW p \in Proofs
  PROVE  /\ p.inputNullifiers[1] \in Nullifiers /\ p.inputNullifiers[2] \in Nullifiers
         /\ p.outputCommitments[1] \in Commitments /\ p.outputCommitments[2] \in Commitments
         /\ p.root \in Int /\ p.publicAmount \in Field
  BY CommitmentsAssumption DEF Proofs

\* The tokens that move are there: no balance goes below zero.
LEMMA PaymentType ==
  ASSUME TypeOK, NEW ext \in ExtDatas, NEW sender \in Accounts,
         ext.amount > 0 => ~DepositRefused(ext, sender),
         ext.amount < 0 => ~WithdrawalRefused(ext)
  PROVE  Payment(ext, sender) \in [Holders -> 0 .. MaxI128]
  <1>1. balances \in [Holders -> 0 .. MaxI128] /\ PoolAccount \in Holders
        /\ sender \in Holders /\ sender # PoolAccount /\ MaxI128 \in Nat
    BY AccountsAssumption, FieldAssumption DEF TypeOK, Holders
  <1>2. ext.amount \in Int /\ ext.recipient \in Holders
    BY DEF ExtDatas
  <1>3. CASE ext.amount > 0
    <2>1. balances[sender] - ext.amount \in 0 .. MaxI128
      BY <1>1, <1>2, <1>3 DEF DepositRefused
    <2>2. balances[PoolAccount] + ext.amount \in 0 .. MaxI128
      BY <1>1, <1>2, <1>3 DEF DepositRefused, CanReceive
    <2>3. QED
      BY <1>1, <1>3, <2>1, <2>2 DEF Payment, Moved
  <1>4. CASE ext.amount < 0 /\ ext.recipient # PoolAccount
    <2>1. balances[PoolAccount] - (-ext.amount) \in 0 .. MaxI128
      BY <1>1, <1>2, <1>4 DEF WithdrawalRefused
    <2>2. balances[ext.recipient] + (-ext.amount) \in 0 .. MaxI128
      BY <1>1, <1>2, <1>4 DEF WithdrawalRefused, CanReceive
    <2>3. QED
      BY <1>1, <1>2, <1>4, <2>1, <2>2 DEF Payment, Moved
  <1>5. CASE ext.amount = 0 \/ (ext.amount < 0 /\ ext.recipient = PoolAccount)
    BY <1>1, <1>2, <1>5 DEF Payment, Moved
  <1>6. QED
    BY <1>2, <1>3, <1>4, <1>5

\* The tokens of a transfer are there, and its receiver has room for them.
LEMMA TransferType ==
  ASSUME TypeOK, NEW from \in Accounts, NEW to \in Holders, NEW v \in 1 .. balances[from],
         Transfer(from, to, v)
  PROVE  /\ TypeOK' /\ UNCHANGED <<treeVars, nullifiers, policyVars>>
         /\ balances'[PoolAccount] >= balances[PoolAccount]
         /\ balances'[PoolAccount] \in Nat /\ balances[PoolAccount] \in Nat
  <1>1. balances \in [Holders -> 0 .. MaxI128] /\ PoolAccount \in Holders
        /\ from \in Holders /\ from # PoolAccount /\ MaxI128 \in Nat
    BY AccountsAssumption, FieldAssumption DEF TypeOK, Holders
  <1>2. v \in Int /\ v >= 1 /\ from # to
    BY <1>1 DEF Transfer
  <1>3. balances[from] - v \in 0 .. MaxI128 /\ balances[to] + v \in 0 .. MaxI128
    BY <1>1, <1>2 DEF Transfer, CanReceive
  <1>4. balances' = [balances EXCEPT ![from] = @ - v, ![to] = @ + v]
    BY <1>2 DEF Transfer, Moved
  <1>5. balances' \in [Holders -> 0 .. MaxI128]
    BY <1>1, <1>2, <1>3, <1>4
  <1>6. balances'[PoolAccount] = IF to = PoolAccount THEN balances[PoolAccount] + v
                                                     ELSE balances[PoolAccount]
    BY <1>1, <1>2, <1>4
  <1>7. UNCHANGED <<treeVars, nullifiers, policyVars>>
    BY DEF Transfer
  <1>8. TypeOK'
    BY <1>5, <1>7 DEF TypeOK, TreeTypeOK, treeVars, policyVars
  <1>9. QED
    BY <1>1, <1>2, <1>5, <1>6, <1>7, <1>8

LEMMA TransactType ==
  ASSUME TypeOK, NEW p \in Proofs, NEW ext \in ExtDatas, NEW sender \in Accounts,
         Transact(p, ext, sender), RingInv'
  PROVE  TypeOK'
  <1>1. balances' \in [Holders -> 0 .. MaxI128]
    BY ChecksPassed, PaymentType DEF Transact
  <1>2. nullifiers' \in SUBSET Nullifiers
    BY ProofTypes DEF Transact, TypeOK
  <1>3. TreeTypeOK'
    BY DEF RingInv
  <1>4. QED
    BY <1>1, <1>2, <1>3 DEF TypeOK, Transact, policyVars

LEMMA PolicyType == TypeOK /\ PolicyNext => TypeOK'
  <1> SUFFICES ASSUME TypeOK, PolicyNext PROVE TypeOK'
    OBVIOUS
  <1> USE DEF TypeOK, treeVars, TreeTypeOK
  <1>1. ASSUME NEW a \in Accounts, UpdateAdmin(a) PROVE TypeOK'
    BY <1>1 DEF UpdateAdmin
  <1>2. ASSUME NEW asp \in MembershipAsps, UpdateAspMembership(asp) PROVE TypeOK'
    BY <1>2 DEF UpdateAspMembership
  <1>3. ASSUME NEW asp \in NonMembershipAsps, UpdateAspNonMembership(asp) PROVE TypeOK'
    BY <1>3 DEF UpdateAspNonMembership
  <1>4. ASSUME NEW asp \in MembershipAsps, NEW k \in Keys, InsertMember(asp, k)
        PROVE  TypeOK'
    <2>1. Append(members[asp], k) \in Seq(Keys)
      OBVIOUS
    <2>2. members' \in [MembershipAsps -> Seq(Keys)]
      BY <1>4, <2>1 DEF InsertMember
    <2>3. QED
      BY <1>4, <2>2 DEF InsertMember
  <1>5. ASSUME NEW asp \in NonMembershipAsps, NEW k \in Keys, BlockKey(asp, k)
        PROVE  TypeOK'
    BY <1>5 DEF BlockKey
  <1>6. ASSUME NEW asp \in NonMembershipAsps, NEW k \in Keys, UnblockKey(asp, k)
        PROVE  TypeOK'
    BY <1>6 DEF UnblockKey
  <1>7. QED
    BY <1>1, <1>2, <1>3, <1>4, <1>5, <1>6 DEF PolicyNext

\* The policy contracts do not touch the tree, the nullifiers or the tokens.
LEMMA PolicyKeepsPool ==
  PolicyNext => UNCHANGED <<treeVars, nullifiers, balances>>
  BY DEF PolicyNext, UpdateAdmin, UpdateAspMembership, UpdateAspNonMembership,
         InsertMember, BlockKey, UnblockKey

\* No call but transact touches the tree or the nullifiers, or takes tokens
\* from the pool.
LEMMA OthersKeepPool ==
  ASSUME TypeOK, [Next]_poolVars,
         ~(\E p \in Proofs, ext \in ExtDatas, sender \in Accounts : Transact(p, ext, sender))
  PROVE  /\ UNCHANGED <<treeVars, nullifiers>>
         /\ balances'[PoolAccount] >= balances[PoolAccount]
         /\ balances'[PoolAccount] \in Nat /\ balances[PoolAccount] \in Nat
  <1>0. balances[PoolAccount] \in Nat
    BY FieldAssumption DEF TypeOK, Holders
  <1>1. CASE \E from \in Accounts, to \in Holders : \E v \in 1 .. balances[from] :
               Transfer(from, to, v)
    BY <1>1, TransferType
  <1>2. CASE PolicyNext \/ UNCHANGED poolVars
    <2>1. UNCHANGED <<treeVars, nullifiers, balances>>
      BY <1>2, PolicyKeepsPool DEF poolVars
    <2>2. QED
      BY <1>0, <2>1
  <1>3. QED
    BY <1>1, <1>2 DEF Next

---------------------------------------------------------------------------
(***************************************************************************)
(* One call, one conjunct of the invariant at a time.                      *)
(***************************************************************************)

\* Two nullifiers that were not in the map and differ make it two larger.
LEMMA TransactBurnsTwo ==
  ASSUME TypeOK, TwoNullifiersPerCall, NEW p \in Proofs, NEW ext \in ExtDatas,
         NEW sender \in Accounts, Transact(p, ext, sender)
  PROVE  TwoNullifiersPerCall'
  <1> DEFINE first == p.inputNullifiers[1]
             second == p.inputNullifiers[2]
  <1>1. first \notin nullifiers /\ second \notin nullifiers /\ first # second
    <2>1. Residue(first) # Residue(second)
      BY ChecksPassed DEF Transact, Circuit
    <2>2. first # second
      BY <2>1
    <2>3. QED
      BY <2>2, ChecksPassed DEF Transact, IsSpent
  <1>2. IsFiniteSet(nullifiers) /\ Cardinality(nullifiers) = NextIndex
    BY DEF TwoNullifiersPerCall
  <1>3. NextIndex' = NextIndex + 2 /\ NextIndex \in Nat
    BY ProofTypes, TwoMoreLeaves DEF Transact, TypeOK
  <1>4. /\ IsFiniteSet(nullifiers \cup {first})
        /\ Cardinality(nullifiers \cup {first}) = NextIndex + 1
    BY <1>1, <1>2, FS_AddElement
  <1>5. second \notin nullifiers \cup {first}
    BY <1>1
  <1>6. /\ IsFiniteSet((nullifiers \cup {first}) \cup {second})
        /\ Cardinality((nullifiers \cup {first}) \cup {second}) = NextIndex + 1 + 1
    BY <1>4, <1>5, FS_AddElement
  <1>7. nullifiers' = (nullifiers \cup {first}) \cup {second}
    BY DEF Transact
  <1>8. QED
    BY <1>3, <1>6, <1>7 DEF TwoNullifiersPerCall

\* A leaf once inserted stays where it is.
LEMMA LeavesStay ==
  ASSUME TreeTypeOK, NEW c0 \in Commitments, NEW c1 \in Commitments,
         InsertTwoLeaves(c0, c1), NEW i \in 1 .. Len(leaves)
  PROVE  i \in 1 .. Len(leaves') /\ leaves'[i] = leaves[i]
  BY DEF TreeTypeOK, InsertTwoLeaves

LEMMA TransactSpendsLeaves ==
  ASSUME TypeOK, RingInv, SpentNotesExist, NEW p \in Proofs, NEW ext \in ExtDatas,
         NEW sender \in Accounts, Transact(p, ext, sender)
  PROVE  SpentNotesExist'
  <1>1. TreeTypeOK
    BY DEF TypeOK
  <1>2. InsertTwoLeaves(p.outputCommitments[1], p.outputCommitments[2])
    BY DEF Transact
  <1>3. NextIndex \in Nat /\ NextIndex' = NextIndex + 2 /\ NextIndex = Len(leaves)
    BY <1>1, <1>2, ProofTypes, TwoMoreLeaves DEF NextIndex
  <1>4. \A i \in 1 .. Len(leaves) : leaves'[i] = leaves[i]
    BY <1>1, <1>2, ProofTypes, LeavesStay
  <1>5. ASSUME NEW n \in nullifiers', n.note.amount # 0
        PROVE  n.index \in LeafIndices /\ leaves[n.index + 1] = n.note
    <2>1. CASE n \in nullifiers
      BY <1>5, <2>1 DEF SpentNotesExist
    <2>2. CASE n \notin nullifiers
      <3>1. PICK i \in 1 .. 2 : n = p.inputNullifiers[i]
        BY <2>2 DEF Transact
      <3>2. InputHolds(p, n)
        BY <3>1, ChecksPassed DEF Transact, Circuit
      <3>3. PathLeadsTo(p.root, n.note, n.index)
        BY <1>5, <3>2 DEF InputHolds
      <3>4. p.root # ForeignRoot
        <4>1. PICK s \in Slots : roots[s] = p.root
          BY ChecksPassed DEF Transact, IsKnownRoot
        <4>2. roots[s] \in Nat \cup {NoRoot}
          BY <1>1 DEF TreeTypeOK
        <4>3. QED
          BY <4>1, <4>2 DEF NoRoot, ForeignRoot
      <3>5. p.root \in 0 .. NextIndex /\ n.index < p.root /\ leaves[n.index + 1] = n.note
        BY <3>3, <3>4 DEF PathLeadsTo
      <3>6. n.index \in Nat
        BY <3>1, ProofTypes DEF Nullifiers
      <3>7. QED
        BY <1>3, <3>5, <3>6 DEF LeafIndices
    <2>3. QED
      BY <2>1, <2>2
  <1>6. QED
    BY <1>3, <1>4, <1>5 DEF SpentNotesExist, LeafIndices

LEMMA TransactRange ==
  ASSUME TypeOK, AmountsInRange, NEW p \in Proofs, NEW ext \in ExtDatas,
         NEW sender \in Accounts, Transact(p, ext, sender)
  PROVE  AmountsInRange'
  <1>1. leaves \in Seq(Commitments)
    BY DEF TypeOK, TreeTypeOK
  <1>2. leaves' = leaves \o <<p.outputCommitments[1], p.outputCommitments[2]>>
    BY DEF Transact, InsertTwoLeaves
  <1>3. \A i \in 1 .. 2 : p.outputCommitments[i].amount < MaxExtAmount
    BY ChecksPassed DEF Transact, Circuit
  <1>4. ASSUME NEW i \in 1 .. Len(leaves') PROVE leaves'[i].amount < MaxExtAmount
    <2>1. CASE i \in 1 .. Len(leaves)
      BY <1>1, <1>2, <2>1 DEF AmountsInRange
    <2>2. CASE i = Len(leaves) + 1
      BY <1>1, <1>2, <1>3, <2>2
    <2>3. CASE i = Len(leaves) + 2
      BY <1>1, <1>2, <1>3, <2>3
    <2>4. QED
      BY <1>1, <1>2, <2>1, <2>2, <2>3
  <1>5. QED
    BY <1>4 DEF AmountsInRange

LEMMA PoolInvInit == Init => PoolInv
  <1> SUFFICES ASSUME Init PROVE PoolInv
    OBVIOUS
  <1>1. RingInv /\ TreeTypeOK
    BY RingInit DEF Init, RingInv
  <1>2. TypeOK
    <2>1. balances \in [Holders -> 0 .. MaxI128]
      BY AccountsAssumption, FieldAssumption DEF Init, Holders
    <2>2. QED
      BY <1>1, <2>1 DEF Init, TypeOK
  <1>3. TwoNullifiersPerCall
    BY FS_EmptySet DEF Init, TreeInit, TwoNullifiersPerCall, NextIndex
  <1>4. SpentNotesExist /\ AmountsInRange
    BY DEF Init, TreeInit, SpentNotesExist, AmountsInRange
  <1>5. QED
    BY <1>1, <1>2, <1>3, <1>4 DEF PoolInv

LEMMA PoolInvStep == PoolInv /\ [Next]_poolVars => PoolInv'
  <1> SUFFICES ASSUME PoolInv, [Next]_poolVars PROVE PoolInv'
    OBVIOUS
  <1> USE DEF PoolInv
  <1>1. ASSUME NEW p \in Proofs, NEW ext \in ExtDatas, NEW sender \in Accounts,
               Transact(p, ext, sender)
        PROVE  PoolInv'
    <2>1. RingInv'
      BY <1>1, ProofTypes, RingStep DEF Transact
    <2>2. TypeOK'
      BY <1>1, <2>1, TransactType
    <2>3. TwoNullifiersPerCall' /\ SpentNotesExist' /\ AmountsInRange'
      BY <1>1, TransactBurnsTwo, TransactSpendsLeaves, TransactRange
    <2>4. QED
      BY <2>1, <2>2, <2>3
  <1>2. ASSUME UNCHANGED <<treeVars, nullifiers>>
        PROVE  (RingInv /\ TwoNullifiersPerCall /\ SpentNotesExist /\ AmountsInRange)'
    BY <1>2, RingStutter DEF treeVars, TwoNullifiersPerCall, SpentNotesExist, AmountsInRange,
                             NextIndex, LeafIndices
  <1>3. CASE PolicyNext
    BY <1>2, <1>3, PolicyType, PolicyKeepsPool
  <1>4. ASSUME NEW from \in Accounts, NEW to \in Holders, NEW v \in 1 .. balances[from],
               Transfer(from, to, v)
        PROVE  PoolInv'
    BY <1>2, <1>4, TransferType
  <1>5. CASE UNCHANGED poolVars
    BY <1>2, <1>5 DEF poolVars, policyVars, treeVars, TypeOK, TreeTypeOK
  <1>6. QED
    BY <1>1, <1>3, <1>4, <1>5 DEF Next

LEMMA PoolInvariant == Spec => []PoolInv
  BY PoolInvInit, PoolInvStep, PTL DEF Spec

---------------------------------------------------------------------------
(***************************************************************************)
(* The field equation of the circuit is an equation of integers: the range *)
(* check keeps every sum below the modulus.                                *)
(***************************************************************************)
LEMMA SmallModulo ==
  ASSUME NEW m \in Nat \ {0}, NEW x \in 0 .. m - 1
  PROVE  x % m = x /\ (x + m) % m = x
  <1>1. x % m = x
    BY SMT
  <1>2. (x + m) % m = x
    BY SMT
  <1>3. QED
    BY <1>1, <1>2

LEMMA FieldEquationIsInteger ==
  ASSUME NEW a \in Nat, NEW b \in Nat, NEW c \in Nat, NEW d \in Nat, NEW x \in Int,
         a < MaxExtAmount, b < MaxExtAmount, c < MaxExtAmount, d < MaxExtAmount,
         -MaxExtAmount < x, x < MaxExtAmount,
         (a + b + CalculatePublicAmount(x)) % FieldSize = (c + d) % FieldSize
  PROVE  a + b + x = c + d
  <1>1. FieldSize \in Nat \ {0} /\ MaxExtAmount \in Nat /\ FieldSize >= 4 * MaxExtAmount
    BY FieldAssumption
  <1>2. c + d \in 0 .. FieldSize - 1 /\ (c + d) % FieldSize = c + d
    <2>1. c + d \in 0 .. FieldSize - 1
      BY <1>1
    <2>2. QED
      BY <1>1, <2>1, SmallModulo
  <1>3. CASE x >= 0
    <2>1. CalculatePublicAmount(x) = x
      BY <1>3 DEF CalculatePublicAmount
    <2>2. a + b + x \in 0 .. FieldSize - 1
      BY <1>1, <1>3
    <2>3. QED
      BY <1>1, <1>2, <2>1, <2>2, SmallModulo
  <1>4. CASE x < 0
    <2>1. CalculatePublicAmount(x) = FieldSize + x
      BY <1>1, <1>4 DEF CalculatePublicAmount, Magnitude
    <2>2. CASE a + b + x >= 0
      <3>1. a + b + x \in 0 .. FieldSize - 1
        BY <1>1, <1>4, <2>2
      <3>2. a + b + CalculatePublicAmount(x) = (a + b + x) + FieldSize
        BY <1>1, <2>1
      <3>3. QED
        BY <1>1, <1>2, <3>1, <3>2, SmallModulo
    <2>3. CASE a + b + x < 0
      <3>1. a + b + FieldSize + x \in 0 .. FieldSize - 1
        BY <1>1, <2>3
      <3>2. (a + b + FieldSize + x) % FieldSize = a + b + FieldSize + x
        BY <1>1, <3>1, SmallModulo
      <3>3. a + b + CalculatePublicAmount(x) = a + b + FieldSize + x
        BY <1>1, <2>1
      <3>4. a + b + FieldSize + x = c + d
        BY <1>2, <3>2, <3>3
      <3>5. QED
        BY <1>1, <3>4
    <2>4. QED
      BY <2>2, <2>3
  <1>5. QED
    BY <1>3, <1>4

\* An input that passed the circuit has an amount the range check bounded.
LEMMA InputInRange ==
  ASSUME PoolInv, NEW p \in Proofs, NEW n \in Nullifiers,
         IsKnownRoot(p.root), InputHolds(p, n)
  PROVE  n.note.amount \in Nat /\ n.note.amount < MaxExtAmount
  <1>1. n.note.amount \in Nat
    BY DEF Nullifiers, Notes, Field
  <1>2. CASE n.note.amount = 0
    BY <1>1, <1>2, FieldAssumption
  <1>3. CASE n.note.amount # 0
    <2>1. PICK s \in Slots : roots[s] = p.root
      BY DEF IsKnownRoot
    <2>2. p.root # ForeignRoot
      BY <2>1 DEF PoolInv, RingInv, TreeTypeOK, NoRoot, ForeignRoot
    <2>3. p.root \in 0 .. NextIndex /\ n.index < p.root /\ leaves[n.index + 1] = n.note
      BY <1>3, <2>2 DEF InputHolds, PathLeadsTo
    <2>4. n.index \in Nat /\ Len(leaves) \in Nat
      BY DEF Nullifiers, PoolInv, TypeOK, TreeTypeOK
    <2>5. n.index + 1 \in 1 .. Len(leaves)
      BY <2>3, <2>4 DEF NextIndex
    <2>6. QED
      BY <1>1, <2>3, <2>5 DEF PoolInv, AmountsInRange
  <1>4. QED
    BY <1>2, <1>3

(***************************************************************************)
(* A successful transact call creates no value: what its two inputs hold   *)
(* and what enters from outside is what its two outputs hold.  The circuit *)
(* checks this in the field, where a sum can wrap; with every amount below *)
(* 2^248 none does.                                                        *)
(***************************************************************************)
THEOREM CallConservesValue ==
  ASSUME PoolInv, NEW p \in Proofs, NEW ext \in ExtDatas, NEW sender \in Accounts,
         Transact(p, ext, sender)
  PROVE  p.inputNullifiers[1].note.amount + p.inputNullifiers[2].note.amount + ext.amount
           = p.outputCommitments[1].amount + p.outputCommitments[2].amount
  <1>1. /\ IsKnownRoot(p.root) /\ Circuit(p)
        /\ p.publicAmount = CalculatePublicAmount(ext.amount)
        /\ ~(Magnitude(ext.amount) >= MaxExtAmount)
    BY ChecksPassed DEF Transact
  <1>2. /\ p.inputNullifiers[1].note.amount \in Nat
        /\ p.inputNullifiers[1].note.amount < MaxExtAmount
        /\ p.inputNullifiers[2].note.amount \in Nat
        /\ p.inputNullifiers[2].note.amount < MaxExtAmount
    BY <1>1, ProofTypes, InputInRange DEF Circuit
  <1>3. /\ p.outputCommitments[1].amount \in Nat
        /\ p.outputCommitments[1].amount < MaxExtAmount
        /\ p.outputCommitments[2].amount \in Nat
        /\ p.outputCommitments[2].amount < MaxExtAmount
    BY <1>1, ProofTypes, CommitmentsAssumption DEF Circuit, Notes, Field
  <1>4. ext.amount \in Int /\ -MaxExtAmount < ext.amount /\ ext.amount < MaxExtAmount
    BY <1>1, FieldAssumption DEF ExtDatas, Magnitude
  <1> DEFINE a == p.inputNullifiers[1].note.amount
             b == p.inputNullifiers[2].note.amount
             c == p.outputCommitments[1].amount
             d == p.outputCommitments[2].amount
             x == ext.amount
  <1>5. (a + b + CalculatePublicAmount(x)) % FieldSize = (c + d) % FieldSize
    BY <1>1 DEF Circuit, AmountsBalance
  <1>6. /\ a \in Nat /\ b \in Nat /\ c \in Nat /\ d \in Nat /\ x \in Int
        /\ a < MaxExtAmount /\ b < MaxExtAmount /\ c < MaxExtAmount /\ d < MaxExtAmount
        /\ -MaxExtAmount < x /\ x < MaxExtAmount
    BY <1>2, <1>3, <1>4
  <1> HIDE DEF a, b, c, d, x
  <1>7. a + b + x = c + d
    BY <1>5, <1>6, FieldEquationIsInteger
  <1>8. QED
    BY <1>7 DEF a, b, c, d, x

---------------------------------------------------------------------------
(***************************************************************************)
(* Every value the contracts store has its type; in particular no balance  *)
(* ever goes below zero and the ring index stays inside the ring.          *)
(***************************************************************************)
THEOREM PoolTypeCorrect == Spec => []TypeOK
  <1>1. PoolInv => TypeOK
    BY DEF PoolInv
  <1>2. QED
    BY <1>1, PoolInvariant, PTL

\* Canonical nullifiers that differ differ as elements of the field.
LEMMA CanonicalAreFresh == PoolInv => EveryInputIsFresh
  <1> SUFFICES ASSUME PoolInv, Canonical
               PROVE  /\ IsFiniteSet(nullifiers)
                      /\ Cardinality({Residue(n) : n \in nullifiers}) = NextIndex
    BY DEF EveryInputIsFresh
  <1> DEFINE R == {Residue(n) : n \in nullifiers}
             f == [n \in nullifiers |-> Residue(n)]
  <1>1. IsFiniteSet(nullifiers) /\ Cardinality(nullifiers) = NextIndex
    BY DEF PoolInv, TwoNullifiersPerCall
  <1>2. ASSUME NEW m \in nullifiers, NEW n \in nullifiers, Residue(m) = Residue(n)
        PROVE  m = n
    <2>1. m \in Nullifiers /\ n \in Nullifiers /\ m.wraps = 0 /\ n.wraps = 0
      BY DEF PoolInv, TypeOK, Canonical
    <2>2. m.note = n.note /\ m.index = n.index
      BY <1>2 DEF Residue
    <2>3. QED
      BY <2>1, <2>2 DEF Nullifiers
  <1>3. f \in [nullifiers -> R] /\ \A t \in R : \E n \in nullifiers : f[n] = t
    OBVIOUS
  <1>4. \A m, n \in nullifiers : f[m] = f[n] => m = n
    BY <1>2
  <1> HIDE DEF f, R
  <1>5. f \in Bijection(nullifiers, R)
    BY <1>3, <1>4 DEF Bijection, Injection, IsInjective, Surjection
  <1>6. ExistsBijection(nullifiers, R)
    BY <1>5 DEF ExistsBijection
  <1>7. Cardinality(R) = Cardinality(nullifiers)
    BY <1>1, <1>6, FS_Bijection
  <1>8. QED
    BY <1>1, <1>7 DEF R

(***************************************************************************)
(* As long as nullifiers come as elements of the field, no input is ever   *)
(* consumed twice: the map holds two new ones for each successful          *)
(* transact call, and no two are the same element.                         *)
(***************************************************************************)
THEOREM PoolNeverSpendsTwice == Spec => []EveryInputIsFresh
  <1>1. PoolInv => EveryInputIsFresh
    BY CanonicalAreFresh
  <1>2. QED
    BY <1>1, PoolInvariant, PTL

(***************************************************************************)
(* Nothing is spent that is not in the tree at the leaf its nullifier      *)
(* names: an old root of the ring still only opens real leaves.            *)
(***************************************************************************)
THEOREM PoolSpendsOnlyLeaves == Spec => []SpentNotesExist
  <1>1. PoolInv => SpentNotesExist
    BY DEF PoolInv
  <1>2. QED
    BY <1>1, PoolInvariant, PTL

(***************************************************************************)
(* Every amount in the tree is below 2^248.                                *)
(***************************************************************************)
THEOREM PoolAmountsInRange == Spec => []AmountsInRange
  <1>1. PoolInv => AmountsInRange
    BY DEF PoolInv
  <1>2. QED
    BY <1>1, PoolInvariant, PTL

(***************************************************************************)
(* The pool accepts proofs against exactly the last ROOT_HISTORY_SIZE      *)
(* roots of its tree, whatever calls are made.                             *)
(***************************************************************************)
THEOREM PoolKnowsRecentRoots == Spec => []KnownRootsAreRecent
  <1>1. PoolInv => KnownRootsAreRecent
    BY RingKnowsRecentRoots DEF PoolInv
  <1>2. QED
    BY <1>1, PoolInvariant, PTL

(***************************************************************************)
(* A key the live policy contracts do not admit loses nothing: each        *)
(* nullifier is marked in a state that admits its key.                     *)
(***************************************************************************)
THEOREM PoolHonoursPolicy == Spec => OnlyAdmittedKeysSpend
  <1>1. ASSUME [Next]_poolVars, NEW n \in nullifiers' \ nullifiers
        PROVE  n.note.key \in AdmittedKeys
    <2>1. PICK p \in Proofs, ext \in ExtDatas, sender \in Accounts : Transact(p, ext, sender)
      BY <1>1, PolicyKeepsPool DEF Next, Transfer, poolVars
    <2>2. PICK i \in 1 .. 2 : n = p.inputNullifiers[i]
      BY <2>1 DEF Transact
    <2>3. InputHolds(p, n) /\ PolicyRootsAreLive(p)
      BY <2>1, <2>2, ChecksPassed DEF Transact, Circuit
    <2>4. QED
      BY <2>3 DEF InputHolds, PolicyRootsAreLive, AdmittedKeys
  <1>2. [Next]_poolVars => [\A n \in nullifiers' \ nullifiers : n.note.key \in AdmittedKeys]_poolVars
    BY <1>1
  <1>3. QED
    BY <1>2, PTL DEF Spec, OnlyAdmittedKeysSpend

\* What each of the leaves still holds.
Holds(i) == IF i \in Unspent THEN leaves[i + 1].amount ELSE 0
Held == [i \in LeafIndices |-> Holds(i)]

LEMMA LeafTypes ==
  ASSUME TypeOK
  PROVE  /\ NextIndex \in Nat /\ IsFiniteSet(LeafIndices) /\ Unspent \in SUBSET LeafIndices
         /\ \A i \in LeafIndices : leaves[i + 1] \in Notes /\ leaves[i + 1].amount \in Nat
  <1>1. NextIndex \in Nat /\ NextIndex = Len(leaves) /\ leaves \in Seq(Notes)
    BY CommitmentsAssumption DEF TypeOK, TreeTypeOK, NextIndex
  <1>2. IsFiniteSet(LeafIndices)
    BY <1>1, FS_Interval DEF LeafIndices
  <1>3. ASSUME NEW i \in LeafIndices
        PROVE  leaves[i + 1] \in Notes /\ leaves[i + 1].amount \in Nat
    <2>1. i + 1 \in 1 .. Len(leaves)
      BY <1>1 DEF LeafIndices
    <2>2. leaves[i + 1] \in Notes
      BY <1>1, <2>1
    <2>3. QED
      BY <2>2, FieldAssumption DEF Notes, Field
  <1>4. QED
    BY <1>1, <1>2, <1>3 DEF Unspent

\* The value of the unspent notes, summed over all leaves.
LEMMA HeldIsUnspent ==
  ASSUME TypeOK
  PROVE  SumFunctionOnSet(Held, LeafIndices) = SumFunctionOnSet(LeafAmounts, Unspent)
  <1>1. \A i \in Unspent : Held[i] = LeafAmounts[i] /\ LeafAmounts[i] \in Int
    BY LeafTypes DEF Held, Holds, LeafAmounts
  <1>2. \A i \in LeafIndices \ Unspent : Held[i] = 0
    BY DEF Held, Holds
  <1>3. QED
    BY <1>1, <1>2, LeafTypes, SumOfSupport

(***************************************************************************)
(* Marking one nullifier: the leaf it names, if its note has an amount at  *)
(* all, holds nothing any more.                                            *)
(***************************************************************************)
LEMMA BurnTakesAmount ==
  ASSUME TypeOK, NEW n \in Nullifiers, n.wraps = 0,
         n.note.amount # 0 => n.index \in LeafIndices /\ leaves[n.index + 1] = n.note,
         NEW v, \A i \in LeafIndices : v[i] \in Nat,
         \A i \in LeafIndices : NullifierOf(i) = n => v[i] = n.note.amount,
         NEW w, \A i \in LeafIndices : w[i] = IF NullifierOf(i) = n THEN 0 ELSE v[i]
  PROVE  SumFunctionOnSet(w, LeafIndices) = SumFunctionOnSet(v, LeafIndices) - n.note.amount
  <1>0. IsFiniteSet(LeafIndices)
    BY LeafTypes
  <1>1. CASE n.note.amount = 0
    <2>1. \A i \in LeafIndices : w[i] = v[i]
      BY <1>1
    <2>2. SumFunctionOnSet(w, LeafIndices) = SumFunctionOnSet(v, LeafIndices)
      BY <1>0, <2>1, SumCongruence
    <2>3. SumFunctionOnSet(v, LeafIndices) \in Int
      <3>1. \A i \in LeafIndices : v[i] \in Int
        OBVIOUS
      <3>2. QED
        BY <1>0, <3>1, SumType
    <2>4. QED
      BY <1>1, <2>2, <2>3
  <1>2. CASE n.note.amount # 0
    <2>1. n.index \in LeafIndices /\ leaves[n.index + 1] = n.note
      BY <1>2
    <2>2. NullifierOf(n.index) = n
      BY <2>1 DEF NullifierOf, Nullifiers
    <2>3. w[n.index] = 0 /\ v[n.index] = n.note.amount
      BY <2>1, <2>2
    <2>4. \A i \in LeafIndices : i # n.index => w[i] = v[i]
      BY DEF NullifierOf
    <2>5. \A i \in LeafIndices : v[i] \in Int
      OBVIOUS
    <2>6. SumFunctionOnSet(w, LeafIndices) = SumFunctionOnSet(v, LeafIndices) - v[n.index]
      BY <1>0, <2>1, <2>3, <2>4, <2>5, SumWithout
    <2>7. QED
      BY <2>3, <2>6
  <1>3. QED
    BY <1>1, <1>2

\* Marking nullifiers only ever makes fewer of them canonical.
LEMMA CanonicalBefore ==
  ASSUME NEW p \in Proofs, NEW ext \in ExtDatas, NEW sender \in Accounts,
         Transact(p, ext, sender), Canonical'
  PROVE  Canonical
  BY DEF Transact, Canonical

\* The inputs of a call that succeeds: fresh, and in the tree unless their
\* amount is zero.
LEMMA InputsOfCall ==
  ASSUME PoolInv, NEW p \in Proofs, NEW ext \in ExtDatas, NEW sender \in Accounts,
         Transact(p, ext, sender), NEW n \in {p.inputNullifiers[1], p.inputNullifiers[2]}
  PROVE  /\ n \in Nullifiers /\ n \notin nullifiers /\ n \in nullifiers'
         /\ n.note.amount # 0 => n.index \in LeafIndices /\ leaves[n.index + 1] = n.note
         /\ Canonical' => n.wraps = 0
  <1>1. n \in Nullifiers
    BY ProofTypes
  <1>2. n \notin nullifiers /\ n \in nullifiers'
    BY ChecksPassed DEF Transact, IsSpent
  <1>3. ASSUME n.note.amount # 0
        PROVE  n.index \in LeafIndices /\ leaves[n.index + 1] = n.note
    <2>1. IsKnownRoot(p.root) /\ InputHolds(p, n)
      BY ChecksPassed DEF Transact, Circuit
    <2>2. p.root # ForeignRoot
      BY <2>1 DEF IsKnownRoot, PoolInv, TypeOK, TreeTypeOK, NoRoot, ForeignRoot
    <2>3. p.root \in 0 .. NextIndex /\ n.index < p.root /\ leaves[n.index + 1] = n.note
      BY <1>3, <2>1, <2>2 DEF InputHolds, PathLeadsTo
    <2>4. n.index \in Nat /\ NextIndex \in Nat
      BY <1>1, LeafTypes DEF Nullifiers, PoolInv
    <2>5. QED
      BY <2>3, <2>4 DEF LeafIndices
  <1>4. Canonical' => n.wraps = 0
    BY <1>2 DEF Canonical
  <1>5. QED
    BY <1>1, <1>2, <1>3, <1>4

\* What the old leaves hold after the first nullifier of a call is marked,
\* and after both are.
HeldAfter(n, v) == [i \in LeafIndices |-> IF NullifierOf(i) = n THEN 0 ELSE v[i]]

LEMMA OldLeavesLoseInputs ==
  ASSUME PoolInv, Canonical', NEW p \in Proofs, NEW ext \in ExtDatas, NEW sender \in Accounts,
         Transact(p, ext, sender), NEW w,
         w = HeldAfter(p.inputNullifiers[2], HeldAfter(p.inputNullifiers[1], Held))
  PROVE  SumFunctionOnSet(w, LeafIndices)
           = (SumFunctionOnSet(Held, LeafIndices) - p.inputNullifiers[1].note.amount)
               - p.inputNullifiers[2].note.amount
  <1> DEFINE n1 == p.inputNullifiers[1]
             n2 == p.inputNullifiers[2]
             v == HeldAfter(n1, Held)
  <1>1. TypeOK
    BY DEF PoolInv
  <1>2. n1 # n2
    <2>1. Residue(n1) # Residue(n2)
      BY ChecksPassed DEF Transact, Circuit
    <2>2. QED
      BY <2>1
  <1>3. /\ n1 \in Nullifiers /\ n1 \notin nullifiers /\ n1.wraps = 0
        /\ n1.note.amount # 0 => n1.index \in LeafIndices /\ leaves[n1.index + 1] = n1.note
        /\ n2 \in Nullifiers /\ n2 \notin nullifiers /\ n2.wraps = 0
        /\ n2.note.amount # 0 => n2.index \in LeafIndices /\ leaves[n2.index + 1] = n2.note
    BY InputsOfCall
  <1>4. w = HeldAfter(n2, v)
    OBVIOUS
  <1> HIDE DEF n1, n2
  <1>5. \A i \in LeafIndices : Held[i] \in Nat
    BY <1>1, LeafTypes DEF Held, Holds
  <1>6. \A i \in LeafIndices : NullifierOf(i) = n1 => Held[i] = n1.note.amount
    BY <1>3 DEF Held, Holds, Unspent, NullifierOf
  <1>7. \A i \in LeafIndices : v[i] = IF NullifierOf(i) = n1 THEN 0 ELSE Held[i]
    BY DEF HeldAfter
  <1>8. SumFunctionOnSet(v, LeafIndices) = SumFunctionOnSet(Held, LeafIndices) - n1.note.amount
    <2> HIDE DEF v
    <2>1. QED
      BY <1>1, <1>3, <1>5, <1>6, <1>7, BurnTakesAmount
  <1>9. \A i \in LeafIndices : v[i] \in Nat
    BY <1>5, <1>7
  <1>10. \A i \in LeafIndices : NullifierOf(i) = n2 => v[i] = n2.note.amount
    <2>1. \A i \in LeafIndices : NullifierOf(i) = n2 => Held[i] = n2.note.amount
      BY <1>3 DEF Held, Holds, Unspent, NullifierOf
    <2>2. QED
      BY <1>2, <1>7, <2>1
  <1>11. \A i \in LeafIndices : w[i] = IF NullifierOf(i) = n2 THEN 0 ELSE v[i]
    BY <1>4 DEF HeldAfter
  <1>12. SumFunctionOnSet(w, LeafIndices) = SumFunctionOnSet(v, LeafIndices) - n2.note.amount
    <2> HIDE DEF v
    <2>1. QED
      BY <1>1, <1>3, <1>9, <1>10, <1>11, BurnTakesAmount
  <1>13. QED
    BY <1>8, <1>12 DEF n1, n2

\* After a call an old leaf holds what it held, unless its nullifier was one
\* of the two; the two new leaves hold the amounts of the outputs.
LEMMA HeldAfterCall ==
  ASSUME PoolInv, NEW p \in Proofs, NEW ext \in ExtDatas, NEW sender \in Accounts,
         Transact(p, ext, sender), NEW w,
         w = HeldAfter(p.inputNullifiers[2], HeldAfter(p.inputNullifiers[1], Held))
  PROVE  /\ \A i \in LeafIndices : Held'[i] = w[i]
         /\ Held'[NextIndex] = p.outputCommitments[1].amount
         /\ Held'[NextIndex + 1] = p.outputCommitments[2].amount
         /\ LeafIndices' = (LeafIndices \cup {NextIndex}) \cup {NextIndex + 1}
  <1> DEFINE n1 == p.inputNullifiers[1]
             n2 == p.inputNullifiers[2]
  <1>1. TypeOK /\ NextIndex \in Nat /\ NextIndex = Len(leaves) /\ leaves \in Seq(Commitments)
    BY LeafTypes DEF PoolInv, TypeOK, TreeTypeOK, NextIndex
  <1>2. /\ leaves' = leaves \o <<p.outputCommitments[1], p.outputCommitments[2]>>
        /\ nullifiers' = nullifiers \cup {n1, n2}
    BY DEF Transact, InsertTwoLeaves
  <1>3. NextIndex' = NextIndex + 2
    BY <1>1, <1>2 DEF NextIndex
  <1>4. LeafIndices' = (LeafIndices \cup {NextIndex}) \cup {NextIndex + 1}
    BY <1>1, <1>3 DEF LeafIndices
  <1>5. ASSUME NEW i \in LeafIndices
        PROVE  Held'[i] = w[i]
    <2>1. leaves'[i + 1] = leaves[i + 1] /\ NullifierOf(i)' = NullifierOf(i) /\ i \in LeafIndices'
      <3>1. i \in LeafIndices'
        BY <1>4
      <3>2. i + 1 \in 1 .. Len(leaves)
        BY <1>1 DEF LeafIndices
      <3>3. leaves'[i + 1] = leaves[i + 1]
        BY <1>1, <1>2, <3>2
      <3>4. QED
        BY <3>1, <3>3 DEF NullifierOf
    <2>2. i \in Unspent' <=> i \in Unspent /\ NullifierOf(i) # n1 /\ NullifierOf(i) # n2
      BY <1>2, <2>1 DEF Unspent
    <2>3. Held'[i] = IF i \in Unspent' THEN leaves[i + 1].amount ELSE 0
      BY <2>1 DEF Held, Holds
    <2>4. w[i] = IF NullifierOf(i) = n2 THEN 0
                 ELSE IF NullifierOf(i) = n1 THEN 0
                 ELSE IF i \in Unspent THEN leaves[i + 1].amount ELSE 0
      BY DEF HeldAfter, Held, Holds
    <2>5. QED
      BY <2>2, <2>3, <2>4
  <1>6. ASSUME NEW i \in {NextIndex, NextIndex + 1}
        PROVE  Held'[i] = leaves'[i + 1].amount
    <2>1. i \in LeafIndices'
      BY <1>4, <1>6
    <2>2. Held'[i] = IF i \in Unspent' THEN leaves'[i + 1].amount ELSE 0
      BY <2>1 DEF Held, Holds
    <2>3. CASE i \in Unspent'
      BY <2>2, <2>3
    <2>4. CASE i \notin Unspent'
      <3>1. NullifierOf(i)' \in nullifiers'
        BY <2>1, <2>4 DEF Unspent
      <3>2. NullifierOf(i)' = [note |-> leaves'[i + 1], index |-> i, wraps |-> 0]
        BY DEF NullifierOf
      <3>3. NullifierOf(i)'.index = i /\ NullifierOf(i)'.note = leaves'[i + 1]
        BY <3>2
      <3>4. i \notin LeafIndices
        BY <1>1, <1>6 DEF LeafIndices
      <3>5. NullifierOf(i)'.note.amount = 0
        <4>1. SUFFICES ASSUME NullifierOf(i)'.note.amount # 0 PROVE FALSE
          OBVIOUS
        <4>2. CASE NullifierOf(i)' \in nullifiers
          BY <3>3, <3>4, <4>1, <4>2 DEF PoolInv, SpentNotesExist
        <4>3. CASE NullifierOf(i)' \in {n1, n2}
          BY <3>3, <3>4, <4>1, <4>3, InputsOfCall
        <4>4. QED
          BY <1>2, <3>1, <4>2, <4>3
      <3>6. QED
        BY <2>2, <2>4, <3>3, <3>5
    <2>5. QED
      BY <2>3, <2>4
  <1>7. /\ leaves'[NextIndex + 1] = p.outputCommitments[1]
        /\ leaves'[(NextIndex + 1) + 1] = p.outputCommitments[2]
    BY <1>1, <1>2
  <1>8. QED
    BY <1>4, <1>5, <1>6, <1>7

(***************************************************************************)
(* A call changes the value of the unspent notes by what enters or leaves, *)
(* its nullifiers being canonical.                                         *)
(***************************************************************************)
LEMMA CallMovesHeld ==
  ASSUME PoolInv, Canonical', NEW p \in Proofs, NEW ext \in ExtDatas, NEW sender \in Accounts,
         Transact(p, ext, sender)
  PROVE  SumFunctionOnSet(Held', LeafIndices')
           = SumFunctionOnSet(Held, LeafIndices) + ext.amount
  <1> DEFINE n1 == p.inputNullifiers[1]
             n2 == p.inputNullifiers[2]
             o1 == p.outputCommitments[1]
             o2 == p.outputCommitments[2]
             w == HeldAfter(n2, HeldAfter(n1, Held))
             N == NextIndex
             old == SumFunctionOnSet(Held, LeafIndices)
  <1>1. TypeOK /\ N \in Nat /\ IsFiniteSet(LeafIndices)
    BY LeafTypes DEF PoolInv
  <1>2. /\ n1.note.amount \in Int /\ n2.note.amount \in Int /\ ext.amount \in Int
        /\ o1.amount \in Int /\ o2.amount \in Int
    <2>1. FieldSize \in Nat
      BY FieldAssumption
    <2>2. n1 \in Nullifiers /\ n2 \in Nullifiers /\ o1 \in Notes /\ o2 \in Notes
      BY ProofTypes, CommitmentsAssumption
    <2>3. n1.note \in Notes /\ n2.note \in Notes
      BY <2>2 DEF Nullifiers
    <2>4. QED
      BY <2>1, <2>2, <2>3 DEF Notes, Field, ExtDatas
  <1>3. /\ \A i \in LeafIndices : Held'[i] = w[i]
        /\ Held'[N] = o1.amount /\ Held'[N + 1] = o2.amount
        /\ LeafIndices' = (LeafIndices \cup {N}) \cup {N + 1}
    BY HeldAfterCall
  <1>4. SumFunctionOnSet(w, LeafIndices) = (old - n1.note.amount) - n2.note.amount
    BY OldLeavesLoseInputs
  <1>5. n1.note.amount + n2.note.amount + ext.amount = o1.amount + o2.amount
    BY CallConservesValue
  <1>6. \A i \in LeafIndices : Held[i] \in Int /\ w[i] \in Int
    BY <1>1, LeafTypes DEF Held, Holds, HeldAfter
  <1>7. old \in Int
    BY <1>1, <1>6, SumType
  <1> HIDE DEF n1, n2, o1, o2, w, old
  <1>8. SumFunctionOnSet(Held', LeafIndices) = SumFunctionOnSet(w, LeafIndices)
    BY <1>1, <1>3, SumCongruence
  <1>9. SumFunctionOnSet(Held', LeafIndices \cup {N})
          = o1.amount + SumFunctionOnSet(Held', LeafIndices)
    <2>1. N \notin LeafIndices
      BY <1>1 DEF LeafIndices
    <2>2. \A i \in LeafIndices \cup {N} : Held'[i] \in Int
      BY <1>2, <1>3, <1>6
    <2>3. SumFunctionOnSet(Held', LeafIndices \cup {N})
            = Held'[N] + SumFunctionOnSet(Held', LeafIndices)
      BY <1>1, <2>1, <2>2, SumAddsElement
    <2>4. QED
      BY <1>3, <2>3
  <1>10. SumFunctionOnSet(Held', LeafIndices')
           = o2.amount + SumFunctionOnSet(Held', LeafIndices \cup {N})
    <2>1. IsFiniteSet(LeafIndices \cup {N})
      BY <1>1, FS_AddElement
    <2>2. N + 1 \notin LeafIndices \cup {N}
      BY <1>1 DEF LeafIndices
    <2>3. \A i \in (LeafIndices \cup {N}) \cup {N + 1} : Held'[i] \in Int
      BY <1>2, <1>3, <1>6
    <2>4. SumFunctionOnSet(Held', (LeafIndices \cup {N}) \cup {N + 1})
            = Held'[N + 1] + SumFunctionOnSet(Held', LeafIndices \cup {N})
      <3> HIDE DEF N
      <3>1. QED
        BY <2>1, <2>2, <2>3, SumAddsElement
    <2>5. QED
      BY <1>3, <2>4
  <1>11. SumFunctionOnSet(Held', LeafIndices')
           = o2.amount + (o1.amount + ((old - n1.note.amount) - n2.note.amount))
    BY <1>4, <1>8, <1>9, <1>10
  <1>12. o2.amount + (o1.amount + ((old - n1.note.amount) - n2.note.amount)) = old + ext.amount
    BY <1>2, <1>5, <1>7
  <1>13. QED
    BY <1>11, <1>12 DEF old

\* The tokens of the pool change by the same amount, in or out; what the pool
\* sends to itself stays.
LEMMA CallMovesTokens ==
  ASSUME TypeOK, NEW p \in Proofs, NEW ext \in ExtDatas, NEW sender \in Accounts,
         Transact(p, ext, sender)
  PROVE  /\ balances'[PoolAccount] >= balances[PoolAccount] + ext.amount
         /\ balances'[PoolAccount] \in Int /\ balances[PoolAccount] \in Int
         /\ ext.amount \in Int
  <1>1. balances \in [Holders -> 0 .. MaxI128] /\ PoolAccount \in Holders /\ MaxI128 \in Nat
        /\ sender \in Holders /\ sender # PoolAccount
    BY AccountsAssumption, FieldAssumption DEF TypeOK, Holders
  <1>2. ext.amount \in Int /\ ext.recipient \in Holders /\ balances' = Payment(ext, sender)
    BY DEF ExtDatas, Transact
  <1>3. CASE ext.amount > 0
    BY <1>1, <1>2, <1>3 DEF Payment, Moved
  <1>4. CASE ext.amount = 0
    BY <1>1, <1>2, <1>4 DEF Payment
  <1>5. CASE ext.amount < 0 /\ ext.recipient = PoolAccount
    BY <1>1, <1>2, <1>5 DEF Payment, Moved
  <1>6. CASE ext.amount < 0 /\ ext.recipient # PoolAccount
    BY <1>1, <1>2, <1>6 DEF Payment, Moved
  <1>7. QED
    BY <1>2, <1>3, <1>4, <1>5, <1>6

---------------------------------------------------------------------------
(***************************************************************************)
(* Value is conserved in whatever form the nullifiers come.                *)
(***************************************************************************)
ReleasedBy == [n \in nullifiers |-> n.note.amount]

\* Each nullifier of a call releases its note's amount.
LEMMA CallReleases ==
  ASSUME PoolInv, NEW p \in Proofs, NEW ext \in ExtDatas, NEW sender \in Accounts,
         Transact(p, ext, sender)
  PROVE  /\ Released \in Int
         /\ Released' = p.inputNullifiers[2].note.amount
                          + (p.inputNullifiers[1].note.amount + Released)
  <1> DEFINE n1 == p.inputNullifiers[1]
             n2 == p.inputNullifiers[2]
             f == ReleasedBy
             g == ReleasedBy'
  <1>1. IsFiniteSet(nullifiers)
    BY DEF PoolInv, TwoNullifiersPerCall
  <1>2. n1 \notin nullifiers /\ n2 \notin nullifiers \cup {n1}
    <2>1. Residue(n1) # Residue(n2)
      BY ChecksPassed DEF Transact, Circuit
    <2>2. n1 # n2
      BY <2>1
    <2>3. QED
      BY <2>2, InputsOfCall
  <1>3. nullifiers' = (nullifiers \cup {n1}) \cup {n2}
    BY DEF Transact
  <1>4. n1 \in Nullifiers /\ n2 \in Nullifiers /\ nullifiers \subseteq Nullifiers
    BY ProofTypes DEF PoolInv, TypeOK
  <1>5. \A n \in Nullifiers : n.note.amount \in Int
    BY FieldAssumption DEF Nullifiers, Notes, Field
  <1>6. \A n \in nullifiers : f[n] = n.note.amount
    BY DEF ReleasedBy
  <1>7. \A n \in (nullifiers \cup {n1}) \cup {n2} : g[n] = n.note.amount
    BY <1>3 DEF ReleasedBy
  <1>8. Released = SumFunctionOnSet(f, nullifiers)
        /\ Released' = SumFunctionOnSet(g, (nullifiers \cup {n1}) \cup {n2})
    BY <1>3 DEF Released, ReleasedBy
  <1> HIDE DEF n1, n2, f, g
  <1>9. \A n \in nullifiers : f[n] \in Int
    BY <1>4, <1>5, <1>6
  <1>10. \A n \in (nullifiers \cup {n1}) \cup {n2} : g[n] \in Int
    BY <1>4, <1>5, <1>7
  <1>11. SumFunctionOnSet(f, nullifiers) \in Int
    BY <1>1, <1>9, SumType
  <1>12. SumFunctionOnSet(g, nullifiers) = SumFunctionOnSet(f, nullifiers)
    <2>1. \A n \in nullifiers : g[n] = f[n]
      BY <1>6, <1>7
    <2>2. QED
      BY <1>1, <2>1, SumCongruence
  <1>13. SumFunctionOnSet(g, nullifiers \cup {n1}) = g[n1] + SumFunctionOnSet(g, nullifiers)
    BY <1>1, <1>2, <1>10, SumAddsElement
  <1>14. SumFunctionOnSet(g, (nullifiers \cup {n1}) \cup {n2})
           = g[n2] + SumFunctionOnSet(g, nullifiers \cup {n1})
    <2>1. IsFiniteSet(nullifiers \cup {n1})
      BY <1>1, FS_AddElement
    <2>2. QED
      BY <1>2, <1>10, <2>1, SumAddsElement
  <1>15. g[n1] = n1.note.amount /\ g[n2] = n2.note.amount
    BY <1>7
  <1>16. QED
    BY <1>8, <1>11, <1>12, <1>13, <1>14, <1>15 DEF n1, n2

\* Both outputs of a call become leaves.
LEMMA CallInserts ==
  ASSUME PoolInv, NEW p \in Proofs, NEW ext \in ExtDatas, NEW sender \in Accounts,
         Transact(p, ext, sender)
  PROVE  /\ Inserted \in Int
         /\ Inserted' = p.outputCommitments[2].amount
                          + (p.outputCommitments[1].amount + Inserted)
  <1> DEFINE o1 == p.outputCommitments[1]
             o2 == p.outputCommitments[2]
             N == NextIndex
             f == LeafAmounts
             g == LeafAmounts'
  <1>1. TypeOK /\ N \in Nat /\ N = Len(leaves) /\ leaves \in Seq(Commitments)
        /\ IsFiniteSet(LeafIndices)
    BY LeafTypes DEF PoolInv, TypeOK, TreeTypeOK, NextIndex
  <1>2. leaves' = leaves \o <<o1, o2>>
    BY DEF Transact, InsertTwoLeaves
  <1>3. LeafIndices' = (LeafIndices \cup {N}) \cup {N + 1}
    <2>1. PICK w : w = HeldAfter(p.inputNullifiers[2], HeldAfter(p.inputNullifiers[1], Held))
      OBVIOUS
    <2>2. QED
      BY <2>1, HeldAfterCall
  <1>4. \A i \in LeafIndices : f[i] = leaves[i + 1].amount /\ f[i] \in Int
    BY <1>1, LeafTypes DEF LeafAmounts
  <1>5. \A i \in LeafIndices : leaves'[i + 1] = leaves[i + 1]
    <2>1. ASSUME NEW i \in LeafIndices PROVE leaves'[i + 1] = leaves[i + 1]
      <3>1. i + 1 \in 1 .. Len(leaves)
        BY <1>1 DEF LeafIndices
      <3>2. QED
        BY <1>1, <1>2, <3>1
    <2>2. QED
      BY <2>1
  <1>6. leaves'[N + 1] = o1 /\ leaves'[(N + 1) + 1] = o2
    BY <1>1, <1>2
  <1>7. \A i \in (LeafIndices \cup {N}) \cup {N + 1} : g[i] = leaves'[i + 1].amount
    BY <1>3 DEF LeafAmounts
  <1>8. o1.amount \in Int /\ o2.amount \in Int
    <2>1. FieldSize \in Nat /\ o1 \in Notes /\ o2 \in Notes
      BY FieldAssumption, ProofTypes, CommitmentsAssumption
    <2>2. QED
      BY <2>1 DEF Notes, Field
  <1>9. Inserted = SumFunctionOnSet(f, LeafIndices)
        /\ Inserted' = SumFunctionOnSet(g, (LeafIndices \cup {N}) \cup {N + 1})
    BY <1>3 DEF Inserted
  <1>10. N \notin LeafIndices /\ N + 1 \notin LeafIndices \cup {N}
    BY <1>1 DEF LeafIndices
  <1>11. /\ \A i \in LeafIndices : g[i] = f[i]
         /\ g[N] = o1.amount /\ g[N + 1] = o2.amount
    BY <1>4, <1>5, <1>6, <1>7
  <1> HIDE DEF o1, o2, N, f, g
  <1>12. \A i \in (LeafIndices \cup {N}) \cup {N + 1} : g[i] \in Int
    BY <1>4, <1>8, <1>11
  <1>13. SumFunctionOnSet(f, LeafIndices) \in Int
    BY <1>1, <1>4, SumType
  <1>14. SumFunctionOnSet(g, LeafIndices) = SumFunctionOnSet(f, LeafIndices)
    BY <1>1, <1>11, SumCongruence
  <1>15. SumFunctionOnSet(g, LeafIndices \cup {N}) = g[N] + SumFunctionOnSet(g, LeafIndices)
    BY <1>1, <1>10, <1>12, SumAddsElement
  <1>16. SumFunctionOnSet(g, (LeafIndices \cup {N}) \cup {N + 1})
           = g[N + 1] + SumFunctionOnSet(g, LeafIndices \cup {N})
    <2>1. IsFiniteSet(LeafIndices \cup {N})
      BY <1>1, FS_AddElement
    <2>2. QED
      BY <1>10, <1>12, <2>1, SumAddsElement
  <1>17. QED
    BY <1>9, <1>11, <1>13, <1>14, <1>15, <1>16 DEF o1, o2

LEMMA ConservedInit == Init => ValueIsConserved
  <1> SUFFICES ASSUME Init PROVE ValueIsConserved
    OBVIOUS
  <1>1. LeafIndices = {} /\ nullifiers = {}
    BY DEF Init, TreeInit, NextIndex, LeafIndices
  <1>2. Released = 0 /\ Inserted = 0
    BY <1>1, SumOfNothing DEF Released, Inserted
  <1>3. balances[PoolAccount] = 0
    BY DEF Init, Holders
  <1>4. QED
    BY <1>2, <1>3 DEF ValueIsConserved

LEMMA ConservedStep == PoolInv /\ ValueIsConserved /\ [Next]_poolVars => ValueIsConserved'
  <1> SUFFICES ASSUME PoolInv, ValueIsConserved, [Next]_poolVars PROVE ValueIsConserved'
    OBVIOUS
  <1>1. TypeOK
    BY DEF PoolInv
  <1>2. ASSUME NEW p \in Proofs, NEW ext \in ExtDatas, NEW sender \in Accounts,
               Transact(p, ext, sender)
        PROVE  ValueIsConserved'
    <2> DEFINE a == p.inputNullifiers[1].note.amount
               b == p.inputNullifiers[2].note.amount
               c == p.outputCommitments[1].amount
               d == p.outputCommitments[2].amount
    <2>1. a + b + ext.amount = c + d
      BY <1>2, CallConservesValue
    <2>2. a \in Int /\ b \in Int /\ c \in Int /\ d \in Int
      <3>1. FieldSize \in Nat
        BY FieldAssumption
      <3>2. /\ p.inputNullifiers[1] \in Nullifiers /\ p.inputNullifiers[2] \in Nullifiers
            /\ p.outputCommitments[1] \in Notes /\ p.outputCommitments[2] \in Notes
        BY ProofTypes, CommitmentsAssumption
      <3>3. QED
        BY <3>1, <3>2 DEF Nullifiers, Notes, Field
    <2>3. Released \in Int /\ Released' = b + (a + Released)
      BY <1>2, CallReleases
    <2>4. Inserted \in Int /\ Inserted' = d + (c + Inserted)
      BY <1>2, CallInserts
    <2>5. /\ balances'[PoolAccount] >= balances[PoolAccount] + ext.amount
          /\ balances'[PoolAccount] \in Int /\ balances[PoolAccount] \in Int
          /\ ext.amount \in Int
      BY <1>1, <1>2, CallMovesTokens
    <2>6. balances[PoolAccount] + Released >= Inserted
      BY DEF ValueIsConserved
    <2> HIDE DEF a, b, c, d
    <2>7. balances'[PoolAccount] + Released' >= Inserted'
      BY <2>1, <2>2, <2>3, <2>4, <2>5, <2>6
    <2>8. QED
      BY <2>7 DEF ValueIsConserved
  <1>3. CASE ~(\E p \in Proofs, ext \in ExtDatas, sender \in Accounts : Transact(p, ext, sender))
    <2>1. /\ UNCHANGED <<treeVars, nullifiers>>
          /\ balances'[PoolAccount] >= balances[PoolAccount]
          /\ balances'[PoolAccount] \in Nat /\ balances[PoolAccount] \in Nat
      BY <1>1, <1>3, OthersKeepPool
    <2>2. Released' = Released /\ Inserted' = Inserted
      BY <2>1 DEF Released, Inserted, LeafAmounts, LeafIndices, NextIndex, treeVars
    <2>3. Released \in Int /\ Inserted \in Int
      <3>1. IsFiniteSet(nullifiers) /\ nullifiers \subseteq Nullifiers
        BY DEF PoolInv, TwoNullifiersPerCall, TypeOK
      <3>2. \A n \in nullifiers : ReleasedBy[n] \in Int
        BY <3>1, FieldAssumption DEF ReleasedBy, Nullifiers, Notes, Field
      <3>3. Released \in Int
        BY <3>1, <3>2, SumType DEF Released, ReleasedBy
      <3>4. IsFiniteSet(LeafIndices) /\ \A i \in LeafIndices : LeafAmounts[i] \in Int
        BY <1>1, LeafTypes DEF LeafAmounts
      <3>5. Inserted \in Int
        BY <3>4, SumType DEF Inserted
      <3>6. QED
        BY <3>3, <3>5
    <2>4. QED
      BY <2>1, <2>2, <2>3 DEF ValueIsConserved
  <1>4. QED
    BY <1>2, <1>3

(***************************************************************************)
(* Whatever form nullifiers come in, every amount ever inserted is still a *)
(* token of the pool or was released by a nullifier in the map.            *)
(***************************************************************************)
THEOREM PoolConservesValue == Spec => []ValueIsConserved
  <1>1. Init => PoolInv /\ ValueIsConserved
    BY PoolInvInit, ConservedInit
  <1>2. PoolInv /\ ValueIsConserved /\ [Next]_poolVars => (PoolInv /\ ValueIsConserved)'
    BY PoolInvStep, ConservedStep
  <1>3. QED
    BY <1>1, <1>2, PTL DEF Spec

---------------------------------------------------------------------------
(***************************************************************************)
(* Solvency, while nullifiers are canonical.                               *)
(***************************************************************************)
LEMMA SolventInit == Init => Solvent
  <1> SUFFICES ASSUME Init PROVE Solvent
    OBVIOUS
  <1>1. LeafIndices = {}
    BY DEF Init, TreeInit, NextIndex, LeafIndices
  <1>2. Unspent = {}
    BY <1>1 DEF Unspent
  <1>3. SumFunctionOnSet(LeafAmounts, Unspent) = 0
    BY <1>2, SumOfNothing
  <1>4. balances[PoolAccount] = 0
    BY DEF Init, Holders
  <1>5. QED
    BY <1>3, <1>4 DEF Solvent

\* The value of the unspent notes is a number.
LEMMA UnspentIsNat ==
  ASSUME TypeOK
  PROVE  SumFunctionOnSet(LeafAmounts, Unspent) \in Nat
  <1>1. IsFiniteSet(Unspent)
    BY LeafTypes, FS_Subset
  <1>2. \A i \in Unspent : LeafAmounts[i] \in Nat
    BY LeafTypes DEF LeafAmounts
  <1>3. QED
    BY <1>1, <1>2, SumNat

\* A call changes the value of the unspent notes by what it moves.
LEMMA CallMovesUnspent ==
  ASSUME PoolInv, TypeOK', Canonical', NEW p \in Proofs, NEW ext \in ExtDatas,
         NEW sender \in Accounts, Transact(p, ext, sender)
  PROVE  SumFunctionOnSet(LeafAmounts', Unspent')
           = SumFunctionOnSet(LeafAmounts, Unspent) + ext.amount
  <1>1. TypeOK
    BY DEF PoolInv
  <1>2. SumFunctionOnSet(Held, LeafIndices) = SumFunctionOnSet(LeafAmounts, Unspent)
    BY <1>1, HeldIsUnspent
  <1>3. (SumFunctionOnSet(Held, LeafIndices) = SumFunctionOnSet(LeafAmounts, Unspent))'
    BY HeldIsUnspent, PTL
  <1>4. SumFunctionOnSet(Held', LeafIndices')
          = SumFunctionOnSet(Held, LeafIndices) + ext.amount
    BY CallMovesHeld
  <1>5. QED
    BY <1>2, <1>3, <1>4

LEMMA SolventStep == PoolInv /\ Solvent /\ [Next]_poolVars => Solvent'
  <1> SUFFICES ASSUME PoolInv, Solvent, [Next]_poolVars, Canonical'
               PROVE  balances'[PoolAccount] >= SumFunctionOnSet(LeafAmounts', Unspent')
    BY DEF Solvent
  <1>1. TypeOK /\ TypeOK'
    BY PoolInvStep DEF PoolInv
  <1>2. SumFunctionOnSet(LeafAmounts, Unspent) \in Nat
    BY <1>1, UnspentIsNat
  <1>3. ASSUME NEW p \in Proofs, NEW ext \in ExtDatas, NEW sender \in Accounts,
               Transact(p, ext, sender)
        PROVE  balances'[PoolAccount] >= SumFunctionOnSet(LeafAmounts', Unspent')
    <2>1. balances[PoolAccount] >= SumFunctionOnSet(LeafAmounts, Unspent)
      BY <1>3, CanonicalBefore DEF Solvent
    <2>2. SumFunctionOnSet(LeafAmounts', Unspent')
            = SumFunctionOnSet(LeafAmounts, Unspent) + ext.amount
      BY <1>1, <1>3, CallMovesUnspent
    <2>3. /\ balances'[PoolAccount] >= balances[PoolAccount] + ext.amount
          /\ balances'[PoolAccount] \in Int /\ balances[PoolAccount] \in Int
          /\ ext.amount \in Int
      BY <1>1, <1>3, CallMovesTokens
    <2>4. QED
      BY <1>2, <2>1, <2>2, <2>3
  <1>4. CASE ~(\E p \in Proofs, ext \in ExtDatas, sender \in Accounts : Transact(p, ext, sender))
    <2>1. /\ UNCHANGED <<treeVars, nullifiers>>
          /\ balances'[PoolAccount] >= balances[PoolAccount]
          /\ balances'[PoolAccount] \in Nat /\ balances[PoolAccount] \in Nat
      BY <1>1, <1>4, OthersKeepPool
    <2>2. SumFunctionOnSet(LeafAmounts', Unspent') = SumFunctionOnSet(LeafAmounts, Unspent)
          /\ Canonical
      BY <2>1 DEF Unspent, LeafIndices, LeafAmounts, NullifierOf, NextIndex, treeVars, Canonical
    <2>3. QED
      BY <1>2, <2>1, <2>2 DEF Solvent
  <1>5. QED
    BY <1>3, <1>4

(***************************************************************************)
(* As long as nullifiers come as elements of the field, the pool holds the *)
(* tokens of all its unspent notes, after any mix of deposits, transfers,  *)
(* withdrawals and tokens sent to it.                                      *)
(***************************************************************************)
THEOREM PoolIsSolvent == Spec => []Solvent
  <1>1. Init => PoolInv /\ Solvent
    BY PoolInvInit, SolventInit
  <1>2. PoolInv /\ Solvent /\ [Next]_poolVars => (PoolInv /\ Solvent)'
    BY PoolInvStep, SolventStep
  <1>3. QED
    BY <1>1, <1>2, PTL DEF Spec

---------------------------------------------------------------------------
(***************************************************************************)
(* A withdrawal of an unspent note passes every check of transact.         *)
(***************************************************************************)

\* Leaves inserted were leaves that fit.
LeavesFit == NextIndex > 0 => NextIndex <= Capacity

LEMMA LeavesFitStep == PoolInv /\ LeavesFit /\ [Next]_poolVars => LeavesFit'
  <1> SUFFICES ASSUME PoolInv, LeavesFit, [Next]_poolVars PROVE LeavesFit'
    OBVIOUS
  <1>1. Capacity \in Int /\ NextIndex \in Nat
    BY LevelsAssumption, LeafTypes DEF Capacity, PoolInv
  <1>2. ASSUME NEW p \in Proofs, NEW ext \in ExtDatas, NEW sender \in Accounts,
               Transact(p, ext, sender)
        PROVE  LeavesFit'
    <2>1. ~(NextIndex + 2 > Capacity)
      BY <1>2, ChecksPassed DEF Transact, TreeIsFull
    <2>2. NextIndex' = NextIndex + 2
      BY <1>2, ProofTypes, TwoMoreLeaves DEF Transact, PoolInv, TypeOK
    <2>3. QED
      BY <1>1, <2>1, <2>2 DEF LeavesFit, Capacity
  <1>3. ASSUME UNCHANGED treeVars PROVE LeavesFit'
    BY <1>3 DEF LeavesFit, Capacity, NextIndex, treeVars
  <1>4. QED
    BY <1>2, <1>3, OthersKeepPool DEF PoolInv

\* A spender can always pad a call with a zero-amount input not used before:
\* the blindings outnumber the nullifiers marked.
LEMMA FreshPadding ==
  ASSUME PoolInv, LeavesFit, NextIndex > 0, NEW k \in Keys
  PROVE  \E b \in Blindings :
           [note |-> [amount |-> 0, key |-> k, blinding |-> b], index |-> 0, wraps |-> 0]
             \notin nullifiers
  <1> DEFINE Pad(b) == [note |-> [amount |-> 0, key |-> k, blinding |-> b], index |-> 0, wraps |-> 0]
             f == [b \in Blindings |-> Pad(b)]
  <1>1. SUFFICES ASSUME \A b \in Blindings : Pad(b) \in nullifiers PROVE FALSE
    OBVIOUS
  <1>2. f \in [Blindings -> nullifiers]
    BY <1>1
  <1>3. \A a, b \in Blindings : f[a] = f[b] => a = b
    <2>1. ASSUME NEW a \in Blindings, NEW b \in Blindings, f[a] = f[b] PROVE a = b
      <3>1. Pad(a).note.blinding = Pad(b).note.blinding
        BY <2>1
      <3>2. QED
        BY <3>1
    <2>2. QED
      BY <2>1
  <1>4. f \in Injection(Blindings, nullifiers)
    BY <1>2, <1>3 DEF Injection, IsInjective
  <1>5. IsFiniteSet(nullifiers) /\ Cardinality(nullifiers) = NextIndex
    BY DEF PoolInv, TwoNullifiersPerCall
  <1> HIDE DEF f
  <1>6. IsFiniteSet(Blindings) /\ Cardinality(Blindings) <= NextIndex
    BY <1>4, <1>5, FS_Injection
  <1>7. Cardinality(Blindings) > Capacity /\ Capacity \in Int /\ NextIndex \in Nat
    BY <1>6, BlindingsAssumption, LevelsAssumption, LeafTypes DEF Capacity, PoolInv
  <1>8. Cardinality(Blindings) \in Nat
    BY <1>6, FS_CardinalityType
  <1>9. QED
    BY <1>6, <1>7, <1>8 DEF LeavesFit

\* The root a wallet reads is accepted and is the root of every leaf.
LEMMA LastRootIsKnown ==
  ASSUME PoolInv
  PROVE  IsKnownRoot(LastRoot) /\ LastRoot = NextIndex
  <1>1. rootIndex \in Slots /\ NextIndex \in Nat /\ rootIndex \in Int
    BY LeafTypes DEF PoolInv, TypeOK, TreeTypeOK, Slots
  <1>2. Age(rootIndex) = 0
    BY <1>1 DEF Age
  <1>3. roots[rootIndex] = NextIndex
    BY <1>1, <1>2 DEF PoolInv, RingInv
  <1>4. QED
    BY <1>1, <1>3 DEF IsKnownRoot, LastRoot, NoRoot

\* The pool holds the amount of every unspent note.
LEMMA PoolCoversNote ==
  ASSUME TypeOK, Solvent, Canonical, NEW i \in Unspent
  PROVE  /\ leaves[i + 1].amount <= balances[PoolAccount]
         /\ balances[PoolAccount] \in 0 .. MaxI128
  <1>1. IsFiniteSet(Unspent)
    BY LeafTypes, FS_Subset
  <1>2. \A j \in Unspent : LeafAmounts[j] \in Nat /\ LeafAmounts[j] = leaves[j + 1].amount
    BY LeafTypes DEF LeafAmounts
  <1>3. LeafAmounts[i] <= SumFunctionOnSet(LeafAmounts, Unspent)
    BY <1>1, <1>2, SumBoundsElement
  <1>4. balances[PoolAccount] \in 0 .. MaxI128 /\ MaxI128 \in Nat
    BY FieldAssumption DEF TypeOK, Holders
  <1>5. balances[PoolAccount] >= SumFunctionOnSet(LeafAmounts, Unspent)
    BY DEF Solvent
  <1>6. SumFunctionOnSet(LeafAmounts, Unspent) \in Nat
    BY UnspentIsNat
  <1>7. QED
    BY <1>2, <1>3, <1>4, <1>5, <1>6

\* A withdrawal's field equation: the amount and its negation make the modulus.
LEMMA WithdrawalBalances ==
  ASSUME NEW v \in Nat, v > 0, v < MaxExtAmount
  PROVE  /\ CalculatePublicAmount(-v) = FieldSize - v
         /\ (v + 0 + (FieldSize - v)) % FieldSize = (0 + 0) % FieldSize
  <1>1. FieldSize \in Nat \ {0}
    BY FieldAssumption
  <1>2. CalculatePublicAmount(-v) = FieldSize - v
    BY DEF CalculatePublicAmount, Magnitude
  <1>3. v + 0 + (FieldSize - v) = 0 + FieldSize /\ 0 + 0 = 0 /\ 0 \in 0 .. FieldSize - 1
    BY <1>1
  <1>4. 0 % FieldSize = 0 /\ (0 + FieldSize) % FieldSize = 0
    BY <1>1, <1>3, SmallModulo
  <1>5. QED
    BY <1>2, <1>3, <1>4

LEMMA UnspentWithdraws ==
  ASSUME PoolInv, LeavesFit, Solvent, Canonical, NEW i \in Unspent, NEW a \in Accounts,
         leaves[i + 1].amount > 0, CanReceive(a, leaves[i + 1].amount),
         leaves[i + 1].key \in AdmittedKeys
  PROVE  \E spare \in Blindings :
           TransactError(Withdrawal(i, a, spare).proof, Withdrawal(i, a, spare).ext, a)
             = IF TreeIsFull THEN "MerkleTreeFull" ELSE "None"
  <1> DEFINE note == leaves[i + 1]
             v == note.amount
  <1>1. TypeOK /\ i \in LeafIndices /\ note \in Notes /\ v \in Nat /\ v > 0
        /\ note.key \in Keys /\ i \in Nat /\ i < NextIndex /\ NextIndex \in Nat /\ NextIndex > 0
    BY LeafTypes DEF PoolInv, Unspent, Notes, LeafIndices
  <1>2. PICK spare \in Blindings :
          [note |-> [amount |-> 0, key |-> note.key, blinding |-> spare], index |-> 0, wraps |-> 0]
            \notin nullifiers
    BY <1>1, FreshPadding
  <1> DEFINE w == Withdrawal(i, a, spare)
             p == w.proof
             ext == w.ext
             nothing == [amount |-> 0, key |-> note.key, blinding |-> spare]
             pad == [note |-> nothing, index |-> 0, wraps |-> 0]
  <1>3. ext.amount = -v /\ p.extDataHash = ext /\ p.root = LastRoot
        /\ p.publicAmount = CalculatePublicAmount(ext.amount)
        /\ p.membershipRoot = MemberRoot /\ p.nonMembershipRoot = NonMemberRoot
    BY DEF Withdrawal
  <1>4. /\ p.inputNullifiers[1] = NullifierOf(i) /\ p.inputNullifiers[2] = pad
        /\ p.outputCommitments[1] = nothing /\ p.outputCommitments[2] = nothing
    BY DEF Withdrawal
  <1>5. v < MaxExtAmount /\ MaxExtAmount \in Nat /\ MaxI128 \in Nat
    <2>1. i + 1 \in 1 .. Len(leaves)
      BY <1>1 DEF NextIndex
    <2>2. QED
      BY <2>1, FieldAssumption DEF PoolInv, AmountsInRange
  <1>6. NullifierOf(i).note = note /\ NullifierOf(i).index = i /\ NullifierOf(i) \notin nullifiers
    BY DEF NullifierOf, Unspent
  <1>7. note.key \in Range(MemberRoot) /\ note.key \notin NonMemberRoot
    BY DEF AdmittedKeys
  <1> HIDE DEF w
  <1>8. IsKnownRoot(p.root)
    BY <1>3, LastRootIsKnown
  <1>9. ~(\E j \in 1 .. 2 : IsSpent(p.inputNullifiers[j]))
    BY <1>2, <1>4, <1>6 DEF IsSpent
  <1>10. ~(ext.amount > 0) /\ ~(Magnitude(ext.amount) >= MaxExtAmount)
    BY <1>1, <1>3, <1>5 DEF Magnitude
  <1>11. PolicyRootsAreLive(p)
    BY <1>3 DEF PolicyRootsAreLive
  <1>12. Circuit(p)
    <2>1. InputHolds(p, NullifierOf(i))
      BY <1>1, <1>3, <1>6, <1>7, LastRootIsKnown DEF InputHolds, PathLeadsTo
    <2>2. InputHolds(p, pad)
      BY <1>3, <1>7 DEF InputHolds
    <2>3. Residue(NullifierOf(i)) # Residue(pad)
      BY <1>1, <1>6 DEF Residue
    <2>4. AmountsBalance(p.inputNullifiers, p.outputCommitments, p.publicAmount)
      <3>1. p.publicAmount = FieldSize - v
            /\ (v + 0 + (FieldSize - v)) % FieldSize = (0 + 0) % FieldSize
        BY <1>1, <1>3, <1>5, WithdrawalBalances
      <3>2. /\ p.inputNullifiers[1].note.amount = v /\ p.inputNullifiers[2].note.amount = 0
            /\ p.outputCommitments[1].amount = 0 /\ p.outputCommitments[2].amount = 0
        BY <1>4, <1>6
      <3>3. QED
        BY <3>1, <3>2 DEF AmountsBalance
    <2>5. \A j \in 1 .. 2 : p.outputCommitments[j].amount < MaxExtAmount
      BY <1>1, <1>4, <1>5
    <2>6. QED
      BY <1>4, <2>1, <2>2, <2>3, <2>4, <2>5 DEF Circuit
  <1>13. ~WithdrawalRefused(ext)
    <2>1. v <= balances[PoolAccount] /\ balances[PoolAccount] \in 0 .. MaxI128
      BY <1>1, PoolCoversNote
    <2>2. -ext.amount = v /\ ext.recipient = a /\ CanReceive(a, v)
      BY <1>1, <1>3 DEF w, Withdrawal
    <2>3. QED
      BY <1>1, <1>5, <2>1, <2>2 DEF WithdrawalRefused, FitsI128
  <1>14. TransactError(p, ext, a) = IF TreeIsFull THEN "MerkleTreeFull" ELSE "None"
    BY <1>3, <1>8, <1>9, <1>10, <1>11, <1>12, <1>13 DEF TransactError
  <1>15. QED
    BY <1>14 DEF w

(***************************************************************************)
(* Whatever calls were made before, with canonical nullifiers, the whole   *)
(* of an unspent note can be withdrawn against the current roots to an     *)
(* account with room for it while its key is admitted, unless the tree is  *)
(* full.                                                                   *)
(***************************************************************************)
THEOREM PoolNotesAreWithdrawable == Spec => []NotesAreWithdrawable
  <1>1. Init => PoolInv /\ Solvent /\ LeavesFit
    <2>1. Init => LeavesFit
      BY DEF Init, TreeInit, LeavesFit, NextIndex
    <2>2. QED
      BY <2>1, PoolInvInit, SolventInit
  <1>2. PoolInv /\ Solvent /\ LeavesFit /\ [Next]_poolVars => (PoolInv /\ Solvent /\ LeavesFit)'
    BY PoolInvStep, SolventStep, LeavesFitStep
  <1>3. PoolInv /\ Solvent /\ LeavesFit => NotesAreWithdrawable
    BY UnspentWithdraws DEF NotesAreWithdrawable
  <1>4. QED
    BY <1>1, <1>2, <1>3, PTL DEF Spec

---------------------------------------------------------------------------
(***************************************************************************)
(* The refinement: a call is a deposit, a withdrawal or a payment of the   *)
(* ledger, an operation of the policy contracts a change of its policy.    *)
(***************************************************************************)

\* The sum of the holdings of all keys.
LEMMA LedgerTotal ==
  ASSUME NEW h
  PROVE  Ledger!Total(h) = SumFunctionOnSet(h, Keys)
  BY DEF Ledger!Total, Ledger!SumFunctionOnSet, Ledger!FoldFunctionOnSet,
         Ledger!MapThenFoldSet, SumFunctionOnSet, FoldFunctionOnSet, MapThenFoldSet

\* What the refinement maps the ledger's holdings to.
Holdings == [k \in Keys |-> UnspentValue(k)]

\* The holdings of all keys are the value of the unspent notes.
LEMMA HoldingsAreUnspent ==
  ASSUME TypeOK
  PROVE  /\ Ledger!Total(Holdings) = SumFunctionOnSet(LeafAmounts, Unspent)
         /\ \A k \in Keys : UnspentValue(k) \in Nat
  <1> DEFINE h == Holdings
             class == [i \in Unspent |-> leaves[i + 1].key]
             part == [k \in Keys |-> UnspentOf(k)]
  <1>1. IsFiniteSet(Unspent)
    BY LeafTypes, FS_Subset
  <1>2. \A i \in Unspent : LeafAmounts[i] \in Nat /\ class[i] \in Keys
    BY LeafTypes DEF LeafAmounts, Notes
  <1>3. ASSUME NEW k \in Keys
        PROVE  /\ h[k] = SumFunctionOnSet(LeafAmounts, part[k])
               /\ part[k] \subseteq Unspent
               /\ \A i \in Unspent : i \in part[k] <=> class[i] = k
               /\ UnspentValue(k) \in Nat
    <2>1. /\ part[k] = UnspentOf(k)
          /\ \A i \in Unspent : i \in UnspentOf(k) <=> class[i] = k
      BY DEF UnspentOf
    <2>2. h[k] = UnspentValue(k) /\ UnspentValue(k) = SumFunctionOnSet(LeafAmounts, UnspentOf(k))
      BY DEF UnspentValue, Holdings
    <2>3. UnspentOf(k) \in SUBSET Unspent
      BY DEF UnspentOf
    <2>4. IsFiniteSet(UnspentOf(k)) /\ \A i \in UnspentOf(k) : LeafAmounts[i] \in Nat
      BY <1>1, <1>2, <2>3, FS_Subset
    <2>5. SumFunctionOnSet(LeafAmounts, UnspentOf(k)) \in Nat
      BY <2>4, SumNat
    <2>6. QED
      BY <2>1, <2>2, <2>3, <2>5
  <1> HIDE DEF h, class, part
  <1>4. SumFunctionOnSet(h, Keys) = SumFunctionOnSet(LeafAmounts, Unspent)
    <2>1. \A i \in Unspent : LeafAmounts[i] \in Int
      BY <1>2
    <2>2. \A i \in Unspent : class[i] \in Keys
      BY <1>2
    <2>3. /\ \A k \in Keys : h[k] = SumFunctionOnSet(LeafAmounts, part[k])
          /\ \A k \in Keys : part[k] \subseteq Unspent
          /\ \A k \in Keys : \A i \in Unspent : i \in part[k] <=> class[i] = k
      BY <1>3
    <2>4. QED
      BY <1>1, <2>1, <2>2, <2>3, KeysAssumption, SumByClass
  <1>5. QED
    BY <1>3, <1>4, LedgerTotal DEF h

\* A call takes nothing from a key the policy does not admit.
LEMMA CallSparesOthers ==
  ASSUME PoolInv, TypeOK', NEW p \in Proofs, NEW ext \in ExtDatas, NEW sender \in Accounts,
         Transact(p, ext, sender), NEW k \in Keys \ AdmittedKeys
  PROVE  UnspentValue(k)' >= UnspentValue(k)
  <1>1. ASSUME NEW i \in UnspentOf(k)
        PROVE  i \in UnspentOf(k)' /\ LeafAmounts'[i] = LeafAmounts[i]
    <2>1. TypeOK /\ i \in LeafIndices /\ NullifierOf(i) \notin nullifiers /\ leaves[i + 1].key = k
      BY DEF PoolInv, UnspentOf, Unspent
    <2>2. i + 1 \in 1 .. Len(leaves) /\ i \in Nat
      BY <2>1, LeafTypes DEF LeafIndices, NextIndex
    <2>3. leaves'[i + 1] = leaves[i + 1]
      BY <2>1, <2>2, ProofTypes, LeavesStay DEF Transact, TypeOK
    <2>4. i \in LeafIndices'
      BY <2>1, HeldAfterCall
    <2>5. NullifierOf(i)' = NullifierOf(i)
      BY <2>3 DEF NullifierOf
    <2>6. ASSUME NEW j \in 1 .. 2 PROVE NullifierOf(i) # p.inputNullifiers[j]
      <3>1. InputHolds(p, p.inputNullifiers[j]) /\ PolicyRootsAreLive(p)
        BY ChecksPassed DEF Transact, Circuit
      <3>2. p.inputNullifiers[j].note.key \in AdmittedKeys
        BY <3>1 DEF InputHolds, PolicyRootsAreLive, AdmittedKeys
      <3>3. NullifierOf(i).note.key = k
        BY <2>1 DEF NullifierOf
      <3>4. QED
        BY <3>2, <3>3
    <2>7. NullifierOf(i)' \notin nullifiers'
      BY <2>1, <2>5, <2>6 DEF Transact
    <2>8. i \in Unspent'
      BY <2>4, <2>7 DEF Unspent
    <2>9. QED
      BY <2>1, <2>3, <2>4, <2>8 DEF UnspentOf, LeafAmounts
  <1> DEFINE S == UnspentOf(k)
             S2 == UnspentOf(k)'
  <1>2. S \in SUBSET S2
    BY <1>1
  <1>3. IsFiniteSet(S2) /\ \A i \in S2 : LeafAmounts'[i] \in Nat
    <2>1. (/\ NextIndex \in Nat /\ IsFiniteSet(LeafIndices) /\ Unspent \in SUBSET LeafIndices
           /\ \A i \in LeafIndices : leaves[i + 1] \in Notes /\ leaves[i + 1].amount \in Nat)'
      BY LeafTypes, PTL
    <2>2. S2 \in SUBSET LeafIndices'
      BY <2>1 DEF UnspentOf
    <2>3. IsFiniteSet(S2)
      BY <2>1, <2>2, FS_Subset
    <2>4. \A i \in S2 : LeafAmounts'[i] = leaves'[i + 1].amount
      BY <2>2 DEF LeafAmounts
    <2>5. QED
      BY <2>1, <2>2, <2>3, <2>4
  <1>4. IsFiniteSet(S)
    BY <1>2, <1>3, FS_Subset
  <1> HIDE DEF S, S2
  <1>5. SumFunctionOnSet(LeafAmounts', S) <= SumFunctionOnSet(LeafAmounts', S2)
    BY <1>2, <1>3, SumOfPart
  <1>6. SumFunctionOnSet(LeafAmounts', S) = SumFunctionOnSet(LeafAmounts, S)
    <2>1. \A i \in S : LeafAmounts'[i] = LeafAmounts[i]
      BY <1>1 DEF S
    <2>2. QED
      BY <1>4, <2>1, SumCongruence
  <1>7. SumFunctionOnSet(LeafAmounts', S2) \in Nat /\ SumFunctionOnSet(LeafAmounts', S) \in Nat
    <2>1. \A i \in S : LeafAmounts'[i] \in Nat
      BY <1>2, <1>3
    <2>2. QED
      BY <1>3, <1>4, <2>1, SumNat
  <1>8. QED
    BY <1>5, <1>6, <1>7 DEF UnspentValue, S, S2

LEMMA AdmittedType == TypeOK => AdmittedKeys \in SUBSET Keys
  <1> SUFFICES ASSUME TypeOK PROVE Range(MemberRoot) \in SUBSET Keys
    BY DEF AdmittedKeys
  <1>1. MemberRoot \in Seq(Keys)
    BY DEF TypeOK, MemberRoot
  <1>2. QED
    BY <1>1 DEF Range

LEMMA LedgerInitMaps == Init => Ledger!LedgerInit
  <1> SUFFICES ASSUME Init PROVE Ledger!LedgerInit
    OBVIOUS
  <1>1. TypeOK
    BY PoolInvInit DEF PoolInv
  <1>2. balances \in [Holders -> Nat] /\ balances[PoolAccount] = 0
    BY <1>1, FieldAssumption DEF Init, TypeOK, Holders
  <1>3. ASSUME NEW k \in Keys PROVE UnspentValue(k) = 0
    <2>1. LeafIndices = {}
      BY DEF Init, TreeInit, NextIndex, LeafIndices
    <2>2. UnspentOf(k) = {}
      BY <2>1 DEF UnspentOf, Unspent
    <2>3. QED
      BY <2>2, SumOfNothing DEF UnspentValue
  <1>4. AdmittedKeys \in SUBSET Keys
    BY <1>1, AdmittedType
  <1>5. QED
    BY <1>2, <1>3, <1>4 DEF Ledger!LedgerInit, Ledger!Holders, Holders

\* The holdings a call leaves: those of a step of the ledger that gains what
\* the call brings in.
LEMMA CallRedistributes ==
  ASSUME PoolInv, TypeOK', Canonical', NEW p \in Proofs, NEW ext \in ExtDatas,
         NEW sender \in Accounts, Transact(p, ext, sender)
  PROVE  Ledger!Redistribute(ext.amount)
  <1>1. TypeOK
    BY DEF PoolInv
  <1>2. Ledger!Total(Holdings) = SumFunctionOnSet(LeafAmounts, Unspent)
    BY <1>1, HoldingsAreUnspent
  <1>3. (/\ Ledger!Total(Holdings) = SumFunctionOnSet(LeafAmounts, Unspent)
         /\ \A k \in Keys : UnspentValue(k) \in Nat)'
    BY HoldingsAreUnspent, PTL
  <1>4. SumFunctionOnSet(LeafAmounts', Unspent')
          = SumFunctionOnSet(LeafAmounts, Unspent) + ext.amount
    BY CallMovesUnspent
  <1>5. \A k \in Keys \ AdmittedKeys : UnspentValue(k)' >= UnspentValue(k)
    BY <1>1, CallSparesOthers
  <1>6. AdmittedKeys' = AdmittedKeys
    BY DEF Transact, policyVars, AdmittedKeys, MemberRoot, NonMemberRoot
  <1>7. Ledger!Total(Holdings)' = SumFunctionOnSet(Holdings', Keys)
        /\ Ledger!Total(Holdings') = SumFunctionOnSet(Holdings', Keys)
    BY LedgerTotal
  <1>8. Ledger!Total(Holdings') = Ledger!Total(Holdings) + ext.amount
    BY <1>2, <1>3, <1>4, <1>7
  <1>9. Holdings' \in [Keys -> Nat]
    BY <1>3 DEF Holdings
  <1>10. \A k \in Keys \ AdmittedKeys : Holdings'[k] >= Holdings[k]
    BY <1>5 DEF Holdings
  <1>11. QED
    BY <1>6, <1>8, <1>9, <1>10 DEF Ledger!Redistribute, Holdings

\* A call that brings tokens in is a deposit of its sender, one that sends
\* tokens out a withdrawal of its recipient, any other a payment.
LEMMA CallMaps ==
  ASSUME PoolInv, TypeOK', Canonical', NEW p \in Proofs, NEW ext \in ExtDatas,
         NEW sender \in Accounts, Transact(p, ext, sender)
  PROVE  Ledger!LedgerNext
  <1> DEFINE v == ext.amount
             to == ext.recipient
  <1>1. v \in Int /\ to \in Holders /\ sender # PoolAccount
    BY AccountsAssumption DEF ExtDatas
  <1>2. balances \in [Holders -> 0 .. MaxI128] /\ PoolAccount \in Holders /\ sender \in Holders
        /\ MaxI128 \in Nat
    BY FieldAssumption DEF PoolInv, TypeOK, Holders
  <1>3. /\ v > 0 => ~DepositRefused(ext, sender)
        /\ v < 0 => ~WithdrawalRefused(ext)
        /\ balances' = Payment(ext, sender)
    BY ChecksPassed DEF Transact
  <1>4. Ledger!Redistribute(v)
    BY CallRedistributes
  <1>5. CASE v > 0
    <2>1. balances[sender] >= v /\ v \in 1 .. balances[sender]
      BY <1>1, <1>2, <1>3, <1>5 DEF DepositRefused
    <2>2. balances' = [balances EXCEPT ![sender] = @ - v, ![PoolAccount] = @ + v]
      BY <1>1, <1>3, <1>5 DEF Payment, Moved
    <2>3. Ledger!Deposit(sender, v)
      BY <1>1, <1>4, <2>1, <2>2 DEF Ledger!Deposit, Ledger!Move
    <2>4. QED
      BY <2>1, <2>3 DEF Ledger!LedgerNext
  <1>6. CASE v < 0
    <2>1. balances[PoolAccount] >= -v /\ -v \in 1 .. balances[PoolAccount]
      BY <1>1, <1>2, <1>3, <1>6 DEF WithdrawalRefused
    <2>2. balances' = Moved(PoolAccount, to, -v)
      BY <1>1, <1>3, <1>6 DEF Payment
    <2>3. Ledger!Move(PoolAccount, to, -v)
      BY <2>1, <2>2 DEF Ledger!Move, Moved
    <2>4. Ledger!Redistribute(-(-v))
      <3>1. -(-v) = v
        BY <1>1
      <3>2. QED
        BY <1>4, <3>1
    <2>5. Ledger!Withdraw(to, -v)
      BY <2>3, <2>4 DEF Ledger!Withdraw
    <2>6. QED
      BY <1>1, <2>1, <2>5 DEF Ledger!LedgerNext, Ledger!Holders, Holders
  <1>7. CASE v = 0
    <2>1. balances' = balances
      BY <1>3, <1>7 DEF Payment
    <2>2. Ledger!Pay
      BY <1>4, <1>7, <2>1 DEF Ledger!Pay
    <2>3. QED
      BY <2>2 DEF Ledger!LedgerNext
  <1>8. QED
    BY <1>1, <1>5, <1>6, <1>7

LEMMA LedgerStepMaps ==
  PoolInv /\ [Next]_poolVars /\ Canonical' => [Ledger!LedgerNext]_(Ledger!ledgerVars)
  <1> SUFFICES ASSUME PoolInv, [Next]_poolVars, Canonical'
               PROVE  [Ledger!LedgerNext]_(Ledger!ledgerVars)
    OBVIOUS
  <1>1. TypeOK /\ TypeOK'
    BY PoolInvStep DEF PoolInv
  <1>2. ASSUME NEW p \in Proofs, NEW ext \in ExtDatas, NEW sender \in Accounts,
               Transact(p, ext, sender)
        PROVE  Ledger!LedgerNext
    BY <1>1, <1>2, CallMaps
  <1>3. ASSUME UNCHANGED <<treeVars, nullifiers>>
        PROVE  UNCHANGED Holdings
    BY <1>3 DEF Holdings, UnspentValue, UnspentOf, Unspent, LeafAmounts, LeafIndices,
                NullifierOf, NextIndex, treeVars
  <1>4. ASSUME NEW from \in Accounts, NEW to \in Holders, NEW v \in 1 .. balances[from],
               Transfer(from, to, v)
        PROVE  Ledger!LedgerNext
    <2>1. UNCHANGED <<Holdings, AdmittedKeys>>
      BY <1>3, <1>4 DEF Transfer, policyVars, AdmittedKeys, MemberRoot, NonMemberRoot
    <2>2. balances[from] >= v
      BY <1>4 DEF Transfer
    <2>3. Ledger!Transfer(from, to, v)
      BY <1>4, <2>1, <2>2 DEF Transfer, Moved, Ledger!Transfer, Ledger!Move, Holdings
    <2>4. QED
      BY <2>3 DEF Ledger!LedgerNext, Ledger!Holders, Holders
  <1>5. CASE PolicyNext
    <2>1. AdmittedKeys' \in SUBSET Keys
      <3>1. (AdmittedKeys \in SUBSET Keys)'
        BY <1>1, AdmittedType, PTL
      <3>2. QED
        BY <3>1
    <2>2. Ledger!ChangePolicy
      BY <1>3, <1>5, <2>1, PolicyKeepsPool DEF Ledger!ChangePolicy, Holdings
    <2>3. QED
      BY <2>2 DEF Ledger!LedgerNext
  <1>6. CASE UNCHANGED poolVars
    <2>1. UNCHANGED <<balances, Holdings>>
      BY <1>3, <1>6 DEF poolVars
    <2>2. AdmittedKeys' = AdmittedKeys
      BY <1>6 DEF poolVars, policyVars, AdmittedKeys, MemberRoot, NonMemberRoot
    <2>3. QED
      BY <2>1, <2>2 DEF Ledger!ledgerVars, Holdings
  <1>7. QED
    BY <1>2, <1>4, <1>5, <1>6 DEF Next

(***************************************************************************)
(* The pool implements the ledger as long as nullifiers come as elements   *)
(* of the field: hidden behind notes, roots, nullifiers and proofs, every  *)
(* call moves value the way the ledger says, takes it only from keys       *)
(* admitted at that moment, and moves the tokens to match.                 *)
(***************************************************************************)
THEOREM PoolRefinesLedger == Spec => LedgerSpec
  <1>1. Init => PoolInv /\ Ledger!LedgerInit
    BY PoolInvInit, LedgerInitMaps
  <1>2. PoolInv /\ [Next]_poolVars => PoolInv'
    BY PoolInvStep
  <1>3. PoolInv /\ [Next]_poolVars => [Canonical' => Ledger!LedgerNext]_(Ledger!ledgerVars)
    <2>1. PoolInv /\ [Next]_poolVars /\ Canonical' => [Ledger!LedgerNext]_(Ledger!ledgerVars)
      BY LedgerStepMaps
    <2>2. QED
      BY <2>1
  <1>4. QED
    BY <1>1, <1>2, <1>3, PTL DEF Spec, LedgerSpec
=============================================================================
