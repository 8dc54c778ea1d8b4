------------------------------- MODULE Pool -------------------------------
(***************************************************************************)
(* The shielded pool contract, contracts/pool/src/pool.rs, with the two    *)
(* policy contracts it consults (contracts/asp-membership and              *)
(* contracts/asp-non-membership), the token it holds, and the circuit      *)
(* whose proofs it accepts (circuits/src/policyTransaction.circom with 2   *)
(* inputs and 2 outputs).                                                  *)
(*                                                                         *)
(* Hashes are collision free, so a commitment is its note, the hash that   *)
(* makes a nullifier is the note and the leaf index it was derived from,   *)
(* the root of the membership tree is the sequence of its leaves and the   *)
(* root of the non-membership tree the set of its keys.  A proof is the    *)
(* statement it proves (its public inputs); the verifier contract accepts  *)
(* it when the circuit has a witness for that statement.                   *)
(*                                                                         *)
(* A nullifier travels as a U256, which has room for several multiples of  *)
(* the field's modulus: the map of the contract is keyed by the number,    *)
(* the verifier takes its residue.  A nullifier is therefore a hash and    *)
(* how many moduli were added to it.  The other public inputs are compared *)
(* with values the contract or a hash has reduced: an unreduced one is     *)
(* refused, and left out here.                                             *)
(*                                                                         *)
(* Every call is one Soroban transaction: an error undoes the call's       *)
(* writes, so a call that returns an error changes nothing.                *)
(***************************************************************************)
EXTENDS CommitmentTree, FiniteSets, Functions

CONSTANTS
  Keys,              \* note public keys
  Accounts,          \* accounts of the token contract, the pool's left out
  PoolAccount,       \* the pool's own account
  MembershipAsps,    \* deployed ASP membership contracts
  NonMembershipAsps, \* deployed ASP non-membership contracts
  InitialBalances,   \* what each account holds before the pool is deployed
  Blindings,         \* blinding factors
  FieldSize,         \* modulus of the circuit's field, bn256_modulus
  MaxExtAmount,      \* 2^248: bound of ext_amount and of the output range check
  MaxWraps,          \* moduli a U256 has room for, 5 for bn256_modulus
  MaxI128,           \* largest amount the token contract can hold or move
  MaxDeposit,        \* maximum_deposit_amount
  AspCapacity        \* leaves an ASP membership tree can take

VARIABLES
  nullifiers,        \* keys of the Nullifiers map
  balances,          \* the token contract's balances
  admin,             \* Admin
  aspMembership,     \* ASPMembership, the contract consulted
  aspNonMembership,  \* ASPNonMembership, the contract consulted
  members,           \* leaves of each ASP membership tree, as public keys
  blocked            \* keys of each ASP non-membership tree

policyVars == <<admin, aspMembership, aspNonMembership, members, blocked>>
poolVars == <<treeVars, nullifiers, balances, policyVars>>

\* The field holds every sum of two amounts and a public amount without
\* wrapping: the modulus has 254 bits, an amount 248.
ASSUME FieldAssumption ==
  /\ FieldSize \in Nat /\ MaxExtAmount \in Nat \ {0} /\ MaxI128 \in Nat
  /\ FieldSize >= 4 * MaxExtAmount
  /\ MaxDeposit \in Nat /\ AspCapacity \in Nat /\ MaxWraps \in Nat
ASSUME AccountsAssumption ==
  PoolAccount \notin Accounts /\ InitialBalances \in [Accounts -> 0 .. MaxI128]

Holders == Accounts \cup {PoolAccount}
Field == 0 .. FieldSize - 1
Notes == [amount : Field, key : Keys, blinding : Blindings]
Nullifiers == [note : Notes, index : 0 .. Capacity - 1, wraps : 0 .. MaxWraps]
ExtDatas == [recipient : Holders, amount : Int]
Proofs == [root : Int, membershipRoot : Seq(Keys), nonMembershipRoot : SUBSET Keys,
           publicAmount : Field, extDataHash : ExtDatas,
           inputNullifiers : [1 .. 2 -> Nullifiers],
           outputCommitments : [1 .. 2 -> Notes]]

ASSUME CommitmentsAssumption == Commitments = Notes

\* Public keys and blindings are elements of the field.  It has 2^254 of them,
\* a tree 2^32 leaves at most: there is always a blinding no note has used.
ASSUME KeysAssumption == IsFiniteSet(Keys)
ASSUME BlindingsAssumption == IsFiniteSet(Blindings) => Cardinality(Blindings) > Capacity

Magnitude(x) == IF x >= 0 THEN x ELSE -x

\* Mutant: the sign of a withdrawal is lost.
UnsignedPublicAmount(x) == Magnitude(x)

\* calculate_public_amount: a withdrawal is a negative field element.
CalculatePublicAmount(x) == IF x >= 0 THEN x ELSE FieldSize - Magnitude(x)

---------------------------------------------------------------------------
(***************************************************************************)
(* The circuit.                                                            *)
(***************************************************************************)

\* What the verifier makes of a nullifier: an element of the field.
Residue(n) == [note |-> n.note, index |-> n.index]

\* The Merkle path of an input leads from its commitment to the root.
PathLeadsTo(r, note, index) ==
  \/ r = ForeignRoot
  \/ r \in 0 .. NextIndex /\ index < r /\ leaves[index + 1] = note

\* The input is owned, lies in the tree unless its amount is zero, and its
\* key is in the membership tree and not in the non-membership tree.
InputHolds(p, n) ==
  /\ n.note.amount # 0 => PathLeadsTo(p.root, n.note, n.index)
  /\ n.note.key \in Range(p.membershipRoot)
  /\ n.note.key \notin p.nonMembershipRoot

AmountsBalance(ins, outs, publicAmount) ==
  (ins[1].note.amount + ins[2].note.amount + publicAmount) % FieldSize
    = (outs[1].amount + outs[2].amount) % FieldSize

\* Mutant: the circuit leaves out the 248-bit check of the outputs.
CircuitNoRangeCheck(p) ==
  /\ \A i \in 1 .. 2 : InputHolds(p, p.inputNullifiers[i])
  /\ Residue(p.inputNullifiers[1]) # Residue(p.inputNullifiers[2])
  /\ AmountsBalance(p.inputNullifiers, p.outputCommitments, p.publicAmount)

\* Mutant: the circuit leaves out the comparison of its two nullifiers.
CircuitTwins(p) ==
  /\ \A i \in 1 .. 2 : InputHolds(p, p.inputNullifiers[i])
  /\ \A i \in 1 .. 2 : p.outputCommitments[i].amount < MaxExtAmount
  /\ AmountsBalance(p.inputNullifiers, p.outputCommitments, p.publicAmount)

\* PolicyTransaction(2, 2, 1, 1, levels, smtLevels).
Circuit(p) ==
  /\ \A i \in 1 .. 2 : InputHolds(p, p.inputNullifiers[i])
  /\ Residue(p.inputNullifiers[1]) # Residue(p.inputNullifiers[2])
  /\ \A i \in 1 .. 2 : p.outputCommitments[i].amount < MaxExtAmount
  /\ AmountsBalance(p.inputNullifiers, p.outputCommitments, p.publicAmount)

---------------------------------------------------------------------------
(***************************************************************************)
(* The contract.                                                           *)
(***************************************************************************)

MemberRoot == members[aspMembership]
NonMemberRoot == blocked[aspNonMembership]

\* The keys a proof against the live policy roots can spend for.
AdmittedKeys == Range(MemberRoot) \ NonMemberRoot

\* Mutant: a nullifier is never found in the map.
IsNeverSpent(n) == n \notin Nullifiers

\* is_spent: the map is asked for the number as it came.
IsSpent(n) == n \in nullifiers

\* Mutant: only the membership root is compared.
MemberRootIsLive(p) == p.membershipRoot = MemberRoot

\* The proof's policy roots are the ones the policy contracts hold now.
PolicyRootsAreLive(p) ==
  /\ p.membershipRoot = MemberRoot
  /\ p.nonMembershipRoot = NonMemberRoot

\* i256_to_i128_nonneg, applied to a magnitude.
FitsI128(x) == x <= MaxI128

\* What the token contract makes of a transfer.
Moved(from, to, v) ==
  IF from = to THEN balances ELSE [balances EXCEPT ![from] = @ - v, ![to] = @ + v]

\* Mutant: the deposit is not collected before the commitments are made.
PaymentUncollected(ext, sender) ==
  IF ext.amount < 0 THEN Moved(PoolAccount, ext.recipient, -ext.amount) ELSE balances

\* The token transfers of a call: a deposit from the sender, a withdrawal to
\* the recipient, whom nothing keeps from being the pool itself.
Payment(ext, sender) ==
  IF ext.amount > 0 THEN Moved(sender, PoolAccount, ext.amount)
  ELSE IF ext.amount < 0 THEN Moved(PoolAccount, ext.recipient, -ext.amount)
  ELSE balances

\* The token contract refuses a transfer that overflows the receiver's balance.
CanReceive(a, v) == balances[a] + v <= MaxI128

\* transact, before internal_transact: what a deposit can be refused for.
DepositRefused(ext, sender) ==
  \/ ext.amount > MaxDeposit
  \/ ~FitsI128(ext.amount)
  \/ balances[sender] < ext.amount
  \/ ~CanReceive(PoolAccount, ext.amount)

\* internal_transact, step 7: what a withdrawal can be refused for.
WithdrawalRefused(ext) ==
  \/ ~FitsI128(-ext.amount)
  \/ balances[PoolAccount] < -ext.amount
  \/ ext.recipient # PoolAccount /\ ~CanReceive(ext.recipient, -ext.amount)

\* The checks of transact and internal_transact in the order they are made;
\* the first that fails is the call's error, "None" when the call succeeds.
TransactError(p, ext, sender) ==
  IF ext.amount > 0 /\ DepositRefused(ext, sender) THEN "DepositRefused"
  ELSE IF ~IsKnownRoot(p.root) THEN "UnknownRoot"
  ELSE IF \E i \in 1 .. 2 : IsSpent(p.inputNullifiers[i]) THEN "AlreadySpentNullifier"
  ELSE IF p.extDataHash # ext THEN "WrongExtHash"
  ELSE IF Magnitude(ext.amount) >= MaxExtAmount THEN "WrongExtAmount"
  ELSE IF p.publicAmount # CalculatePublicAmount(ext.amount) THEN "WrongExtAmount"
  ELSE IF ~PolicyRootsAreLive(p) THEN "InvalidProof"
  ELSE IF ~Circuit(p) THEN "InvalidProof"
  ELSE IF ext.amount < 0 /\ WithdrawalRefused(ext) THEN "WithdrawalRefused"
  ELSE IF TreeIsFull THEN "MerkleTreeFull"
  ELSE "None"

\* A transact call that succeeds: both nullifiers are marked, the tokens
\* move, both commitments go into the tree.
Transact(p, ext, sender) ==
  /\ TransactError(p, ext, sender) = "None"
  /\ nullifiers' = nullifiers \cup {p.inputNullifiers[1], p.inputNullifiers[2]}
  /\ balances' = Payment(ext, sender)
  /\ InsertTwoLeaves(p.outputCommitments[1], p.outputCommitments[2])
  /\ UNCHANGED policyVars

\* Tokens move outside the pool's calls, maybe to the pool's own account.
Transfer(from, to, v) ==
  /\ v <= balances[from] /\ CanReceive(to, v) /\ from # to
  /\ balances' = Moved(from, to, v)
  /\ UNCHANGED <<treeVars, nullifiers, policyVars>>

\* update_admin, update_asp_membership and update_asp_non_membership: each is
\* authorised by the admin of the moment.
UpdateAdmin(newAdmin) ==
  /\ admin' = newAdmin
  /\ UNCHANGED <<treeVars, nullifiers, balances, aspMembership, aspNonMembership,
                 members, blocked>>

UpdateAspMembership(asp) ==
  /\ aspMembership' = asp
  /\ UNCHANGED <<treeVars, nullifiers, balances, admin, aspNonMembership,
                 members, blocked>>

UpdateAspNonMembership(asp) ==
  /\ aspNonMembership' = asp
  /\ UNCHANGED <<treeVars, nullifiers, balances, admin, aspMembership,
                 members, blocked>>

\* asp-membership insert_leaf, refused when that tree is full.  Nothing is ever
\* removed from a membership tree, and a key may be inserted twice.
InsertMember(asp, k) ==
  /\ Len(members[asp]) < AspCapacity
  /\ members' = [members EXCEPT ![asp] = Append(@, k)]
  /\ UNCHANGED <<treeVars, nullifiers, balances, admin, aspMembership,
                 aspNonMembership, blocked>>

\* asp-non-membership insert_leaf, refused when the key is there.
BlockKey(asp, k) ==
  /\ k \notin blocked[asp]
  /\ blocked' = [blocked EXCEPT ![asp] = @ \cup {k}]
  /\ UNCHANGED <<treeVars, nullifiers, balances, admin, aspMembership,
                 aspNonMembership, members>>

\* asp-non-membership delete_leaf, refused when the key is not there.
UnblockKey(asp, k) ==
  /\ k \in blocked[asp]
  /\ blocked' = [blocked EXCEPT ![asp] = @ \ {k}]
  /\ UNCHANGED <<treeVars, nullifiers, balances, admin, aspMembership,
                 aspNonMembership, members>>

\* __constructor of the three contracts.
Init ==
  /\ TreeInit
  /\ nullifiers = {}
  /\ balances = [a \in Holders |->
                  IF a = PoolAccount THEN 0 ELSE InitialBalances[a]]
  /\ admin \in Accounts
  /\ aspMembership \in MembershipAsps
  /\ aspNonMembership \in NonMembershipAsps
  /\ members = [a \in MembershipAsps |-> << >>]
  /\ blocked = [a \in NonMembershipAsps |-> {}]

PolicyNext ==
  \/ \E a \in Accounts : UpdateAdmin(a)
  \/ \E asp \in MembershipAsps : UpdateAspMembership(asp)
  \/ \E asp \in NonMembershipAsps : UpdateAspNonMembership(asp)
  \/ \E asp \in MembershipAsps, k \in Keys : InsertMember(asp, k)
  \/ \E asp \in NonMembershipAsps, k \in Keys : BlockKey(asp, k) \/ UnblockKey(asp, k)

Next ==
  \/ \E p \in Proofs, ext \in ExtDatas, sender \in Accounts : Transact(p, ext, sender)
  \/ \E from \in Accounts, to \in Holders : \E v \in 1 .. balances[from] :
       Transfer(from, to, v)
  \/ PolicyNext

Spec == Init /\ [][Next]_poolVars

---------------------------------------------------------------------------
(***************************************************************************)
(* What makes the pool correct.                                            *)
(***************************************************************************)

TypeOK ==
  /\ TreeTypeOK
  /\ nullifiers \in SUBSET Nullifiers
  /\ balances \in [Holders -> 0 .. MaxI128]
  /\ admin \in Accounts
  /\ aspMembership \in MembershipAsps
  /\ aspNonMembership \in NonMembershipAsps
  /\ members \in [MembershipAsps -> Seq(Keys)]
  /\ blocked \in [NonMembershipAsps -> SUBSET Keys]

LeafIndices == 0 .. NextIndex - 1
NullifierOf(i) == [note |-> leaves[i + 1], index |-> i, wraps |-> 0]
Unspent == {i \in LeafIndices : NullifierOf(i) \notin nullifiers}

LeafAmounts == [i \in LeafIndices |-> leaves[i + 1].amount]
UnspentOf(k) == {i \in Unspent : leaves[i + 1].key = k}
UnspentValue(k) == SumFunctionOnSet(LeafAmounts, UnspentOf(k))

\* Every nullifier marked so far came as an element of the field, which is
\* what provers send and no line of the contract asks for.  What holds of
\* the pool only then says so.
Canonical == \A n \in nullifiers : n.wraps = 0

(***************************************************************************)
(* internal_transact marks two nullifiers and inserts two commitments per  *)
(* call.  An input consumed before, or twice in one call, would leave the  *)
(* map with fewer inputs than there are leaves: so, nullifiers being       *)
(* canonical, every input of every call was consumed for the first time.   *)
(***************************************************************************)
EveryInputIsFresh ==
  Canonical =>
    /\ IsFiniteSet(nullifiers)
    /\ Cardinality({Residue(n) : n \in nullifiers}) = NextIndex

(***************************************************************************)
(* A nullifier that released value names a note that is in the tree at the *)
(* leaf it was derived from: nothing is spent that was never inserted.     *)
(***************************************************************************)
SpentNotesExist ==
  \A n \in nullifiers :
    n.note.amount # 0 => n.index \in LeafIndices /\ leaves[n.index + 1] = n.note

(***************************************************************************)
(* Every amount in the tree passed the range check of the circuit, so the  *)
(* field equation of AmountsBalance is an equation of integers.            *)
(***************************************************************************)
AmountsInRange == \A i \in 1 .. Len(leaves) : leaves[i].amount < MaxExtAmount

(***************************************************************************)
(* Every amount that was ever inserted is a token in the pool, or was      *)
(* released by a nullifier in the map: over all calls, the checks made     *)
(* before the tokens move and those made after it conserve value, in       *)
(* whatever form the nullifiers came.                                      *)
(***************************************************************************)
Released == SumFunctionOnSet([n \in nullifiers |-> n.note.amount], nullifiers)
Inserted == SumFunctionOnSet(LeafAmounts, LeafIndices)
ValueIsConserved == balances[PoolAccount] + Released >= Inserted

(***************************************************************************)
(* The pool holds the tokens of all its unspent notes, nullifiers being    *)
(* canonical; more than that when it was sent tokens outside transact, or  *)
(* was the recipient of a withdrawal.                                      *)
(***************************************************************************)
Solvent ==
  Canonical => balances[PoolAccount] >= SumFunctionOnSet(LeafAmounts, Unspent)

(***************************************************************************)
(* Withdrawing the whole of an unspent note against the current roots is   *)
(* never refused while its key is admitted, its recipient can receive it   *)
(* and nullifiers are canonical, except that a full tree refuses every     *)
(* call: the two outputs of a withdrawal need two leaves.                  *)
(***************************************************************************)
Withdrawal(i, recipient, spare) ==
  LET note == leaves[i + 1]
      ext == [recipient |-> recipient, amount |-> -note.amount]
      nothing == [amount |-> 0, key |-> note.key, blinding |-> spare]
  IN [ext |-> ext,
      proof |-> [root |-> LastRoot, membershipRoot |-> MemberRoot,
                 nonMembershipRoot |-> NonMemberRoot,
                 publicAmount |-> CalculatePublicAmount(ext.amount),
                 extDataHash |-> ext,
                 inputNullifiers |-> <<NullifierOf(i),
                                     [note |-> nothing, index |-> 0, wraps |-> 0]>>,
                 outputCommitments |-> <<nothing, nothing>>]]

NotesAreWithdrawable ==
  \A i \in Unspent, a \in Accounts :
    (/\ Canonical
     /\ leaves[i + 1].amount > 0 /\ CanReceive(a, leaves[i + 1].amount)
     /\ leaves[i + 1].key \in AdmittedKeys) =>
      \E spare \in Blindings :
        LET w == Withdrawal(i, a, spare)
        IN TransactError(w.proof, w.ext, a) = IF TreeIsFull THEN "MerkleTreeFull" ELSE "None"

(***************************************************************************)
(* transact compares the policy roots of the proof with the live ones, so  *)
(* from the moment a key leaves the membership contract consulted, or      *)
(* enters the non-membership one, nothing of that key is spent, whenever   *)
(* its proof was made.                                                     *)
(***************************************************************************)
OnlyAdmittedKeysSpend ==
  [][\A n \in nullifiers' \ nullifiers : n.note.key \in AdmittedKeys]_poolVars

(***************************************************************************)
(* The pool implements the ledger of holdings (ShieldedLedger) step by     *)
(* step, as long as nullifiers are canonical.                              *)
(***************************************************************************)
Ledger == INSTANCE ShieldedLedger WITH
  holdings <- [k \in Keys |-> UnspentValue(k)],
  admitted <- AdmittedKeys

LedgerSpec ==
  Ledger!LedgerInit /\ [][Canonical' => Ledger!LedgerNext]_(Ledger!ledgerVars)
===========================================================================
