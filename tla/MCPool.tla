------------------------------ MODULE MCPool ------------------------------
(***************************************************************************)
(* Instances of Pool for TLC.  Pool lets a call carry any proof; here the  *)
(* proofs are those a wallet can assemble from the notes it knows, plus    *)
(* the ones the contract has to refuse: against an old root, the root of   *)
(* another tree, old or other policy roots, spent notes, the same note     *)
(* twice, nullifiers that are not reduced, amounts that do not fit, data   *)
(* that is not what the proof binds.                                       *)
(***************************************************************************)
EXTENDS Pool, FiniteSetsExt, TLC

CONSTANTS
  ExtAmounts,   \* ext_amount of the calls
  OutAmounts,   \* first output's amount; the second is what balances
  MaxMembers,   \* bound on the members inserted, over all the contracts
  MaxBlocked,   \* bound on the keys blocked at a time, over all the contracts
  MaxUnreduced, \* bound on the unreduced nullifiers in the map
  MaxSurplus    \* bound on the tokens the pool has beyond what notes account for

MCBalances == [a \in Accounts |-> 2]
MCOneToken == [a \in Accounts |-> 1]
MCValueExts == -3 .. 3
MCUnitExts == -1 .. 1

MCField == 0 .. FieldSize - 1
MCCommitments == [amount : MCField, key : Keys, blinding : Blindings]

\* The roots of the pool's tree so far, and the root of another tree.  A full
\* tree refuses every call: one root is enough to see that.
CandidateRoots ==
  IF TreeIsFull THEN {NextIndex}
                ELSE {2 * j : j \in 0 .. NextIndex \div 2} \cup {ForeignRoot}

\* Wallets pad a call with zero-amount inputs under a fresh blinding.
Padding(k, j) ==
  [note |-> [amount |-> 0, key |-> k, blinding |-> NextIndex + j],
   index |-> 0, wraps |-> 0]

\* Only the note of the first leaf is ever spent without reducing its nullifier.
UnreducedUnder(r) ==
  {[NullifierOf(0) EXCEPT !.wraps = w] :
     w \in IF r > 0 /\ leaves[1].amount > 0 THEN 1 .. MaxWraps ELSE {}}

NotesUnder(r) ==
  IF r = ForeignRoot
    THEN {[note |-> [amount |-> 1, key |-> k, blinding |-> 0], index |-> 0, wraps |-> 0] :
            k \in Keys}
    ELSE {NullifierOf(i) : i \in {j \in 0 .. r - 1 : leaves[j + 1].amount > 0}}
           \cup UnreducedUnder(r)

\* The j-th input of a call against the root r.
CandidateInputs(r, j) == NotesUnder(r) \cup {Padding(k, j) : k \in Keys}

\* The policy roots a wallet may have read: those of any deployed policy
\* contract now, and of a non-membership tree before anything was blocked.
CandidateMemberRoots == {members[a] : a \in MembershipAsps}
CandidateNonMemberRoots == UNION {{blocked[a], {}} : a \in NonMembershipAsps}

\* The pool is the recipient of the smallest withdrawal only.
CandidateExts ==
  {e \in [recipient : Holders, amount : ExtAmounts] :
     e.recipient = PoolAccount => e.amount = -1}

Rest(ins, amount, out) ==
  (ins[1].note.amount + ins[2].note.amount + CalculatePublicAmount(amount) - out) % FieldSize

CandidateCall(r, m, n, ins) ==
  \E ext, bound \in CandidateExts, sender \in Accounts, out \in OutAmounts, k1, k2 \in Keys :
    /\ ext.amount = bound.amount
    /\ LET proof == [root |-> r, membershipRoot |-> m, nonMembershipRoot |-> n,
                     publicAmount |-> CalculatePublicAmount(ext.amount),
                     extDataHash |-> bound, inputNullifiers |-> ins,
                     outputCommitments |->
                       <<[amount |-> out, key |-> k1, blinding |-> 0],
                         [amount |-> Rest(ins, ext.amount, out), key |-> k2, blinding |-> 0]>>]
       IN Transact(proof, ext, sender)

\* Checks of TransactError made here too, where they cut the enumeration short.
MCTransact ==
  \E r \in CandidateRoots, m \in CandidateMemberRoots, n \in CandidateNonMemberRoots :
    /\ IsKnownRoot(r)
    /\ PolicyRootsAreLive([membershipRoot |-> m, nonMembershipRoot |-> n])
    /\ \E first \in CandidateInputs(r, 1), second \in CandidateInputs(r, 2) :
         ~IsSpent(first) /\ ~IsSpent(second) /\ CandidateCall(r, m, n, <<first, second>>)

FewUnreduced == Cardinality({n \in nullifiers' : n.wraps > 0}) <= MaxUnreduced
FewExtraTokens == balances'[PoolAccount] <= (Inserted - Released)' + MaxSurplus

\* One key, admitted once and for all: value, notes, roots, the full tree, a
\* nullifier that is not reduced, tokens given to the pool.
ValueNext ==
  \/ MCTransact /\ FewUnreduced /\ FewExtraTokens
  \/ \E from \in Accounts : Transfer(from, PoolAccount, 1) /\ FewExtraTokens
  \/ \E asp \in MembershipAsps, k \in Keys : InsertMember(asp, k)
ValueSpec == Init /\ [][ValueNext]_poolVars

\* Keys that are admitted and blocked, policy contracts that are replaced.
FewMembers == MapThenSumSet(LAMBDA a : Len(members'[a]), MembershipAsps) <= MaxMembers
FewBlocked == MapThenSumSet(LAMBDA a : Cardinality(blocked'[a]), NonMembershipAsps) <= MaxBlocked
PolicyChangesNext == (MCTransact \/ PolicyNext) /\ FewMembers /\ FewBlocked
PolicySpec == Init /\ [][PolicyChangesNext]_poolVars

\* No action and no property tells contracts of a kind, or keys, apart.
PolicySymmetry ==
  Permutations(Keys) \cup Permutations(MembershipAsps) \cup Permutations(NonMembershipAsps)
===========================================================================
