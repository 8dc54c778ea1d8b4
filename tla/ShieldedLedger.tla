--------------------------- MODULE ShieldedLedger --------------------------
(***************************************************************************)
(* What the shielded pool promises, with the notes, the tree, the proofs   *)
(* and the nullifiers taken away: a ledger that knows how much value each  *)
(* key holds inside the pool and how many tokens each account holds        *)
(* outside.  A step takes value only from keys the policy admits at that   *)
(* moment, and moves tokens in or out of the pool by exactly what the      *)
(* holdings gain or lose; tokens also change hands without it, and may be  *)
(* given to the pool.  The module Pool refines it.                         *)
(***************************************************************************)
EXTENDS Integers, Functions

CONSTANTS
  Keys,      \* note public keys
  Accounts,  \* accounts of the token contract, the pool's own left out
  PoolAccount

VARIABLES
  balances,  \* token balance of each account and of the pool
  holdings,  \* unspent value each key holds in the pool
  admitted   \* the keys the policy admits now

Holders == Accounts \cup {PoolAccount}
ledgerVars == <<balances, holdings, admitted>>

Total(h) == SumFunctionOnSet(h, Keys)

\* Value changes hands inside the pool, and "gain" enters or leaves it: only
\* admitted keys lose any.
Redistribute(gain) ==
  /\ holdings' \in [Keys -> Nat]
  /\ \A k \in Keys \ admitted : holdings'[k] >= holdings[k]
  /\ Total(holdings') = Total(holdings) + gain
  /\ UNCHANGED admitted

Move(from, to, v) ==
  /\ balances[from] >= v
  /\ balances' = IF from = to THEN balances
                             ELSE [balances EXCEPT ![from] = @ - v, ![to] = @ + v]

Deposit(a, v) == Move(a, PoolAccount, v) /\ Redistribute(v)

\* The pool itself may be who receives.
Withdraw(a, v) == Move(PoolAccount, a, v) /\ Redistribute(-v)

\* Tokens are sent without the pool, maybe to it.
Transfer(a, b, v) == Move(a, b, v) /\ UNCHANGED <<holdings, admitted>>

\* A payment inside the pool moves no token.
Pay ==
  /\ UNCHANGED balances
  /\ Redistribute(0)

\* The policy admits other keys; no value moves.
ChangePolicy ==
  /\ admitted' \in SUBSET Keys
  /\ UNCHANGED <<balances, holdings>>

LedgerInit ==
  /\ balances \in [Holders -> Nat]
  /\ balances[PoolAccount] = 0
  /\ holdings = [k \in Keys |-> 0]
  /\ admitted \in SUBSET Keys

LedgerNext ==
  \/ \E a \in Accounts : \E v \in 1 .. balances[a] : Deposit(a, v)
  \/ \E a \in Holders : \E v \in 1 .. balances[PoolAccount] : Withdraw(a, v)
  \/ \E a \in Accounts, b \in Holders : \E v \in 1 .. balances[a] : Transfer(a, b, v)
  \/ Pay
  \/ ChangePolicy

LedgerSpec == LedgerInit /\ [][LedgerNext]_ledgerVars
============================================================================
