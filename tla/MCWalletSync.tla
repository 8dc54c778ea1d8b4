---------------------------- MODULE MCWalletSync ----------------------------
(***************************************************************************)
(* WalletSync for TLC.  MaxLedger and Blocks bound the chain; MaxUpsets    *)
(* bounds how often a tab is closed, the stores are cleared, the pages ask *)
(* for a rebuild, a request fails and another window than UsualWindow is   *)
(* detected, taken together.                                               *)
(***************************************************************************)
EXTENDS WalletSync

CONSTANTS UsualWindow, MaxLedger, Blocks, MaxUpsets

VARIABLE upsets

MCPageRoom == [pool |-> 2, membership |-> 1]

\* What a ledger may hold: pool transactions and insertions of members.  The
\* second member in ledger 3 is more than its page; by ledger 4 the leaves of
\* ledger 2 have expired.
MCBlocks == <<{}, {<<1, 1>>}, {<<0, 2>>}, {<<0, 0>>}>>

MCInit == Init /\ upsets = 0

MCCloseLedger ==
  /\ ledger < MaxLedger
  /\ \E block \in Blocks[ledger + 1] : CloseLedger(2 * block[1], block[2])

Upset ==
  /\ upsets < MaxUpsets
  /\ upsets' = upsets + 1
  /\ \/ CloseTab
     \/ ClearPool
     \/ RebuildPoolTree
     \/ \E s \in Stores : FetchFails(s)
     \/ \E w \in Windows \ {UsualWindow} : SyncIsBroken(w) \/ StartSync(w)

Calm ==
  /\ UNCHANGED upsets
  /\ \/ MCCloseLedger
     \/ OpenTab
     \/ ResetPoolTree
     \/ ClearMembership
     \/ ClearMetadata
     \/ \E r \in {"sync", "ui"} : RebuildStep(r) \/ RebuildFails(r)
     \/ SyncIsBroken(UsualWindow)
     \/ StartSync(UsualWindow)
     \/ SyncStep

MCSpec == MCInit /\ [][Upset \/ Calm]_<<vars, upsets>> /\ Fairness
============================================================================
