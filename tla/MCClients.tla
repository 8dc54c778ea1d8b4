----------------------------- MODULE MCClients ------------------------------
(***************************************************************************)
(* The two programs that keep notes, side by side for TLC: the agents of   *)
(* MCAgent and a wallet with two accounts.  They share no state: a run is  *)
(* of one of them.                                                         *)
(***************************************************************************)
EXTENDS MCAgent, Notes, TLC

VARIABLE running   \* "agents" or "wallet"

\* A payment to an account, beside an output for somebody else.
MCPayments ==
  LET to(a) == [to |-> a, value |-> TRUE]
  IN {<<to(a), to(Outsider)>> : a \in Accounts}

\* Bound: of one ledger the first output is stored first, as a page of events
\* begins with a ledger.
StoredInPairs == \A p \in stored : p % 2 = 0 => p - 1 \in stored

ClientsInit ==
  /\ running \in {"agents", "wallet"}
  /\ Init /\ NotesInit
  /\ running = "wallet" => notes = CHOOSE file \in NoteFiles : TRUE

ClientsNext ==
  /\ UNCHANGED running
  /\ \/ running = "agents" /\ Next /\ UNCHANGED notesVars
     \/ running = "wallet" /\ NotesNext /\ StoredInPairs' /\ UNCHANGED vars

ClientsSpec == ClientsInit /\ [][ClientsNext]_<<running, vars, notesVars>>

\* The wallet's accounts are alike.
MCSymmetry == Permutations(Accounts)

\* The type invariants of both.
ClientsTypeOK == TypeOK /\ NotesTypeOK
=============================================================================
