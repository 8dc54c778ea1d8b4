-------------------------------- MODULE Notes -------------------------------
(***************************************************************************)
(* The user's notes in the wallet: discovery and checks of spent notes at  *)
(* the end of a sync (state/note-scanner.js), the store and the keys of    *)
(* the account in use (state/notes-store.js), what deposits and spends     *)
(* write (enclave/deposit.js, ui/transactions), over changes of account,   *)
(* reloads, other tabs and other devices.                                  *)
(*                                                                         *)
(* An output is its place in the pool, from 1; the contract's index is one *)
(* less.  Its commitment, nullifier and ciphertext are taken for the place *)
(* and its addressee's keys.  Which events a sync loses is the subject of  *)
(* WalletSync; here outputs are stored in any order and nullifiers at any  *)
(* time.                                                                   *)
(***************************************************************************)
EXTENDS Integers, FiniteSets, Sequences

CONSTANTS
  Accounts,     \* accounts of this user
  Outsider,     \* everybody else
  None,         \* null
  Payments,     \* pairs of outputs others may make, to an account or the
                \*   Outsider: [to, value], value FALSE for an amount of zero
  OtherDevices, \* places other devices of the user may spend
  Mirrored,     \* places whose nullifier has the same digits in both orders of
                \*   its bytes
  MaxOutputs,   \* bound on the outputs of the pool
  MaxActs       \* bound on logins, changes of account, deposits, spends, clears
                \*   and reloads

ASSUME NotesAssumption ==
  /\ Outsider \notin Accounts /\ None \notin Accounts
  /\ Payments \subseteq [1 .. 2 -> [to : Accounts \cup {Outsider}, value : BOOLEAN]]
  /\ OtherDevices \cup Mirrored \subseteq Nat /\ MaxOutputs \in Nat /\ MaxActs \in Nat

VARIABLES
  chain,        \* outputs of the pool, two in each ledger
  nullified,    \* places of the outputs whose nullifier the pool has marked
  stored,       \* outputs in pool_encrypted_outputs, and leaves in the tree
  rows,         \* user_notes, by place
  owner, enc, note, \* currentOwner and the two cached keypairs, as accounts
  login,        \* the signature prompt of a login
  watermark,    \* lastScannedLedger
  scan,         \* a sync's scan and check
  job,          \* a deposit or a spend under way
  acts,         \* acts of the user so far
  passed        \* history: notes the page's scans have passed by, see Behind

chainVars == <<chain, nullified>>
dbVars == <<stored, rows>>
actVars == <<acts, passed>>
keyVars == <<owner, enc, note, login>>
notesVars == <<chainVars, dbVars, keyVars, watermark, scan, job, actVars>>

Ledger(p) == (p + 1) \div 2
NoLogin == [keys |-> "none", asked |-> None]
NoScan == [at |-> "idle", key |-> None, asked |-> None, top |-> 0, todo |-> {}, output |-> 0]
NoJob == [at |-> "none", who |-> None, index |-> 0, place |-> 0]

NotesInit ==
  /\ chain = << >> /\ nullified = {}
  /\ stored = {} /\ rows = << >>
  /\ owner \in Accounts /\ enc = None /\ note = None /\ login = NoLogin
  /\ watermark = 0 /\ scan = NoScan /\ job = NoJob /\ acts = 0 /\ passed = {}

\* The user does something.
Act == acts < MaxActs /\ acts' = acts + 1

\* user_notes with a row put in.
Put(p, row) == [q \in DOMAIN rows \cup {p} |-> IF q = p THEN row ELSE rows[q]]

MarkSpent(p) == IF p \in DOMAIN rows THEN [rows EXCEPT ![p].spent = TRUE] ELSE rows

\* An output that is a note of this user.
IsNote(p) == chain[p].to \in Accounts /\ chain[p].value

\* The watermark, or the one a running scan will set, is above the output.
Behind(p) == Ledger(p) < watermark \/ Ledger(p) < scan.top

Pass(places) == passed' = passed \cup {p \in places : IsNote(p)}

---------------------------------------------------------------------------
(***************************************************************************)
(* The pool, other users, other devices, and the events stored so far.     *)
(***************************************************************************)

OthersTransact ==
  /\ Len(chain) + 2 <= MaxOutputs
  /\ \E pair \in Payments : chain' = chain \o pair
  /\ UNCHANGED <<nullified, dbVars, keyVars, watermark, scan, job, actVars>>

OtherDeviceSpends ==
  /\ \E p \in (OtherDevices \cap DOMAIN chain) \ nullified :
       chain[p].to \in Accounts /\ nullified' = nullified \cup {p}
  /\ UNCHANGED <<chain, dbVars, keyVars, watermark, scan, job, actVars>>

\* Outputs are stored one by one, by the sync of this page or of another tab:
\* a scan may find half a ledger, and a later sync may bring what an earlier
\* one left out (a page that was cut, a window that was too short).
StoreOutput ==
  \E p \in DOMAIN chain \ stored :
    /\ stored' = stored \cup {p}
    /\ Pass({p} \cap {q \in DOMAIN chain : Behind(q)})
    /\ UNCHANGED <<chainVars, rows, keyVars, watermark, scan, job, acts>>

\* clearAndReset: the sync starts anew, the scan's watermark stays.
ResetOutputs ==
  /\ Act
  /\ stored' = {}
  /\ UNCHANGED <<chainVars, rows, keyVars, watermark, scan, job, passed>>

---------------------------------------------------------------------------
(***************************************************************************)
(* Accounts and keys.                                                      *)
(***************************************************************************)

\* handleAccountChange: another account, or none, and no cached keys; what is
\* under way goes on.
Switch(a) ==
  /\ a # owner
  /\ Act
  /\ owner' = a /\ enc' = None /\ note' = None
  /\ UNCHANGED <<chainVars, dbVars, login, watermark, scan, job, passed>>

\* Freighter signs for the account it is asked for, any if there is none.
Signers == IF owner = None THEN Accounts ELSE {owner}

\* initializeKeypairs asks for the encryption key if there is none, the flows
\* of the forms (deriveKeysFromWallet) for both keys of the account in use.
StartLogin ==
  /\ Act
  /\ login = NoLogin
  /\ \/ enc = None /\ \E a \in Signers : login' = [keys |-> "enc", asked |-> a]
     \/ owner # None /\ login' = [keys |-> "both", asked |-> owner]
  /\ UNCHANGED <<chainVars, dbVars, owner, enc, note, watermark, scan, job, passed>>

\* A key is cached when its signature comes, whichever account is in use by
\* then; initializeKeypairs goes on to the note key, if it has none, for the
\* account of that moment.
LoginSigned ==
  /\ login # NoLogin
  /\ enc' = IF login.keys = "note" THEN enc ELSE login.asked
  /\ note' = IF login.keys = "enc" THEN note ELSE login.asked
  /\ IF login.keys = "enc" /\ note = None
       THEN \E a \in Signers : login' = [keys |-> "note", asked |-> a]
       ELSE login' = NoLogin
  /\ UNCHANGED <<chainVars, dbVars, owner, watermark, scan, job, actVars>>

LoginRejected ==
  /\ login # NoLogin
  /\ login' = NoLogin
  /\ UNCHANGED <<chainVars, dbVars, owner, enc, note, watermark, scan, job, actVars>>

---------------------------------------------------------------------------
(***************************************************************************)
(* scanForNotes and checkSpentNotes.                                       *)
(***************************************************************************)

\* Mutant: only what is above the watermark.
AboveWatermark(p) == Ledger(p) > watermark

\* getEncryptedOutputs: the ledger of the watermark is scanned again.
FromWatermark(p) == Ledger(p) >= watermark

\* The note key is the one of the start; the outputs are read once, and come
\* in the order of their commitments, which is any.  The highest ledger among
\* them is the scan's top.
StartScan ==
  /\ scan.at = "idle" /\ enc # None /\ note # None
  /\ LET todo == {p \in stored : FromWatermark(p)}
     IN \E top \in {0} \cup {Ledger(p) : p \in todo} :
          /\ \A p \in todo : Ledger(p) <= top
          /\ scan' = [at |-> "next", key |-> note, asked |-> None, todo |-> todo,
                      output |-> 0, top |-> top]
  /\ UNCHANGED <<chainVars, dbVars, keyVars, watermark, job, actVars>>

Skip(p) ==
  scan' = [scan EXCEPT !.at = "next", !.asked = None, !.output = 0, !.todo = @ \ {p}]

\* Mutant: what decrypts is taken without looking at the commitment.
VerifiedByDecryption(p) == TRUE

\* verifyNoteCommitment: the commitment opens with the scan's note key.
Verified(p) == chain[p].to = scan.key

\* tryDecryptNote: an output for another key, of value zero, or with another
\* commitment is not taken.  A note of another account of the user is passed by.
Try(p, key) ==
  IF chain[p].to = key /\ chain[p].value /\ Verified(p)
    THEN scan' = [scan EXCEPT !.at = "saving", !.asked = None, !.output = p] /\ Pass({})
    ELSE Skip(p) /\ Pass({q \in {p} : {key, scan.key} # {chain[q].to}})

\* The next output; without an encryption key in the cache it is asked for.
ScanNext ==
  /\ scan.at = "next"
  /\ \E p \in scan.todo :
       CASE p \in DOMAIN rows -> Skip(p) /\ Pass({})
         [] p \notin DOMAIN rows /\ enc # None -> Try(p, enc)
         [] OTHER -> \E a \in Signers :
                       /\ scan' = [scan EXCEPT !.at = "signing", !.asked = a, !.output = p]
                       /\ Pass({})
  /\ UNCHANGED <<chainVars, dbVars, keyVars, watermark, job, acts>>

ScanSigned ==
  /\ scan.at = "signing"
  /\ \/ enc' = scan.asked /\ Try(scan.output, scan.asked)
     \/ UNCHANGED enc /\ Skip(scan.output) /\ Pass({scan.output})
  /\ UNCHANGED <<chainVars, dbVars, owner, note, login, watermark, job, acts>>

\* Looked up once more and saved, for the account in use by now.
ScanSave ==
  /\ scan.at = "saving"
  /\ LET p == scan.output
     IN /\ rows' = IF p \in DOMAIN rows THEN rows
                    ELSE Put(p, [owner |-> owner, key |-> scan.key, index |-> p,
                                 spent |-> FALSE, received |-> TRUE])
        /\ Skip(p)
  /\ UNCHANGED <<chainVars, stored, keyVars, watermark, job, actVars>>

\* The nullifier is computed from the row's key and index: only the right
\* ones give the one the pool has marked.  It is looked up by its digits in
\* little-endian order, and stored by those in big-endian order.
Recognised(p) ==
  /\ rows[p].key = chain[p].to /\ rows[p].index = p
  /\ p \in nullified /\ p \in Mirrored

\* The watermark moves to the last ledger scanned.  checkSpentNotes marks the
\* unspent notes of the account whose nullifier was stored by now.
ScanDone ==
  /\ scan.at = "next" /\ scan.todo = {}
  /\ watermark' = IF scan.top > watermark THEN scan.top ELSE watermark
  /\ LET mine == {p \in DOMAIN rows : rows[p].owner = owner /\ owner # None}
     IN \E found \in SUBSET {p \in mine : Recognised(p)} :
          rows' = [p \in DOMAIN rows |->
                     IF p \in found THEN [rows[p] EXCEPT !.spent = TRUE] ELSE rows[p]]
  /\ scan' = NoScan
  /\ UNCHANGED <<chainVars, stored, keyVars, job, actVars>>

---------------------------------------------------------------------------
(***************************************************************************)
(* Deposits and spends.                                                    *)
(***************************************************************************)

\* Before the submission the next leaf index is read, from the local tree or
\* from the contract.
StartDeposit ==
  /\ Act
  /\ job = NoJob /\ owner # None
  /\ \E next \in {Cardinality(stored) + 1, Len(chain) + 1} :
       job' = [at |-> "submitting", who |-> owner, index |-> next, place |-> 0]
  /\ UNCHANGED <<chainVars, dbVars, keyVars, watermark, scan, passed>>

\* The deposit lands: the note and a second one of value zero.
DepositLands ==
  /\ job.at = "submitting" /\ Len(chain) + 2 <= MaxOutputs
  /\ chain' = chain \o << [to |-> job.who, value |-> TRUE], [to |-> job.who, value |-> FALSE] >>
  /\ job' = [job EXCEPT !.at = "saving", !.place = Len(chain) + 1]
  /\ UNCHANGED <<nullified, dbVars, keyVars, watermark, scan, actVars>>

\* saveNote puts the row whatever is there, unspent; the second note follows,
\* unless the first write failed.
SaveDeposit ==
  /\ job.at \in {"saving", "saving_change"}
  /\ LET second == IF job.at = "saving" THEN 0 ELSE 1
         place == job.place + second
     IN rows' = Put(place, [owner |-> job.who, key |-> job.who, index |-> job.index + second,
                             spent |-> FALSE, received |-> FALSE])
  /\ job' = IF job.at = "saving" THEN [job EXCEPT !.at = "saving_change"] ELSE NoJob
  /\ UNCHANGED <<chainVars, stored, keyVars, watermark, scan, actVars>>

\* A note of the account is to be spent; the forms do not look at the mark.
StartSpend ==
  /\ Act
  /\ job = NoJob /\ owner # None
  /\ \E p \in DOMAIN rows :
       /\ rows[p].owner = owner
       /\ job' = [at |-> "spending", who |-> owner, index |-> rows[p].index, place |-> p]
  /\ UNCHANGED <<chainVars, dbVars, keyVars, watermark, scan, passed>>

\* The proof holds if the row's index is the note's place and the account's
\* key is the note's.
Spendable == chain[job.place].to = job.who /\ job.index = job.place /\ job.place \notin nullified

\* Mutant: a refused submission is followed by the local writes as well.
MarkAnyway == [job EXCEPT !.at = "marking"]

AfterRefusal == NoJob

\* A withdrawal of the whole note: both outputs are of value zero.
SubmitSpend ==
  /\ job.at = "spending"
  /\ IF Spendable
       THEN LET nothing == [to |-> job.who, value |-> FALSE]
            IN /\ Len(chain) + 2 <= MaxOutputs
               /\ chain' = chain \o <<nothing, nothing>>
               /\ nullified' = nullified \cup {job.place}
               /\ job' = [job EXCEPT !.at = "marking"]
       ELSE job' = AfterRefusal /\ UNCHANGED chainVars
  /\ UNCHANGED <<dbVars, keyVars, watermark, scan, actVars>>

MarkInput ==
  /\ job.at = "marking"
  /\ rows' = MarkSpent(job.place)
  /\ job' = NoJob
  /\ UNCHANGED <<chainVars, stored, keyVars, watermark, scan, actVars>>

\* A submission or a write fails.
JobFails ==
  /\ job # NoJob
  /\ job' = NoJob
  /\ UNCHANGED <<chainVars, dbVars, keyVars, watermark, scan, actVars>>

---------------------------------------------------------------------------

\* clearNotesForOwner.
Clear ==
  /\ owner # None /\ Act
  /\ LET gone == {p \in DOMAIN rows : rows[p].owner = owner}
     IN /\ rows' = [p \in DOMAIN rows \ gone |-> rows[p]]
        /\ Pass({p \in gone : Behind(p)})
  /\ UNCHANGED <<chainVars, stored, keyVars, watermark, scan, job>>

\* The page is closed and loaded again: only the database is left, and the
\* next scan reads everything.
Reload ==
  /\ Act /\ passed' = {}
  /\ owner' \in Accounts /\ enc' = None /\ note' = None /\ login' = NoLogin
  /\ watermark' = 0 /\ scan' = NoScan /\ job' = NoJob
  /\ UNCHANGED <<chainVars, dbVars>>

NotesNext ==
  \/ OthersTransact \/ OtherDeviceSpends \/ StoreOutput \/ ResetOutputs
  \/ \E a \in Accounts \cup {None} : Switch(a)
  \/ StartLogin \/ LoginSigned \/ LoginRejected
  \/ StartScan \/ ScanNext \/ ScanSigned \/ ScanSave \/ ScanDone
  \/ StartDeposit \/ DepositLands \/ SaveDeposit
  \/ StartSpend \/ SubmitSpend \/ MarkInput \/ JobFails
  \/ Clear \/ Reload

NotesSpec == NotesInit /\ [][NotesNext]_notesVars

---------------------------------------------------------------------------
(***************************************************************************)
(* What makes the notes correct.                                           *)
(***************************************************************************)

\* The rows are of outputs the pool has, and what is received has a key.
NotesTypeOK ==
  /\ Len(chain) \in 0 .. MaxOutputs /\ Len(chain) % 2 = 0
  /\ nullified \subseteq DOMAIN chain /\ stored \subseteq DOMAIN chain
  /\ DOMAIN rows \subseteq DOMAIN chain
  /\ \A p \in DOMAIN rows :
       rows[p] \in [owner : Accounts \cup {None}, key : Accounts, index : 1 .. MaxOutputs + 1,
                     spent : BOOLEAN, received : BOOLEAN]
  /\ {owner, enc, note, scan.key, scan.asked} \subseteq Accounts \cup {None}
  /\ scan.at \in {"idle", "next", "signing", "saving"}
  /\ scan.at # "idle" => scan.key # None
  /\ watermark \in 0 .. Ledger(Len(chain))

(***************************************************************************)
(* A note is shown as spent only if the pool has its nullifier: whatever   *)
(* the index it was saved with, whoever marked it, and whatever became of  *)
(* the submission, no money disappears from the balance by mistake.        *)
(***************************************************************************)
SpentMarksAreTrue == \A p \in DOMAIN rows : rows[p].spent => p \in nullified

(***************************************************************************)
(* A note that a scan saved can be spent with what the row holds: its key  *)
(* is the addressee's, although the account, the cached keys and the keys  *)
(* of a login under way may be those of different accounts by then.        *)
(***************************************************************************)
ReceivedNotesAreSpendable ==
  \A p \in DOMAIN rows :
    rows[p].received => rows[p].key = chain[p].to /\ rows[p].index = p

(***************************************************************************)
(* The scans miss nothing below the watermark, whatever the accounts, the  *)
(* keys, resets and the order of storing: a note of any account that is    *)
(* stored there is saved, or was passed by for a reason.  It was stored    *)
(* when the watermark was above it, it was tried with the keys of another  *)
(* account or with none, or its row was cleared.                           *)
(***************************************************************************)
ScansMissNothing ==
  \A p \in stored : IsNote(p) /\ Ledger(p) < watermark => p \in DOMAIN rows \cup passed
=============================================================================
