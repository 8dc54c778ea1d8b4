---------------------------- MODULE NotesProofs ----------------------------
(***************************************************************************)
(* The wallet's notes, proved for every number of accounts, outputs and    *)
(* acts of the user: marks are true, what was received can be spent, and   *)
(* what a scan misses below its watermark was passed by for a reason.      *)
(***************************************************************************)
EXTENDS MCClients, AgentProofs, SequenceTheorems, FiniteSetTheorems

Outputs == [to : Accounts \cup {Outsider}, value : BOOLEAN]
Rows == [owner : Accounts \cup {None}, key : Accounts, index : 1 .. MaxOutputs + 1,
         spent : BOOLEAN, received : BOOLEAN]
Scans == [at : {"idle", "next", "signing", "saving"}, key : Accounts \cup {None},
          asked : Accounts \cup {None}, top : Nat, todo : SUBSET Nat, output : Nat]
Jobs == [at : {"none", "submitting", "saving", "saving_change", "spending", "marking"},
         who : Accounts \cup {None}, index : Nat, place : Nat]
Logins == [keys : {"none", "enc", "note", "both"}, asked : Accounts \cup {None}]

\* The pool and what is stored of it.
ChainTyped ==
  /\ chain \in Seq(Outputs) /\ Len(chain) <= MaxOutputs /\ Len(chain) % 2 = 0
  /\ nullified \subseteq DOMAIN chain
  /\ stored \subseteq DOMAIN chain

KeysTyped ==
  /\ {owner, enc, note} \subseteq Accounts \cup {None}
  /\ login \in Logins

\* A row is of an output the pool has, marked for a reason, and right about
\* key and index if a scan saved it.
RowsAreTrue ==
  /\ rows \in [DOMAIN rows -> Rows] /\ DOMAIN rows \subseteq DOMAIN chain
  /\ \A p \in DOMAIN rows :
       /\ rows[p].spent => p \in nullified
       /\ rows[p].received => rows[p].key = chain[p].to /\ rows[p].index = p

\* What a scan is about to save opens with its key.
ScanTells ==
  /\ scan \in Scans
  /\ scan.at # "idle" => scan.key # None
  /\ scan.todo \subseteq DOMAIN chain
  /\ scan.at \in {"signing", "saving"} => scan.output \in scan.todo
  /\ scan.at = "saving" => chain[scan.output].to = scan.key
  /\ scan.top <= Ledger(Len(chain))
  /\ watermark \in Nat /\ watermark <= Ledger(Len(chain))

\* A deposit's notes have their places, a spent note its nullifier.
JobTells ==
  /\ job \in Jobs
  /\ job.at # "none" => job.who \in Accounts
  /\ job.at = "submitting" => job.index \in 1 .. Len(chain) + 1
  /\ job.at \in {"saving", "saving_change"} =>
       job.place \in 1 .. Len(chain) - 1 /\ job.index \in 1 .. job.place
  /\ job.at \in {"spending", "marking"} => job.place \in DOMAIN chain
  /\ job.at = "marking" => job.place \in nullified

\* A stored note that has no row and was not passed by is not below the
\* watermark, and a running scan will read it or stay below it.
Ahead(p) ==
  /\ watermark <= Ledger(p)
  /\ scan.at # "idle" => p \in scan.todo \/ scan.top <= Ledger(p)

NothingIsLost ==
  \A p \in stored : IsNote(p) /\ p \notin DOMAIN rows \cup passed => Ahead(p)

NotesInv ==
  /\ ChainTyped /\ KeysTyped
  /\ RowsAreTrue /\ ScanTells /\ JobTells /\ NothingIsLost

---------------------------------------------------------------------------
(***************************************************************************)
(* What a step leaves alone.                                               *)
(***************************************************************************)

LEMMA LedgerType ==
  /\ \A p \in Nat : Ledger(p) \in Nat
  /\ \A p, q \in Nat : p <= q => Ledger(p) <= Ledger(q)
  BY DEF Ledger

\* A longer chain with more nullifiers marked takes back nothing of what is
\* said of the rows, the scan and the keys.
LEMMA ChainGrows ==
  ASSUME NotesInv, NEW pair \in Seq(Outputs), Len(pair) = 2,
         Len(chain) + 2 <= MaxOutputs, chain' = chain \o pair,
         nullified \subseteq nullified', nullified' \subseteq DOMAIN chain,
         UNCHANGED <<dbVars, keyVars, watermark, scan, passed>>
  PROVE  /\ ChainTyped' /\ KeysTyped' /\ RowsAreTrue' /\ ScanTells' /\ NothingIsLost'
         /\ Len(chain') = Len(chain) + 2
  <1> USE DEF dbVars, keyVars
  <1>1. ChainTyped /\ RowsAreTrue /\ ScanTells /\ NothingIsLost /\ KeysTyped
    BY DEF NotesInv
  <1>2. /\ chain' \in Seq(Outputs) /\ Len(chain') = Len(chain) + 2 /\ Len(chain) \in Nat
        /\ DOMAIN chain = 1 .. Len(chain) /\ DOMAIN chain' = 1 .. Len(chain')
        /\ \A p \in DOMAIN chain : chain'[p] = chain[p]
    <2>1. chain \in Seq(Outputs)
      BY <1>1 DEF ChainTyped
    <2>2. chain \o pair \in Seq(Outputs) /\ Len(chain \o pair) = Len(chain) + 2
      BY <2>1, ConcatProperties
    <2>3. \A p \in 1 .. Len(chain) : (chain \o pair)[p] = chain[p]
      BY <2>1
    <2>4. QED
      BY <2>1, <2>2, <2>3
  <1>3. ChainTyped'
    BY <1>1, <1>2 DEF ChainTyped
  <1>4. KeysTyped'
    BY <1>1 DEF KeysTyped
  <1>5. RowsAreTrue'
    BY <1>1, <1>2 DEF RowsAreTrue
  <1>6. ScanTells'
    <2>1. scan' = scan /\ watermark' = watermark
      OBVIOUS
    <2>2. Ledger(Len(chain)) <= Ledger(Len(chain')) /\ Ledger(Len(chain))' = Ledger(Len(chain'))
      BY <1>2, LedgerType DEF Ledger
    <2>3. /\ Ledger(Len(chain)) \in Nat /\ Ledger(Len(chain')) \in Nat
          /\ scan.top \in Nat /\ watermark \in Nat
      BY <1>1, <1>2, LedgerType DEF ScanTells, Scans
    <2>4. scan.top <= Ledger(Len(chain')) /\ watermark <= Ledger(Len(chain'))
      BY <1>1, <2>2, <2>3 DEF ScanTells
    <2>5. scan.at = "saving" => scan.output \in DOMAIN chain
      BY <1>1 DEF ScanTells
    <2>6. scan.at = "saving" => chain'[scan.output].to = scan.key
      BY <1>1, <1>2, <2>5 DEF ScanTells
    <2>7. scan.todo \subseteq DOMAIN chain'
      BY <1>1, <1>2 DEF ScanTells
    <2>8. QED
      BY <1>1, <2>1, <2>2, <2>4, <2>6, <2>7 DEF ScanTells
  <1>7. NothingIsLost'
    <2>1. \A p \in stored : p \in DOMAIN chain
      BY <1>1 DEF ChainTyped
    <2>2. \A p \in stored : IsNote(p)' <=> IsNote(p)
      BY <1>2, <2>1 DEF IsNote
    <2>3. \A p : Ahead(p)' <=> Ahead(p)
      BY DEF Ahead, Ledger
    <2>4. QED
      BY <1>1, <2>2, <2>3 DEF NothingIsLost
  <1>8. QED
    BY <1>2, <1>3, <1>4, <1>5, <1>6, <1>7

\* Rows that are put in or marked take back nothing either.
LEMMA LossKept ==
  ASSUME NothingIsLost, UNCHANGED <<chain, watermark, scan>>, stored' \subseteq stored,
         DOMAIN rows \subseteq DOMAIN rows', passed \subseteq passed'
  PROVE  NothingIsLost'
  BY DEF NothingIsLost, IsNote, Ahead, Ledger

\* A row that is put in is of an output and right if a scan puts it.
LEMMA PutKeeps ==
  ASSUME RowsAreTrue, NEW p \in DOMAIN chain, NEW row \in Rows, ~row.spent,
         row.received => row.key = chain[p].to /\ row.index = p,
         rows' = Put(p, row), UNCHANGED <<chain, nullified>>
  PROVE  RowsAreTrue' /\ DOMAIN rows \subseteq DOMAIN rows'
  BY DEF RowsAreTrue, Put

\* Marks for nullified outputs are true.
LEMMA MarksKeep ==
  ASSUME RowsAreTrue, NEW S \in SUBSET nullified, UNCHANGED <<chain, nullified>>,
         rows' = [p \in DOMAIN rows |->
                    IF p \in S THEN [rows[p] EXCEPT !.spent = TRUE] ELSE rows[p]]
  PROVE  RowsAreTrue' /\ DOMAIN rows \subseteq DOMAIN rows'
  <1>1. ASSUME NEW p \in DOMAIN rows
        PROVE  /\ rows'[p] \in Rows /\ (rows'[p].spent => p \in nullified)
               /\ rows'[p].received => rows'[p].key = chain[p].to /\ rows'[p].index = p
    <2>1. rows[p] \in Rows
      BY DEF RowsAreTrue
    <2>2. CASE p \in S
      <3>1. rows'[p] = [rows[p] EXCEPT !.spent = TRUE]
        BY <2>2
      <3>2. QED
        BY <2>1, <2>2, <3>1 DEF RowsAreTrue, Rows
    <2>3. CASE p \notin S
      BY <2>1, <2>3 DEF RowsAreTrue
    <2>4. QED
      BY <2>2, <2>3
  <1>2. QED
    BY <1>1 DEF RowsAreTrue

LEMMA NotesBegin == NotesInit => NotesInv
  <1> SUFFICES ASSUME NotesInit PROVE NotesInv
    OBVIOUS
  <1> USE NotesAssumption DEF NotesInit
  <1>1. ChainTyped
    BY DEF ChainTyped
  <1>2. KeysTyped
    BY DEF KeysTyped, NoLogin, Logins
  <1>3. RowsAreTrue
    BY DEF RowsAreTrue
  <1>4. ScanTells
    BY DEF ScanTells, NoScan, Scans, Ledger
  <1>5. JobTells
    BY DEF JobTells, NoJob, Jobs
  <1>6. NothingIsLost
    BY DEF NothingIsLost
  <1>7. QED
    BY <1>1, <1>2, <1>3, <1>4, <1>5, <1>6 DEF NotesInv

---------------------------------------------------------------------------
(***************************************************************************)
(* The pool and the events stored.                                         *)
(***************************************************************************)

LEMMA OthersTransactStep ==
  ASSUME NotesInv, OthersTransact
  PROVE  NotesInv'
  <1>1. PICK pair \in Payments : chain' = chain \o pair
    BY DEF OthersTransact
  <1>2. pair \in Seq(Outputs) /\ Len(pair) = 2
    <2>1. pair \in [1 .. 2 -> Outputs]
      BY NotesAssumption DEF Outputs
    <2>2. pair = [i \in 1 .. 2 |-> pair[i]] /\ \A i \in 1 .. 2 : pair[i] \in Outputs
      BY <2>1
    <2>3. [i \in 1 .. 2 |-> pair[i]] \in Seq(Outputs) /\ Len([i \in 1 .. 2 |-> pair[i]]) = 2
      BY <2>2
    <2>4. QED
      BY <2>2, <2>3
  <1>3. /\ ChainTyped' /\ KeysTyped' /\ RowsAreTrue' /\ ScanTells' /\ NothingIsLost'
        /\ Len(chain') = Len(chain) + 2
    <2>1. /\ Len(chain) + 2 <= MaxOutputs /\ nullified \subseteq nullified'
          /\ nullified' \subseteq DOMAIN chain
          /\ UNCHANGED <<dbVars, keyVars, watermark, scan, passed>>
      BY DEF OthersTransact, actVars, NotesInv, ChainTyped
    <2>2. QED
      BY <1>1, <1>2, <2>1, ChainGrows
  <1>4. JobTells'
    BY <1>3 DEF OthersTransact, NotesInv, JobTells, ChainTyped
  <1>5. QED
    BY <1>3, <1>4 DEF NotesInv

LEMMA SpendElsewhereStep ==
  ASSUME NotesInv, OtherDeviceSpends
  PROVE  NotesInv'
  <1> USE DEF OtherDeviceSpends, dbVars, keyVars, actVars
  <1>1. nullified \subseteq nullified' /\ nullified' \subseteq DOMAIN chain
    BY DEF NotesInv, ChainTyped
  <1>2. ChainTyped' /\ KeysTyped' /\ ScanTells'
    BY <1>1 DEF NotesInv, ChainTyped, KeysTyped, ScanTells, Ledger
  <1>3. RowsAreTrue' /\ JobTells'
    BY <1>1 DEF NotesInv, RowsAreTrue, JobTells
  <1>4. NothingIsLost'
    BY LossKept DEF NotesInv
  <1>5. QED
    BY <1>2, <1>3, <1>4 DEF NotesInv

\* An output that is stored late is passed by, another is ahead.
LEMMA StoreOutputStep ==
  ASSUME NotesInv, StoreOutput
  PROVE  NotesInv'
  <1> USE DEF chainVars, keyVars
  <1>1. PICK p \in DOMAIN chain \ stored :
          /\ stored' = stored \cup {p}
          /\ Pass({p} \cap {q \in DOMAIN chain : Behind(q)})
          /\ UNCHANGED <<chainVars, rows, keyVars, watermark, scan, job, acts>>
    BY DEF StoreOutput
  <1>2. p \in Nat /\ Ledger(p) \in Nat
    BY LedgerType DEF NotesInv, ChainTyped
  <1>3. ChainTyped' /\ KeysTyped' /\ RowsAreTrue' /\ JobTells' /\ ScanTells'
    BY <1>1 DEF NotesInv, ChainTyped, KeysTyped, RowsAreTrue, JobTells, ScanTells, Ledger
  <1>4. NothingIsLost'
    <2>1. /\ \A q : (IsNote(q)' <=> IsNote(q)) /\ (Ahead(q)' <=> Ahead(q))
          /\ passed \subseteq passed' /\ rows' = rows
      BY <1>1 DEF IsNote, Ahead, Ledger, Pass
    <2>2. scan.top \in Nat /\ watermark \in Nat
      BY DEF NotesInv, ScanTells, Scans
    <2>3. Behind(p) \/ Ahead(p)
      BY <1>2, <2>2 DEF Behind, Ahead
    <2>4. Behind(p) /\ IsNote(p) => p \in passed'
      BY <1>1 DEF Pass
    <2>5. QED
      BY <1>1, <2>1, <2>3, <2>4 DEF NotesInv, NothingIsLost
  <1>5. QED
    BY <1>3, <1>4 DEF NotesInv

LEMMA ResetOutputsStep ==
  ASSUME NotesInv, ResetOutputs
  PROVE  NotesInv'
  <1> USE DEF ResetOutputs, chainVars, keyVars
  <1>1. ChainTyped' /\ KeysTyped' /\ RowsAreTrue' /\ JobTells' /\ ScanTells'
    BY DEF NotesInv, ChainTyped, KeysTyped, RowsAreTrue, JobTells, ScanTells, Ledger
  <1>2. NothingIsLost'
    BY DEF NothingIsLost
  <1>3. QED
    BY <1>1, <1>2 DEF NotesInv

---------------------------------------------------------------------------
(***************************************************************************)
(* Accounts and keys.                                                      *)
(***************************************************************************)

LEMMA SwitchStep ==
  ASSUME NotesInv, NEW a \in Accounts \cup {None}, Switch(a)
  PROVE  NotesInv'
  <1> USE DEF Switch, chainVars, dbVars
  <1>1. ChainTyped' /\ KeysTyped' /\ RowsAreTrue' /\ JobTells'
    BY DEF NotesInv, ChainTyped, KeysTyped, RowsAreTrue, JobTells
  <1>2. ScanTells' /\ NothingIsLost'
    BY LossKept DEF NotesInv, ScanTells, Ledger
  <1>3. QED
    BY <1>1, <1>2 DEF NotesInv

LEMMA StartLoginStep ==
  ASSUME NotesInv, StartLogin
  PROVE  NotesInv'
  <1> USE DEF StartLogin, chainVars, dbVars
  <1>1. login' \in Logins
    BY DEF Logins, Signers, NotesInv, KeysTyped
  <1>2. ChainTyped' /\ KeysTyped' /\ RowsAreTrue' /\ JobTells' /\ ScanTells'
    BY <1>1 DEF NotesInv, ChainTyped, KeysTyped, RowsAreTrue, JobTells, ScanTells, Ledger
  <1>3. NothingIsLost'
    BY LossKept DEF NotesInv
  <1>4. QED
    BY <1>2, <1>3 DEF NotesInv

LEMMA LoginSignedStep ==
  ASSUME NotesInv, LoginSigned
  PROVE  NotesInv'
  <1> USE DEF LoginSigned, chainVars, dbVars, actVars
  <1>1. login' \in Logins /\ {enc', note'} \subseteq Accounts \cup {None}
    BY DEF Logins, Signers, NotesInv, KeysTyped, NoLogin
  <1>2. ChainTyped' /\ KeysTyped' /\ RowsAreTrue' /\ JobTells' /\ ScanTells'
    BY <1>1 DEF NotesInv, ChainTyped, KeysTyped, RowsAreTrue, JobTells, ScanTells, Ledger
  <1>3. NothingIsLost'
    BY LossKept DEF NotesInv
  <1>4. QED
    BY <1>2, <1>3 DEF NotesInv

LEMMA LoginRejectedStep ==
  ASSUME NotesInv, LoginRejected
  PROVE  NotesInv'
  <1> USE DEF LoginRejected, chainVars, dbVars, actVars
  <1>1. ChainTyped' /\ KeysTyped' /\ RowsAreTrue' /\ JobTells' /\ ScanTells'
    BY DEF NotesInv, ChainTyped, KeysTyped, RowsAreTrue, JobTells, ScanTells, Ledger,
           NoLogin, Logins
  <1>2. NothingIsLost'
    BY LossKept DEF NotesInv
  <1>3. QED
    BY <1>1, <1>2 DEF NotesInv

---------------------------------------------------------------------------
(***************************************************************************)
(* A sync's scan and check.                                                *)
(***************************************************************************)

\* What the scan is about to read is all that is stored from the watermark
\* on; what lies below was read by an earlier one.
LEMMA StartScanStep ==
  ASSUME NotesInv, StartScan
  PROVE  NotesInv'
  <1> USE DEF chainVars, dbVars, keyVars, actVars
  <1> DEFINE todo == {p \in stored : FromWatermark(p)}
  <1>1. PICK top \in {0} \cup {Ledger(p) : p \in todo} :
          scan' = [at |-> "next", key |-> note, asked |-> None, todo |-> todo,
                   output |-> 0, top |-> top]
    BY DEF StartScan
  <1>2. /\ UNCHANGED <<chainVars, dbVars, keyVars, watermark, job, actVars>>
        /\ note # None
    BY DEF StartScan
  <1>3. note \in Accounts /\ todo \subseteq DOMAIN chain /\ Len(chain) \in Nat
    BY <1>2 DEF NotesInv, ChainTyped, KeysTyped
  <1>4. \A p \in stored : p \in Nat /\ p <= Len(chain) /\ Ledger(p) \in Nat
    <2>1. \A p \in stored : p \in Nat /\ p <= Len(chain)
      BY <1>3 DEF NotesInv, ChainTyped
    <2>2. QED
      BY <2>1, LedgerType
  <1>5. top \in Nat /\ top <= Ledger(Len(chain))
    <2>1. \A p \in todo : Ledger(p) \in Nat /\ Ledger(p) <= Ledger(Len(chain))
      BY <1>3, <1>4, LedgerType
    <2>2. Ledger(Len(chain)) \in Nat
      BY <1>3, LedgerType
    <2>3. QED
      BY <1>1, <2>1, <2>2
  <1>6. ChainTyped' /\ KeysTyped' /\ RowsAreTrue' /\ JobTells'
    BY <1>2 DEF NotesInv, ChainTyped, KeysTyped, RowsAreTrue, JobTells
  <1>7. \A p \in stored : watermark <= Ledger(p) => p \in todo
    BY <1>4 DEF FromWatermark, NotesInv, ScanTells
  <1> HIDE DEF todo
  <1>8. /\ scan'.at = "next" /\ scan'.key = note /\ scan'.todo = todo /\ scan'.top = top
        /\ scan' \in Scans
    <2>1. todo \in SUBSET Nat
      BY <1>3 DEF NotesInv, ChainTyped
    <2>2. QED
      BY <1>1, <1>3, <1>5, <2>1 DEF Scans
  <1>9. ScanTells'
    BY <1>2, <1>3, <1>5, <1>8, NotesAssumption DEF NotesInv, ScanTells, Ledger
  <1>10. NothingIsLost'
    <2>1. \A p : (IsNote(p)' <=> IsNote(p)) /\ Ledger(p)' = Ledger(p)
      BY <1>2 DEF IsNote, Ledger
    <2>2. QED
      BY <1>2, <1>7, <1>8, <2>1 DEF NotesInv, NothingIsLost, Ahead
  <1>11. QED
    BY <1>6, <1>9, <1>10 DEF NotesInv

\* An output that is skipped is saved already, not a note, or passed by.
LEMMA SkipKeeps ==
  ASSUME NotesInv, NEW p \in scan.todo, Skip(p), scan.at # "idle",
         UNCHANGED <<chain, stored, rows, watermark>>, passed \subseteq passed',
         IsNote(p) => p \in DOMAIN rows \cup passed'
  PROVE  ScanTells' /\ NothingIsLost'
  <1> USE DEF Skip
  <1>1. scan \in Scans /\ p \in Nat
    BY DEF NotesInv, ScanTells, Scans
  <1>2. /\ scan'.at = "next" /\ scan'.key = scan.key /\ scan'.top = scan.top
        /\ scan'.todo = scan.todo \ {p} /\ scan' \in Scans
    <2>1. None \in Accounts \cup {None} /\ scan.todo \ {p} \in SUBSET Nat
      BY <1>1 DEF Scans
    <2>2. QED
      BY <1>1, <2>1 DEF Scans
  <1>3. ScanTells'
    BY <1>2 DEF NotesInv, ScanTells, Ledger
  <1>4. NothingIsLost'
    <2>1. \A q : (IsNote(q)' <=> IsNote(q)) /\ Ledger(q)' = Ledger(q)
      BY DEF IsNote, Ledger
    <2>2. QED
      BY <1>2, <2>1 DEF NotesInv, NothingIsLost, Ahead
  <1>5. QED
    BY <1>3, <1>4

\* The step to the prompt or to the saving of an output.
LEMMA HoldKeeps ==
  ASSUME NotesInv, NEW p \in scan.todo, NEW at \in {"signing", "saving"},
         NEW asked \in Accounts \cup {None}, scan.at # "idle",
         scan' = [scan EXCEPT !.at = at, !.asked = asked, !.output = p],
         at = "saving" => chain[p].to = scan.key,
         UNCHANGED <<chain, stored, rows, watermark>>, passed \subseteq passed'
  PROVE  ScanTells' /\ NothingIsLost'
  <1>1. scan \in Scans /\ p \in Nat
    BY DEF NotesInv, ScanTells, Scans
  <1>2. /\ scan'.at = at /\ scan'.key = scan.key /\ scan'.top = scan.top
        /\ scan'.todo = scan.todo /\ scan'.output = p /\ scan' \in Scans
    BY <1>1 DEF Scans
  <1>3. ScanTells'
    BY <1>2 DEF NotesInv, ScanTells, Ledger
  <1>4. NothingIsLost'
    <2>1. \A q : (IsNote(q)' <=> IsNote(q)) /\ Ledger(q)' = Ledger(q)
      BY DEF IsNote, Ledger
    <2>2. QED
      BY <1>2, <2>1 DEF NotesInv, NothingIsLost, Ahead
  <1>5. QED
    BY <1>3, <1>4

LEMMA TryKeeps ==
  ASSUME NotesInv, NEW p \in scan.todo, NEW key, Try(p, key), scan.at # "idle",
         UNCHANGED <<chain, stored, rows, watermark>>
  PROVE  ScanTells' /\ NothingIsLost'
  <1>1. CASE /\ ~(chain[p].to = key /\ chain[p].value /\ Verified(p))
             /\ Skip(p) /\ Pass({q \in {p} : {key, scan.key} # {chain[q].to}})
    <2>1. passed \subseteq passed'
      BY <1>1 DEF Pass
    <2>2. IsNote(p) => {key, scan.key} # {chain[p].to}
      BY <1>1 DEF Verified, IsNote
    <2>3. IsNote(p) => p \in passed'
      BY <1>1, <2>2 DEF Pass
    <2>4. QED
      BY <1>1, <2>1, <2>3, SkipKeeps
  <1>2. CASE /\ chain[p].to = key /\ chain[p].value /\ Verified(p)
             /\ scan' = [scan EXCEPT !.at = "saving", !.asked = None, !.output = p] /\ Pass({})
    <2>1. chain[p].to = scan.key /\ passed \subseteq passed'
      BY <1>2 DEF Verified, Pass
    <2>2. "saving" \in {"signing", "saving"} /\ None \in Accounts \cup {None}
      OBVIOUS
    <2>3. QED
      BY <1>2, <2>1, <2>2, HoldKeeps
  <1>3. QED
    BY <1>1, <1>2 DEF Try

LEMMA ScanNextStep ==
  ASSUME NotesInv, ScanNext
  PROVE  NotesInv'
  <1> USE DEF chainVars, dbVars, keyVars
  <1>1. /\ UNCHANGED <<chainVars, dbVars, keyVars, watermark, job, acts>>
        /\ scan.at = "next"
    BY DEF ScanNext
  <1>2. ChainTyped' /\ KeysTyped' /\ RowsAreTrue' /\ JobTells'
    BY <1>1 DEF NotesInv, ChainTyped, KeysTyped, RowsAreTrue, JobTells
  <1>3. PICK p \in scan.todo :
          \/ p \in DOMAIN rows /\ Skip(p) /\ Pass({})
          \/ Try(p, enc)
          \/ \E a \in Signers :
               /\ scan' = [scan EXCEPT !.at = "signing", !.asked = a, !.output = p]
               /\ Pass({})
    BY DEF ScanNext
  <1>4. CASE p \in DOMAIN rows /\ Skip(p) /\ Pass({})
    <2>1. passed \subseteq passed'
      BY <1>4 DEF Pass
    <2>2. QED
      BY <1>1, <1>2, <1>4, <2>1, SkipKeeps DEF NotesInv
  <1>5. CASE Try(p, enc)
    BY <1>1, <1>2, <1>5, TryKeeps DEF NotesInv
  <1>6. CASE \E a \in Signers :
               /\ scan' = [scan EXCEPT !.at = "signing", !.asked = a, !.output = p]
               /\ Pass({})
    <2>1. PICK a \in Signers :
            scan' = [scan EXCEPT !.at = "signing", !.asked = a, !.output = p]
      BY <1>6
    <2>2. passed \subseteq passed'
      BY <1>6 DEF Pass
    <2>3. a \in Accounts \cup {None}
      BY DEF Signers, NotesInv, KeysTyped
    <2>4. "signing" \in {"signing", "saving"}
      OBVIOUS
    <2>5. QED
      BY <1>1, <1>2, <2>1, <2>2, <2>3, <2>4, HoldKeeps DEF NotesInv
  <1>7. QED
    BY <1>3, <1>4, <1>5, <1>6

LEMMA ScanSignedStep ==
  ASSUME NotesInv, ScanSigned
  PROVE  NotesInv'
  <1> USE DEF chainVars, dbVars
  <1>1. /\ UNCHANGED <<chainVars, dbVars, owner, note, login, watermark, job, acts>>
        /\ scan.at = "signing"
        /\ \/ enc' = scan.asked /\ Try(scan.output, scan.asked)
           \/ enc' = enc /\ Skip(scan.output) /\ Pass({scan.output})
    BY DEF ScanSigned
  <1>2. scan.asked \in Accounts \cup {None} /\ scan.output \in scan.todo
    BY <1>1 DEF NotesInv, ScanTells, Scans
  <1>3. ChainTyped' /\ KeysTyped' /\ RowsAreTrue' /\ JobTells'
    BY <1>1, <1>2 DEF NotesInv, ChainTyped, KeysTyped, RowsAreTrue, JobTells
  <1>4. ScanTells' /\ NothingIsLost'
    <2>1. CASE Try(scan.output, scan.asked)
      BY <1>1, <1>2, <2>1, TryKeeps
    <2>2. CASE Skip(scan.output) /\ Pass({scan.output})
      <3>1. passed \subseteq passed' /\ (IsNote(scan.output) => scan.output \in passed')
        BY <2>2 DEF Pass
      <3>2. QED
        BY <1>1, <1>2, <2>2, <3>1, SkipKeeps
    <2>3. QED
      BY <1>1, <2>1, <2>2
  <1>5. QED
    BY <1>3, <1>4 DEF NotesInv

\* The row holds the scan's key, whoever the owner is by now.
LEMMA ScanSaveStep ==
  ASSUME NotesInv, ScanSave
  PROVE  NotesInv'
  <1> USE DEF chainVars, keyVars, actVars
  <1> DEFINE p == scan.output
             row == [owner |-> owner, key |-> scan.key, index |-> p,
                     spent |-> FALSE, received |-> TRUE]
  <1>1. /\ UNCHANGED <<chainVars, stored, keyVars, watermark, job, actVars>>
        /\ scan.at = "saving" /\ Skip(p)
        /\ rows' = IF p \in DOMAIN rows THEN rows ELSE Put(p, row)
    BY DEF ScanSave
  <1>2. /\ scan \in Scans /\ p \in scan.todo /\ p \in DOMAIN chain
        /\ chain[p].to = scan.key /\ scan.key \in Accounts
    BY <1>1 DEF NotesInv, ScanTells, Scans, ChainTyped
  <1>3. row \in Rows
    BY <1>2, NotesAssumption DEF Rows, NotesInv, KeysTyped, ChainTyped
  <1>4. RowsAreTrue' /\ DOMAIN rows \subseteq DOMAIN rows' /\ p \in DOMAIN rows'
    <2>1. CASE p \in DOMAIN rows
      BY <1>1, <2>1 DEF NotesInv, RowsAreTrue
    <2>2. CASE p \notin DOMAIN rows
      <3>1. rows' = Put(p, row) /\ ~row.spent /\ row.key = chain[p].to /\ row.index = p
        BY <1>1, <1>2, <2>2
      <3>2. p \in DOMAIN rows'
        BY <3>1 DEF Put
      <3> HIDE DEF row
      <3>3. QED
        BY <1>1, <1>2, <1>3, <3>1, <3>2, PutKeeps DEF NotesInv
    <2>3. QED
      BY <2>1, <2>2
  <1>5. ChainTyped' /\ KeysTyped' /\ JobTells'
    BY <1>1 DEF NotesInv, ChainTyped, KeysTyped, JobTells
  <1>6. /\ scan'.at = "next" /\ scan'.key = scan.key /\ scan'.top = scan.top
        /\ scan'.todo = scan.todo \ {p} /\ scan' \in Scans
    <2>1. None \in Accounts \cup {None} /\ scan.todo \ {p} \in SUBSET Nat
      BY <1>2 DEF Scans
    <2>2. QED
      BY <1>1, <1>2, <2>1 DEF Skip, Scans
  <1>7. ScanTells'
    BY <1>1, <1>2, <1>6 DEF NotesInv, ScanTells, Ledger
  <1>8. NothingIsLost'
    <2>1. \A q : (IsNote(q)' <=> IsNote(q)) /\ Ledger(q)' = Ledger(q)
      BY <1>1 DEF IsNote, Ledger
    <2>2. QED
      BY <1>1, <1>4, <1>6, <2>1 DEF NotesInv, NothingIsLost, Ahead
  <1>9. QED
    BY <1>4, <1>5, <1>7, <1>8 DEF NotesInv

\* A scan that has read everything leaves its ledgers to the watermark; marks
\* are for nullifiers that match.
LEMMA ScanDoneStep ==
  ASSUME NotesInv, ScanDone
  PROVE  NotesInv'
  <1> USE DEF chainVars, keyVars, actVars
  <1>1. /\ UNCHANGED <<chainVars, stored, keyVars, job, actVars>>
        /\ scan.at = "next" /\ scan.todo = {} /\ scan' = NoScan
        /\ watermark' = IF scan.top > watermark THEN scan.top ELSE watermark
    BY DEF ScanDone
  <1>2. RowsAreTrue' /\ DOMAIN rows \subseteq DOMAIN rows'
    <2>1. PICK found \in SUBSET {p \in DOMAIN rows : Recognised(p)} :
            rows' = [p \in DOMAIN rows |->
                       IF p \in found THEN [rows[p] EXCEPT !.spent = TRUE] ELSE rows[p]]
      BY DEF ScanDone
    <2>2. found \in SUBSET nullified
      BY DEF Recognised
    <2>3. QED
      BY <1>1, <2>1, <2>2, MarksKeep DEF NotesInv
  <1>3. ChainTyped' /\ KeysTyped' /\ JobTells'
    BY <1>1 DEF NotesInv, ChainTyped, KeysTyped, JobTells
  <1>4. ScanTells'
    <2>1. NoScan \in Scans /\ NoScan.at = "idle" /\ NoScan.todo = {} /\ NoScan.top = 0
      BY DEF NoScan, Scans
    <2>2. scan.top \in Nat /\ Len(chain) \in Nat
      BY DEF NotesInv, ScanTells, Scans, ChainTyped
    <2>3. Ledger(Len(chain)) \in Nat
      BY <2>2, LedgerType
    <2>4. Ledger(Len(chain))' = Ledger(Len(chain))
      BY <1>1 DEF Ledger
    <2>5. QED
      BY <1>1, <2>1, <2>2, <2>3, <2>4 DEF NotesInv, ScanTells
  <1>5. NothingIsLost'
    <2>1. \A q : (IsNote(q)' <=> IsNote(q)) /\ Ledger(q)' = Ledger(q)
      BY <1>1 DEF IsNote, Ledger
    <2>2. QED
      BY <1>1, <1>2, <2>1 DEF NotesInv, NothingIsLost, Ahead, NoScan
  <1>6. QED
    BY <1>2, <1>3, <1>4, <1>5 DEF NotesInv

---------------------------------------------------------------------------
(***************************************************************************)
(* Deposits and spends.                                                    *)
(***************************************************************************)

LEMMA StartDepositStep ==
  ASSUME NotesInv, StartDeposit
  PROVE  NotesInv'
  <1> USE DEF StartDeposit, chainVars, dbVars, keyVars
  <1>1. JobTells'
    <2>1. Len(chain) \in Nat /\ stored \subseteq 1 .. Len(chain) /\ owner \in Accounts
      BY DEF NotesInv, ChainTyped, KeysTyped
    <2>2. IsFiniteSet(1 .. Len(chain)) /\ Cardinality(1 .. Len(chain)) = Len(chain)
      <3>1. PICK n \in Nat : n = Len(chain)
        BY <2>1
      <3>2. IsFiniteSet(1 .. n) /\ Cardinality(1 .. n) = n
        BY FS_Interval
      <3>3. QED
        BY <3>1, <3>2
    <2>3. Cardinality(stored) \in Nat /\ Cardinality(stored) <= Len(chain)
      BY <2>1, <2>2, FS_Subset, FS_CardinalityType
    <2>4. PICK next \in {Cardinality(stored) + 1, Len(chain) + 1} :
            job' = [at |-> "submitting", who |-> owner, index |-> next, place |-> 0]
      OBVIOUS
    <2>5. next \in 1 .. Len(chain) + 1
      BY <2>1, <2>3
    <2>6. QED
      BY <2>1, <2>4, <2>5 DEF JobTells, Jobs
  <1>2. ChainTyped' /\ KeysTyped' /\ RowsAreTrue' /\ ScanTells'
    BY DEF NotesInv, ChainTyped, KeysTyped, RowsAreTrue, ScanTells, Ledger
  <1>3. NothingIsLost'
    BY LossKept DEF NotesInv
  <1>4. QED
    BY <1>1, <1>2, <1>3 DEF NotesInv

LEMMA DepositLandsStep ==
  ASSUME NotesInv, DepositLands
  PROVE  NotesInv'
  <1> DEFINE pair == << [to |-> job.who, value |-> TRUE], [to |-> job.who, value |-> FALSE] >>
  <1>1. job \in Jobs /\ job.who \in Accounts /\ job.index \in 1 .. Len(chain) + 1 /\ Len(chain) \in Nat
    BY DEF NotesInv, JobTells, DepositLands, ChainTyped
  <1>2. pair \in Seq(Outputs) /\ Len(pair) = 2 /\ chain' = chain \o pair
    BY <1>1 DEF DepositLands, Outputs
  <1> HIDE DEF pair
  <1>3. /\ ChainTyped' /\ KeysTyped' /\ RowsAreTrue' /\ ScanTells' /\ NothingIsLost'
        /\ Len(chain') = Len(chain) + 2
    <2>1. /\ Len(chain) + 2 <= MaxOutputs /\ nullified \subseteq nullified'
          /\ nullified' \subseteq DOMAIN chain
          /\ UNCHANGED <<dbVars, keyVars, watermark, scan, passed>>
      BY DEF DepositLands, actVars, NotesInv, ChainTyped
    <2>2. QED
      BY <1>2, <2>1, ChainGrows
  <1>4. JobTells'
    <2>1. job' = [job EXCEPT !.at = "saving", !.place = Len(chain) + 1]
      BY DEF DepositLands
    <2>2. /\ job'.at = "saving" /\ job'.place = Len(chain) + 1 /\ job'.index = job.index
          /\ job'.who = job.who /\ job' \in Jobs
      <3> DEFINE place == Len(chain) + 1
      <3>1. place \in Nat /\ job' = [job EXCEPT !.at = "saving", !.place = place]
        BY <1>1, <2>1
      <3> HIDE DEF place
      <3>2. /\ job'.at = "saving" /\ job'.place = place /\ job'.index = job.index
            /\ job'.who = job.who /\ job' \in Jobs
        BY <1>1, <3>1 DEF Jobs
      <3>3. QED
        BY <3>2 DEF place
    <2>3. QED
      BY <1>1, <1>3, <2>2 DEF JobTells
  <1>5. QED
    BY <1>3, <1>4 DEF NotesInv

LEMMA SaveDepositStep ==
  ASSUME NotesInv, SaveDeposit
  PROVE  NotesInv'
  <1> USE DEF chainVars, keyVars, actVars
  <1> DEFINE second == IF job.at = "saving" THEN 0 ELSE 1
             place == job.place + second
             row == [owner |-> job.who, key |-> job.who, index |-> job.index + second,
                     spent |-> FALSE, received |-> FALSE]
  <1>1. /\ UNCHANGED <<chainVars, stored, keyVars, watermark, scan, actVars>>
        /\ job.at \in {"saving", "saving_change"}
        /\ rows' = Put(place, row)
        /\ job' = IF job.at = "saving" THEN [job EXCEPT !.at = "saving_change"] ELSE NoJob
    BY DEF SaveDeposit
  <1>2. /\ job \in Jobs /\ job.who \in Accounts /\ Len(chain) \in Nat /\ DOMAIN chain = 1 .. Len(chain)
        /\ job.place \in 1 .. Len(chain) - 1 /\ job.index \in 1 .. job.place
        /\ Len(chain) <= MaxOutputs
    BY <1>1 DEF NotesInv, JobTells, ChainTyped
  <1>3. place \in DOMAIN chain /\ row \in Rows /\ ~row.spent /\ ~row.received
    BY <1>2, NotesAssumption DEF Rows
  <1> HIDE DEF place, row
  <1>4. RowsAreTrue' /\ DOMAIN rows \subseteq DOMAIN rows'
    BY <1>1, <1>3, PutKeeps DEF NotesInv
  <1>5. JobTells'
    BY <1>1, <1>2 DEF JobTells, Jobs, NoJob
  <1>6. ChainTyped' /\ KeysTyped' /\ ScanTells'
    BY <1>1 DEF NotesInv, ChainTyped, KeysTyped, ScanTells, Ledger
  <1>7. NothingIsLost'
    BY <1>1, <1>4, LossKept DEF NotesInv
  <1>8. QED
    BY <1>4, <1>5, <1>6, <1>7 DEF NotesInv

LEMMA StartSpendStep ==
  ASSUME NotesInv, StartSpend
  PROVE  NotesInv'
  <1> USE DEF StartSpend, chainVars, dbVars, keyVars
  <1>1. JobTells'
    <2>1. PICK p \in DOMAIN rows :
            job' = [at |-> "spending", who |-> owner, index |-> rows[p].index, place |-> p]
      OBVIOUS
    <2>2. owner \in Accounts /\ p \in DOMAIN chain /\ p \in Nat /\ rows[p].index \in Nat
      BY DEF NotesInv, ChainTyped, KeysTyped, RowsAreTrue, Rows
    <2>3. QED
      BY <2>1, <2>2 DEF JobTells, Jobs
  <1>2. ChainTyped' /\ KeysTyped' /\ RowsAreTrue' /\ ScanTells'
    BY DEF NotesInv, ChainTyped, KeysTyped, RowsAreTrue, ScanTells, Ledger
  <1>3. NothingIsLost'
    BY LossKept DEF NotesInv
  <1>4. QED
    BY <1>1, <1>2, <1>3 DEF NotesInv

\* Only a submission that went through is followed by the local mark.
LEMMA SubmitSpendStep ==
  ASSUME NotesInv, SubmitSpend
  PROVE  NotesInv'
  <1> USE DEF dbVars, keyVars, actVars
  <1>1. /\ UNCHANGED <<dbVars, keyVars, watermark, scan, actVars>> /\ job.at = "spending"
    BY DEF SubmitSpend
  <1>2. job \in Jobs /\ job.who \in Accounts /\ job.place \in DOMAIN chain
    BY <1>1 DEF NotesInv, JobTells
  <1>3. CASE Spendable
    <2> DEFINE nothing == [to |-> job.who, value |-> FALSE]
               pair == <<nothing, nothing>>
    <2>1. /\ Len(chain) + 2 <= MaxOutputs /\ chain' = chain \o pair
          /\ nullified' = nullified \cup {job.place} /\ job' = [job EXCEPT !.at = "marking"]
      BY <1>3 DEF SubmitSpend
    <2>2. pair \in Seq(Outputs) /\ Len(pair) = 2
      BY <1>2 DEF Outputs
    <2> HIDE DEF pair
    <2>3. nullified \subseteq nullified' /\ nullified' \subseteq DOMAIN chain
      BY <1>2, <2>1 DEF NotesInv, ChainTyped
    <2>4. /\ ChainTyped' /\ KeysTyped' /\ RowsAreTrue' /\ ScanTells' /\ NothingIsLost'
          /\ Len(chain') = Len(chain) + 2
      BY <1>1, <2>1, <2>2, <2>3, ChainGrows
    <2>5. JobTells'
      BY <1>2, <2>1, <2>4 DEF JobTells, Jobs, NotesInv, ChainTyped
    <2>6. QED
      BY <2>4, <2>5 DEF NotesInv
  <1>4. CASE ~Spendable
    <2>1. job' = NoJob /\ UNCHANGED chainVars
      BY <1>4 DEF SubmitSpend, AfterRefusal
    <2>2. ChainTyped' /\ KeysTyped' /\ RowsAreTrue' /\ ScanTells' /\ JobTells'
      BY <1>1, <2>1 DEF chainVars, NotesInv, ChainTyped, KeysTyped, RowsAreTrue, ScanTells,
                        Ledger, JobTells, NoJob, Jobs
    <2>3. NothingIsLost'
      BY <1>1, <2>1, LossKept DEF chainVars, NotesInv
    <2>4. QED
      BY <2>2, <2>3 DEF NotesInv
  <1>5. QED
    BY <1>3, <1>4

LEMMA MarkInputStep ==
  ASSUME NotesInv, MarkInput
  PROVE  NotesInv'
  <1> USE DEF chainVars, keyVars, actVars
  <1>1. /\ UNCHANGED <<chainVars, stored, keyVars, watermark, scan, actVars>>
        /\ rows' = MarkSpent(job.place) /\ job' = NoJob /\ job.place \in nullified
    BY DEF MarkInput, NotesInv, JobTells
  <1>2. rows' = [p \in DOMAIN rows |->
                   IF p \in {job.place} THEN [rows[p] EXCEPT !.spent = TRUE] ELSE rows[p]]
    BY <1>1 DEF MarkSpent, NotesInv, RowsAreTrue
  <1>3. RowsAreTrue' /\ DOMAIN rows \subseteq DOMAIN rows'
    BY <1>1, <1>2, MarksKeep DEF NotesInv
  <1>4. ChainTyped' /\ KeysTyped' /\ ScanTells' /\ JobTells'
    BY <1>1 DEF NotesInv, ChainTyped, KeysTyped, ScanTells, Ledger, JobTells, NoJob, Jobs
  <1>5. NothingIsLost'
    BY <1>1, <1>3, LossKept DEF NotesInv
  <1>6. QED
    BY <1>3, <1>4, <1>5 DEF NotesInv

LEMMA JobFailsStep ==
  ASSUME NotesInv, JobFails
  PROVE  NotesInv'
  <1> USE DEF JobFails, chainVars, dbVars, keyVars, actVars
  <1>1. ChainTyped' /\ KeysTyped' /\ RowsAreTrue' /\ ScanTells' /\ JobTells'
    BY DEF NotesInv, ChainTyped, KeysTyped, RowsAreTrue, ScanTells, Ledger, JobTells, NoJob, Jobs
  <1>2. NothingIsLost'
    BY LossKept DEF NotesInv
  <1>3. QED
    BY <1>1, <1>2 DEF NotesInv

---------------------------------------------------------------------------
(***************************************************************************)
(* What may lose rows, or starts anew.                                     *)
(***************************************************************************)

LEMMA ClearStep ==
  ASSUME NotesInv, Clear
  PROVE  NotesInv'
  <1> USE DEF chainVars, keyVars
  <1> DEFINE gone == {p \in DOMAIN rows : rows[p].owner = owner}
  <1>1. /\ UNCHANGED <<chainVars, stored, keyVars, watermark, scan, job>>
        /\ rows' = [p \in DOMAIN rows \ gone |-> rows[p]]
        /\ Pass({p \in gone : Behind(p)})
    BY DEF Clear
  <1> HIDE DEF gone
  <1>2. RowsAreTrue'
    BY <1>1 DEF NotesInv, RowsAreTrue
  <1>3. ChainTyped' /\ KeysTyped' /\ ScanTells' /\ JobTells'
    BY <1>1 DEF NotesInv, ChainTyped, KeysTyped, ScanTells, Ledger, JobTells
  <1>4. NothingIsLost'
    <2>1. ASSUME NEW p \in stored, IsNote(p), p \notin DOMAIN rows' \cup passed'
          PROVE  Ahead(p)
      <3>1. p \in Nat /\ Ledger(p) \in Nat
        BY LedgerType DEF NotesInv, ChainTyped
      <3>2. CASE p \in gone
        <4>1. ~Behind(p)
          BY <1>1, <2>1, <3>2 DEF Pass
        <4>2. QED
          BY <3>1, <4>1 DEF Behind, Ahead, NotesInv, ScanTells, Scans
      <3>3. CASE p \notin gone
        <4>1. p \notin DOMAIN rows \cup passed
          BY <1>1, <2>1, <3>3 DEF Pass
        <4>2. QED
          BY <2>1, <4>1 DEF NotesInv, NothingIsLost
      <3>4. QED
        BY <3>2, <3>3
    <2>2. \A p : (IsNote(p)' <=> IsNote(p)) /\ (Ahead(p)' <=> Ahead(p))
      BY <1>1 DEF IsNote, Ahead, Ledger
    <2>3. QED
      BY <1>1, <2>1, <2>2 DEF NothingIsLost
  <1>5. QED
    BY <1>2, <1>3, <1>4 DEF NotesInv

LEMMA ReloadStep ==
  ASSUME NotesInv, Reload
  PROVE  NotesInv'
  <1> USE DEF Reload, chainVars, dbVars
  <1>1. Len(chain) \in Nat /\ \A p \in stored : Ledger(p)' \in Nat
    BY LedgerType DEF NotesInv, ChainTyped, Ledger
  <1>2. ChainTyped' /\ KeysTyped' /\ RowsAreTrue' /\ JobTells'
    BY DEF NotesInv, ChainTyped, KeysTyped, NoLogin, Logins, RowsAreTrue, JobTells, NoJob, Jobs
  <1>3. ScanTells'
    <2>1. NoScan \in Scans /\ NoScan.at = "idle" /\ NoScan.todo = {} /\ NoScan.top = 0
      BY DEF NoScan, Scans
    <2>2. Ledger(Len(chain))' = Ledger(Len(chain)) /\ Ledger(Len(chain)) \in Nat
      BY <1>1, LedgerType DEF Ledger
    <2>3. QED
      BY <2>1, <2>2 DEF ScanTells
  <1>4. NothingIsLost'
    BY <1>1 DEF NothingIsLost, Ahead, NoScan
  <1>5. QED
    BY <1>2, <1>3, <1>4 DEF NotesInv

LEMMA NotesStep == NotesInv /\ [NotesNext]_notesVars => NotesInv'
  <1> SUFFICES ASSUME NotesInv, [NotesNext]_notesVars PROVE NotesInv'
    OBVIOUS
  <1>1. CASE OthersTransact \/ OtherDeviceSpends \/ StoreOutput \/ ResetOutputs
    BY <1>1, OthersTransactStep, SpendElsewhereStep, StoreOutputStep, ResetOutputsStep
  <1>2. CASE \E a \in Accounts \cup {None} : Switch(a)
    BY <1>2, SwitchStep
  <1>3. CASE StartLogin \/ LoginSigned \/ LoginRejected
    BY <1>3, StartLoginStep, LoginSignedStep, LoginRejectedStep
  <1>4. CASE StartScan \/ ScanNext \/ ScanSigned \/ ScanSave \/ ScanDone
    BY <1>4, StartScanStep, ScanNextStep, ScanSignedStep, ScanSaveStep, ScanDoneStep
  <1>5. CASE StartDeposit \/ DepositLands \/ SaveDeposit
    BY <1>5, StartDepositStep, DepositLandsStep, SaveDepositStep
  <1>6. CASE StartSpend \/ SubmitSpend \/ MarkInput \/ JobFails
    BY <1>6, StartSpendStep, SubmitSpendStep, MarkInputStep, JobFailsStep
  <1>7. CASE Clear \/ Reload
    BY <1>7, ClearStep, ReloadStep
  <1>8. CASE UNCHANGED notesVars
    <2> USE <1>8 DEF notesVars, chainVars, dbVars, keyVars, actVars
    <2>1. ChainTyped' /\ KeysTyped' /\ RowsAreTrue' /\ ScanTells' /\ JobTells'
      BY DEF NotesInv, ChainTyped, KeysTyped, RowsAreTrue, ScanTells, Ledger, JobTells
    <2>2. NothingIsLost'
      BY LossKept DEF NotesInv
    <2>3. QED
      BY <2>1, <2>2 DEF NotesInv
  <1>9. QED
    BY <1>1, <1>2, <1>3, <1>4, <1>5, <1>6, <1>7, <1>8 DEF NotesNext

LEMMA NotesInvariant == NotesSpec => []NotesInv
  <1>1. NotesInit => NotesInv
    BY NotesBegin
  <1>2. NotesInv /\ [NotesNext]_notesVars => NotesInv'
    BY NotesStep
  <1>3. QED
    BY <1>1, <1>2, PTL DEF NotesSpec

---------------------------------------------------------------------------
(***************************************************************************)
(* What the runs check for two accounts, for every number of them.         *)
(***************************************************************************)

\* Rows are of outputs the pool has, a scan has a note key
\* and the watermark is of a ledger there is (note-scanner.js).
THEOREM NotesTypes == NotesSpec => []NotesTypeOK
  <1>1. NotesInv => NotesTypeOK
    <2> SUFFICES ASSUME NotesInv PROVE NotesTypeOK
      OBVIOUS
    <2>1. Len(chain) \in Nat
      BY DEF NotesInv, ChainTyped
    <2>2. Ledger(Len(chain)) \in Nat
      BY <2>1, LedgerType
    <2>3. watermark \in 0 .. Ledger(Len(chain))
      BY <2>2 DEF NotesInv, ScanTells
    <2>4. /\ {owner, enc, note, scan.key, scan.asked} \subseteq Accounts \cup {None}
          /\ scan.at \in {"idle", "next", "signing", "saving"}
          /\ scan.at # "idle" => scan.key # None
      BY DEF NotesInv, KeysTyped, ScanTells, Scans
    <2>5. /\ DOMAIN rows \subseteq DOMAIN chain
          /\ \A p \in DOMAIN rows :
               rows[p] \in [owner : Accounts \cup {None}, key : Accounts,
                            index : 1 .. MaxOutputs + 1, spent : BOOLEAN, received : BOOLEAN]
      BY DEF NotesInv, RowsAreTrue, Rows
    <2>6. QED
      BY <2>1, <2>3, <2>4, <2>5, NotesAssumption
         DEF NotesTypeOK, NotesInv, ChainTyped
  <1>2. QED
    BY <1>1, NotesInvariant, PTL

\* markNoteSpent is only called for what the pool has marked, by the spend
\* flows and by checkSpentNotes.
THEOREM MarksAreTrue == NotesSpec => []SpentMarksAreTrue
  <1>1. NotesInv => SpentMarksAreTrue
    BY DEF NotesInv, RowsAreTrue, SpentMarksAreTrue
  <1>2. QED
    BY <1>1, NotesInvariant, PTL

\* scanForNotes saves a note with the key that opens its commitment, whatever
\* the accounts, the cached keys and a login do meanwhile.
THEOREM ReceivedIsSpendable == NotesSpec => []ReceivedNotesAreSpendable
  <1>1. NotesInv => ReceivedNotesAreSpendable
    BY DEF NotesInv, RowsAreTrue, ReceivedNotesAreSpendable
  <1>2. QED
    BY <1>1, NotesInvariant, PTL

\* lastScannedLedger is honest up to what scanForNotes passed by for a reason.
THEOREM NothingIsMissed == NotesSpec => []ScansMissNothing
  <1>1. NotesInv => ScansMissNothing
    <2> SUFFICES ASSUME NotesInv, NEW p \in stored, IsNote(p), Ledger(p) < watermark,
                        p \notin DOMAIN rows \cup passed
                 PROVE  FALSE
      BY DEF ScansMissNothing
    <2>1. watermark <= Ledger(p)
      BY DEF NotesInv, NothingIsLost, Ahead
    <2>2. p \in Nat /\ watermark \in Nat
      BY DEF NotesInv, ChainTyped, ScanTells
    <2>3. Ledger(p) \in Nat
      BY <2>2, LedgerType
    <2>4. QED
      BY <2>1, <2>2, <2>3
  <1>2. QED
    BY <1>1, NotesInvariant, PTL
---------------------------------------------------------------------------
(***************************************************************************)
(* The two programs that keep notes, side by side.                         *)
(***************************************************************************)

\* The agents of fetch-interceptor.ts and the wallet of note-scanner.js share
\* no state: side by side each keeps its own specification, so that what is
\* proved of one of them alone holds of both.
THEOREM ClientsAreBoth == ClientsSpec => Spec /\ NotesSpec
  <1>1. ClientsInit => Init /\ NotesInit
    BY DEF ClientsInit
  <1>2. [ClientsNext]_<<running, vars, notesVars>> => [Next]_vars /\ [NotesNext]_notesVars
    BY DEF ClientsNext
  <1>3. QED
    BY <1>1, <1>2, PTL DEF ClientsSpec, Spec, NotesSpec

\* The notes, stages and outcomes of fetch-interceptor.ts and the rows, keys
\* and scans of note-scanner.js keep their types.
THEOREM ClientsTypes == ClientsSpec => []ClientsTypeOK
  <1>1. TypeOK /\ NotesTypeOK => ClientsTypeOK
    BY DEF ClientsTypeOK
  <1>2. QED
    BY <1>1, ClientsAreBoth, AgentTypes, NotesTypes, PTL

\* Neither the agents' payments (fetch-interceptor.ts) nor the wallet's notes
\* (note-scanner.js) lose what is promised of them when both are in use.
THEOREM ClientsAreSafe ==
  ClientsSpec =>
    /\ [](/\ OutcomesTellWhoPaid /\ CapturedFixturesAreSpent /\ ZeroNoteAllowsOnePayment
          /\ SpentMarksAreTrue /\ ReceivedNotesAreSpendable /\ ScansMissNothing)
    /\ PaymentsKeepTheirNote
  BY ClientsAreBoth, OutcomesAreTold, CapturesArePaid, OnePaymentBesideZero, MarksAreTrue,
     ReceivedIsSpendable, NothingIsMissed, NotesAreKept, PTL
=============================================================================
