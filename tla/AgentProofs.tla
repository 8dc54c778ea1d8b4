---------------------------- MODULE AgentProofs ----------------------------
(***************************************************************************)
(* What agent.fetch tells its caller and what capture mode leaves behind,  *)
(* proved for every number of agents, fetches, resources and restarts and  *)
(* every file of notes, against a facilitator that keeps Settlement.       *)
(***************************************************************************)
EXTENDS Agent, InductionTheorems

Entries == [bill : Seq(Keys), captured : BOOLEAN]

\* The types TypeOK leaves to the proof.
DataTyped ==
  /\ notes \in NoteFiles
  /\ fixtures \in [Urls -> Entries]
  /\ loaded \in [Agents -> [Urls -> Entries]]
  /\ merging \in [Requests -> [Urls -> Entries]]
  /\ bill \in [Requests -> Seq(Keys)]

\* How far a fetch has come tells what its request, its outcome and its note
\* are: marked once its proof is made.
StageTells(f) ==
  /\ pc[f] \in {"idle", "proving", "replaying", "posting"} => status[f] = "idle"
  /\ pc[f] \in {"capturing", "writing", "retrying"} => status[f] = "success"
  /\ pc[f] # "done" => outcome[f] = "none"
  /\ pc[f] \notin {"idle", "done"} => picked[f] # 0
  /\ pc[f] = "replaying" => FixtureHit(f)
  /\ UnderWay(f) /\ ~FixtureHit(f) => picked[f] \in marks[AgentOf[f]]
  /\ (pc[f] \in {"settling", "capturing", "writing"} /\ ModeOf[AgentOf[f]] = "capture")
       => bill[f] = Bill(picked[f])

\* What a request's status says about its payment; no nullifier pays twice.
StatusTells(f) ==
  /\ status[f] = "idle" => bill[f] = << >>
  /\ status[f] = "success" => f \in paid
  /\ f \in paid => status[f] \in {"open", "failed", "success"} /\ ValuesIn(bill[f]) \subseteq spent

PaymentsAreDisjoint ==
  \A f, g \in paid : f # g => ValuesIn(bill[f]) \cap ValuesIn(bill[g]) = {}

\* What an outcome says about the request's status, which no longer changes
\* where it matters.
OutcomeTells(f) ==
  /\ outcome[f] \in {"passed", "no_funds", "proof_failed"} => status[f] = "idle"
  /\ outcome[f] = "already_spent" => status[f] = "already_spent"
  /\ outcome[f] \in {"retry_402", "served", "error"} => f \in paid

\* A captured entry is spent in the file and in what a fetch is about to write.
CapturesAreSpent ==
  /\ CapturedFixturesAreSpent
  /\ \A f \in Requests, u \in Urls :
       merging[f][u].captured => ValuesIn(merging[f][u].bill) \subseteq spent

AgentInv ==
  /\ TypeOK /\ DataTyped
  /\ \A f \in Requests : StageTells(f) /\ StatusTells(f) /\ OutcomeTells(f)
  /\ PaymentsAreDisjoint
  /\ CapturesAreSpent

Tells(f) == StageTells(f) /\ StatusTells(f) /\ OutcomeTells(f)

---------------------------------------------------------------------------
(***************************************************************************)
(* Notes and bills.                                                        *)
(***************************************************************************)

\* The padding note is a note of the file; with a note of amount zero in the
\* file it is one of those, the same for every payment.
LEMMA NullNoteType ==
  ASSUME notes \in NoteFiles, NEW n \in DOMAIN notes
  PROVE  /\ NullNote(n) \in DOMAIN notes
         /\ \A m : (\E z \in DOMAIN notes : notes[z] = 0) => NullNote(m) = NullNote(n)
  <1> DEFINE zeros == {z \in DOMAIN notes : notes[z] = 0}
             Least(y) == CHOOSE z \in zeros : \A x \in zeros : z <= x
  <1>1. notes \in Seq(Nat) /\ zeros \subseteq Nat
    BY AgentAssumption
  <1>2. CASE zeros = {}
    BY <1>2 DEF NullNote
  <1>3. CASE zeros # {}
    <2>1. \E z \in zeros : \A x \in zeros : z <= x
      <3> HIDE DEF zeros
      <3>1. QED
        BY <1>1, <1>3, LeastNumber
    <2>2. \A m : NullNote(m) = Least(0)
      BY <1>3 DEF NullNote
    <2>3. Least(0) \in zeros
      BY <2>1
    <2>4. QED
      BY <2>2, <2>3
  <1>4. QED
    BY <1>2, <1>3

LEMMA BillType ==
  ASSUME notes \in NoteFiles, NEW n \in DOMAIN notes
  PROVE  Bill(n) \in Seq(Keys) /\ Bill(n) # << >>
  <1>1. DOMAIN notes \subseteq Places
    BY DEF Places
  <1>2. <<NullNote(n), "zero">> \in Nullifiers /\ <<n, "value">> \in Nullifiers
    BY <1>1, NullNoteType, AgentAssumption
  <1>3. Decimal[<<NullNote(n), "zero">>] \in Keys /\ Decimal[<<n, "value">>] \in Keys
    BY <1>2, AgentAssumption
  <1>4. QED
    BY <1>3 DEF Bill

\* The nullifiers a bill of a note stands for.
LEMMA BillValues ==
  ASSUME notes \in NoteFiles, NEW n \in DOMAIN notes
  PROVE  ValuesIn(Bill(n)) = {<<NullNote(n), "zero">>, <<n, "value">>}
  <1>1. DOMAIN notes \subseteq Places
    BY DEF Places
  <1>2. <<NullNote(n), "zero">> \in Nullifiers /\ <<n, "value">> \in Nullifiers
    BY <1>1, NullNoteType, AgentAssumption
  <1>3. /\ ValueOf[Decimal[<<NullNote(n), "zero">>]] = <<NullNote(n), "zero">>
        /\ ValueOf[Decimal[<<n, "value">>]] = <<n, "value">>
    BY <1>2, AgentAssumption
  <1>4. Range(Bill(n)) = {Decimal[<<NullNote(n), "zero">>], Decimal[<<n, "value">>]}
    BY DEF Bill, Range
  <1>5. QED
    BY <1>3, <1>4 DEF ValuesIn

\* The bill of a note is a matter of the file of notes alone.
LEMMA BillKept ==
  ASSUME notes' = notes, NEW n
  PROVE  Bill(n)' = Bill(n)
  BY DEF Bill, NullNote

\* A fetch posts its own proof, or the entry of a fixture file.
LEMMA BillOfType ==
  ASSUME TypeOK, DataTyped, NEW f \in Requests, StageTells(f),
         pc[f] \in {"replaying", "posting"}
  PROVE  /\ BillOf(f) \in Seq(Keys)
         /\ picked[f] \in DOMAIN notes
         /\ ModeOf[AgentOf[f]] = "capture" => BillOf(f) = Bill(picked[f])
  <1>1. picked[f] \in DOMAIN notes
    BY DEF TypeOK, StageTells
  <1>2. AgentOf[f] \in Agents /\ UrlOf[f] \in Urls
    BY AgentAssumption
  <1>3. CASE pc[f] = "replaying"
    <2>1. BillOf(f) = loaded[AgentOf[f]][UrlOf[f]].bill
      BY <1>3 DEF BillOf
    <2>2. loaded[AgentOf[f]][UrlOf[f]] \in Entries
      BY <1>2 DEF DataTyped
    <2>3. ModeOf[AgentOf[f]] # "capture"
      BY <1>3 DEF StageTells, FixtureHit
    <2>4. QED
      BY <1>1, <2>1, <2>2, <2>3 DEF Entries
  <1>4. CASE pc[f] = "posting"
    BY <1>1, <1>4, BillType DEF BillOf, DataTyped
  <1>5. QED
    BY <1>3, <1>4

---------------------------------------------------------------------------
(***************************************************************************)
(* What a step leaves alone.                                               *)
(***************************************************************************)

\* A fetch whose own state does not move keeps what is said of it, whatever
\* is marked, paid and spent by others.
LEMMA OthersKeep ==
  ASSUME NEW h \in Requests, Tells(h),
         notes' = notes, loaded'[AgentOf[h]] = loaded[AgentOf[h]],
         pc'[h] = pc[h], picked'[h] = picked[h], outcome'[h] = outcome[h],
         status'[h] = status[h], bill'[h] = bill[h],
         marks[AgentOf[h]] \subseteq marks'[AgentOf[h]],
         h \in paid' <=> h \in paid, spent \subseteq spent'
  PROVE  Tells(h)'
  <1>1. StageTells(h)'
    <2>1. (FixtureHit(h) <=> FixtureHit(h)') /\ (UnderWay(h) <=> UnderWay(h)')
      BY DEF FixtureHit, UnderWay
    <2>2. bill[h] = Bill(picked[h]) <=> bill'[h] = Bill(picked[h])'
      BY DEF Bill, NullNote
    <2>3. QED
      BY <2>1, <2>2 DEF Tells, StageTells
  <1>2. StatusTells(h)'
    BY DEF Tells, StatusTells
  <1>3. OutcomeTells(h)'
    BY DEF Tells, OutcomeTells
  <1>4. QED
    BY <1>1, <1>2, <1>3 DEF Tells

\* Payments stay disjoint and captures spent where neither moves.
LEMMA SettlementKept ==
  ASSUME AgentInv, UNCHANGED <<paid, bill>>
  PROVE  PaymentsAreDisjoint'
  BY DEF AgentInv, PaymentsAreDisjoint

LEMMA CapturesKept ==
  ASSUME AgentInv, UNCHANGED <<fixtures, merging>>, spent \subseteq spent'
  PROVE  CapturesAreSpent'
  BY DEF AgentInv, CapturesAreSpent, CapturedFixturesAreSpent

LEMMA AgentInit == Init => AgentInv
  <1> SUFFICES ASSUME Init PROVE AgentInv
    OBVIOUS
  <1> USE DEF Init, SettlementInit
  <1>1. NoEntry \in Entries /\ fixtures \in [Urls -> Entries]
    <2>1. << >> \in Seq(Keys)
      OBVIOUS
    <2>2. NoEntry \in Entries
      BY <2>1 DEF NoEntry, Entries
    <2>3. fixtures \in [Urls -> Entries]
      BY AgentAssumption DEF Entries
    <2>4. QED
      BY <2>2, <2>3
  <1>2. DataTyped
    BY <1>1 DEF DataTyped
  <1>3. TypeOK
    BY AgentAssumption DEF TypeOK
  <1>4. \A f \in Requests : Tells(f)
    BY DEF Tells, StageTells, StatusTells, OutcomeTells, UnderWay
  <1>5. PaymentsAreDisjoint
    BY DEF PaymentsAreDisjoint
  <1>6. CapturesAreSpent
    <2>1. \A u \in Urls : ~fixtures[u].captured
      BY AgentAssumption
    <2>2. \A f \in Requests, u \in Urls : ~merging[f][u].captured
      BY DEF NoEntry
    <2>3. QED
      BY <2>1, <2>2 DEF CapturesAreSpent, CapturedFixturesAreSpent
  <1>7. QED
    BY <1>2, <1>3, <1>4, <1>5, <1>6 DEF AgentInv, Tells

---------------------------------------------------------------------------
(***************************************************************************)
(* The steps of one fetch.                                                 *)
(***************************************************************************)

\* A step of fetch f that leaves the files and all payments alone: it is
\* enough to look at f.
LEMMA OwnStep ==
  ASSUME AgentInv, NEW f \in Requests, TypeOK', DataTyped', Tells(f)',
         UNCHANGED <<notes, loaded, paid, spent, fixtures, merging>>,
         \A a \in Agents : marks[a] \subseteq marks'[a],
         \A h \in Requests \ {f} :
           /\ pc'[h] = pc[h] /\ picked'[h] = picked[h] /\ outcome'[h] = outcome[h]
           /\ status'[h] = status[h] /\ bill'[h] = bill[h],
         f \in paid => bill'[f] = bill[f]
  PROVE  AgentInv'
  <1>1. ASSUME NEW h \in Requests PROVE Tells(h)'
    <2>1. CASE h = f
      BY <2>1
    <2>2. CASE h # f
      <3>1. AgentOf[h] \in Agents
        BY AgentAssumption
      <3>2. Tells(h)
        BY DEF AgentInv, Tells
      <3>3. QED
        BY <2>2, <3>1, <3>2, OthersKeep
    <2>3. QED
      BY <2>1, <2>2
  <1>2. PaymentsAreDisjoint'
    <2>1. \A h \in paid : bill'[h] = bill[h]
      BY DEF AgentInv, TypeOK
    <2>2. QED
      BY <2>1 DEF AgentInv, PaymentsAreDisjoint
  <1>3. CapturesAreSpent'
    BY CapturesKept
  <1>4. QED
    BY <1>1, <1>2, <1>3 DEF AgentInv, Tells

LEMMA NoPaymentStep ==
  ASSUME AgentInv, NEW f \in Requests, NoPayment(f)
  PROVE  AgentInv'
  <1> USE DEF NoPayment, Finish, Goto, settlementVars
  <1>1. TypeOK /\ DataTyped /\ Tells(f)
    BY DEF AgentInv, Tells
  <1>2. TypeOK'
    BY <1>1 DEF TypeOK
  <1>3. DataTyped'
    BY <1>1 DEF DataTyped
  <1>4. Tells(f)'
    BY <1>1 DEF Tells, TypeOK, StageTells, StatusTells, OutcomeTells, UnderWay
  <1>5. QED
    BY <1>1, <1>2, <1>3, <1>4, OwnStep DEF TypeOK

\* Nothing that is marked is selected.
LEMMA SelectedNotes ==
  ASSUME NEW a, NEW price
  PROVE  Selected(a, price) \subseteq DOMAIN notes \ marks[a]
  BY DEF Selected

LEMMA SelectStep ==
  ASSUME AgentInv, NEW f \in Requests, Select(f)
  PROVE  AgentInv'
  <1> USE DEF Finish, Goto, settlementVars
  <1>1. TypeOK /\ DataTyped /\ Tells(f)
    BY DEF AgentInv, Tells
  <1>2. CASE Selected(AgentOf[f], Price[UrlOf[f]]) = {}
    <2>1. TypeOK'
      BY <1>1, <1>2 DEF Select, TypeOK
    <2>2. DataTyped'
      BY <1>1 DEF DataTyped, Select
    <2>3. Tells(f)'
      BY <1>1, <1>2 DEF Select, Tells, TypeOK, StageTells, StatusTells, OutcomeTells, UnderWay
    <2>4. QED
      BY <1>1, <1>2, <2>1, <2>2, <2>3, OwnStep DEF Select, TypeOK
  <1>3. CASE Selected(AgentOf[f], Price[UrlOf[f]]) # {}
    <2>1. PICK n \in DOMAIN notes : picked' = [picked EXCEPT ![f] = n]
      BY <1>3, SelectedNotes DEF Select
    <2>2. n # 0
      BY <1>1, AgentAssumption DEF DataTyped
    <2>3. pc' = [pc EXCEPT ![f] = IF FixtureHit(f) THEN "replaying" ELSE "proving"]
          /\ outcome' = outcome
      BY <1>3 DEF Select
    <2>4. TypeOK'
      BY <1>1, <2>1, <2>3 DEF Select, TypeOK, Tells, StageTells, StatusTells
    <2>5. DataTyped'
      BY <1>1 DEF DataTyped, Select
    <2>6. FixtureHit(f)' <=> FixtureHit(f)
      BY DEF Select, FixtureHit
    <2>7. Tells(f)'
      BY <1>1, <2>1, <2>2, <2>3, <2>6
         DEF Select, Tells, TypeOK, StageTells, StatusTells, OutcomeTells, UnderWay
    <2>8. QED
      BY <1>1, <2>1, <2>3, <2>4, <2>5, <2>7, OwnStep DEF Select, TypeOK
  <1>4. QED
    BY <1>2, <1>3

LEMMA ProveStep ==
  ASSUME AgentInv, NEW f \in Requests, Prove(f)
  PROVE  AgentInv'
  <1> USE DEF Prove, Goto, settlementVars
  <1>1. TypeOK /\ DataTyped /\ Tells(f) /\ AgentOf[f] \in Agents
    BY AgentAssumption DEF AgentInv, Tells
  <1>2. picked[f] \in DOMAIN notes
    BY <1>1 DEF Tells, StageTells, TypeOK
  <1>3. TypeOK'
    BY <1>1, <1>2 DEF TypeOK
  <1>4. DataTyped'
    BY <1>1 DEF DataTyped
  <1>5. Tells(f)'
    BY <1>1 DEF Tells, TypeOK, StageTells, StatusTells, OutcomeTells
  <1>6. QED
    BY <1>1, <1>3, <1>4, <1>5, OwnStep DEF TypeOK

LEMMA ProveFailsStep ==
  ASSUME AgentInv, NEW f \in Requests, ProveFails(f)
  PROVE  AgentInv'
  <1> USE DEF ProveFails, Finish, Goto, settlementVars
  <1>1. TypeOK /\ DataTyped /\ Tells(f)
    BY DEF AgentInv, Tells
  <1>2. TypeOK'
    BY <1>1 DEF TypeOK
  <1>3. DataTyped'
    BY <1>1 DEF DataTyped
  <1>4. Tells(f)'
    BY <1>1 DEF Tells, TypeOK, StageTells, StatusTells, OutcomeTells, UnderWay
  <1>5. QED
    BY <1>1, <1>2, <1>3, <1>4, OwnStep DEF TypeOK

\* The call that arrives binds its bill; a call that fails binds none.
LEMMA PostSettleStep ==
  ASSUME AgentInv, NEW f \in Requests, PostSettle(f)
  PROVE  AgentInv'
  <1> USE DEF Finish, Goto, settlementVars
  <1>1. TypeOK /\ DataTyped /\ Tells(f) /\ pc[f] \in {"replaying", "posting"}
    BY DEF AgentInv, Tells, PostSettle
  <1>2. CASE Finish(f, "thrown") /\ UNCHANGED settlementVars
    <2>1. TypeOK'
      BY <1>1, <1>2 DEF PostSettle, TypeOK
    <2>2. Tells(f)'
      BY <1>1, <1>2 DEF PostSettle, Tells, TypeOK, StageTells, StatusTells, OutcomeTells, UnderWay
    <2>3. DataTyped'
      BY <1>1, <1>2 DEF DataTyped, PostSettle
    <2>4. QED
      BY <1>1, <1>2, <2>1, <2>2, <2>3, OwnStep DEF PostSettle, TypeOK
  <1>3. CASE Post(f, BillOf(f)) /\ Goto(f, "settling") /\ UNCHANGED outcome
    <2>1. /\ BillOf(f) \in Seq(Keys) /\ picked[f] \in DOMAIN notes
          /\ ModeOf[AgentOf[f]] = "capture" => BillOf(f) = Bill(picked[f])
      BY <1>1, BillOfType DEF Tells
    <2>2. /\ pc' = [pc EXCEPT ![f] = "settling"] /\ outcome' = outcome
          /\ bill' = [bill EXCEPT ![f] = BillOf(f)]
          /\ UNCHANGED <<paid, spent, notes, marks, loaded, picked, merging, fixtures, restarts>>
      BY <1>3 DEF PostSettle, Post
    <2>3. /\ status' \in [Requests -> {"idle", "open", "success", "already_spent", "failed"}]
          /\ status'[f] \in {"open", "already_spent"}
          /\ \A h \in Requests \ {f} : status'[h] = status[h]
      BY <1>1, <1>3 DEF Post, TypeOK
    <2>4. f \notin paid
      BY <1>1 DEF Tells, StageTells, StatusTells
    <2>5. TypeOK' /\ DataTyped'
      <3>1. bill' \in [Requests -> Seq(Keys)]
        BY <1>1, <2>1, <2>2 DEF DataTyped
      <3>2. picked[f] # 0 /\ \A h \in Requests \ {f} : bill'[h] = bill[h]
        BY <1>1, <2>2 DEF Tells, StageTells, DataTyped
      <3>3. \A h \in Requests : bill'[h] \in Seq(Keys) /\ (picked'[h] = 0 => bill'[h] = << >>)
        BY <1>1, <2>2, <3>1, <3>2 DEF TypeOK
      <3>4. QED
        BY <1>1, <2>2, <2>3, <3>1, <3>3 DEF TypeOK, DataTyped
    <2>6. Tells(f)'
      <3>1. (FixtureHit(f)' <=> FixtureHit(f)) /\ bill'[f] = BillOf(f)
        BY <1>1, <2>2 DEF FixtureHit, DataTyped
      <3>2. Bill(picked[f])' = Bill(picked[f])
        BY <2>2 DEF Bill, NullNote
      <3>3. StageTells(f)'
        BY <1>1, <2>1, <2>2, <3>1, <3>2 DEF Tells, StageTells, UnderWay, TypeOK
      <3>4. StatusTells(f)' /\ OutcomeTells(f)'
        BY <1>1, <2>2, <2>3, <2>4 DEF Tells, StageTells, StatusTells, OutcomeTells
      <3>5. QED
        BY <3>3, <3>4 DEF Tells
    <2>7. QED
      BY <1>1, <2>2, <2>3, <2>4, <2>5, <2>6, OwnStep DEF TypeOK, DataTyped
  <1>4. QED
    BY <1>2, <1>3 DEF PostSettle

\* Only a payment that went through is answered with success, and only
\* success is taken for it.
LEMMA AnsweredStep ==
  ASSUME AgentInv, NEW f \in Requests, Answered(f)
  PROVE  AgentInv'
  <1> USE DEF Answered, Finish, Goto, settlementVars, IsSettled, AfterSettle
  <1>1. TypeOK /\ DataTyped /\ Tells(f)
    BY DEF AgentInv, Tells
  <1>2. TypeOK'
    BY <1>1 DEF TypeOK
  <1>3. DataTyped'
    BY <1>1 DEF DataTyped
  <1>4. (FixtureHit(f)' <=> FixtureHit(f)) /\ Bill(picked[f])' = Bill(picked[f])
    BY DEF FixtureHit, Bill, NullNote
  <1>5. StageTells(f)'
    BY <1>1, <1>4 DEF Tells, TypeOK, StageTells, UnderWay
  <1>6. StatusTells(f)' /\ OutcomeTells(f)'
    BY <1>1 DEF Tells, TypeOK, StageTells, StatusTells, OutcomeTells
  <1>7. QED
    BY <1>1, <1>2, <1>3, <1>5, <1>6, OwnStep DEF TypeOK, Tells

LEMMA AnswerLostStep ==
  ASSUME AgentInv, NEW f \in Requests, AnswerLost(f)
  PROVE  AgentInv'
  <1> USE DEF AnswerLost, Finish, Goto, settlementVars
  <1>1. TypeOK /\ DataTyped /\ Tells(f)
    BY DEF AgentInv, Tells
  <1>2. TypeOK'
    BY <1>1 DEF TypeOK
  <1>3. DataTyped'
    BY <1>1 DEF DataTyped
  <1>4. Tells(f)'
    BY <1>1 DEF Tells, TypeOK, StageTells, StatusTells, OutcomeTells, UnderWay
  <1>5. QED
    BY <1>1, <1>2, <1>3, <1>4, OwnStep DEF TypeOK

\* Whatever the server answers to the paid request, it was paid.
LEMMA RetryStep ==
  ASSUME AgentInv, NEW f \in Requests, Retry(f)
  PROVE  AgentInv'
  <1> USE DEF Finish, Goto, settlementVars
  <1>1. TypeOK /\ DataTyped /\ Tells(f)
    BY DEF AgentInv, Tells
  <1>2. PICK how \in {"thrown", "retry_402", "served", "error"} : Finish(f, how)
    BY DEF Retry
  <1>3. TypeOK'
    BY <1>1, <1>2 DEF Retry, TypeOK
  <1>4. DataTyped'
    BY <1>1 DEF Retry, DataTyped
  <1>5. f \in paid
    BY <1>1 DEF Retry, Tells, StageTells, StatusTells
  <1>6. Tells(f)'
    BY <1>1, <1>2, <1>5
       DEF Retry, Tells, TypeOK, StageTells, StatusTells, OutcomeTells, UnderWay
  <1>7. QED
    BY <1>1, <1>2, <1>3, <1>4, <1>6, OwnStep DEF Retry, TypeOK

\* What is read is the file or nothing.
LEMMA CaptureReadStep ==
  ASSUME AgentInv, NEW f \in Requests, CaptureRead(f)
  PROVE  AgentInv'
  <1> USE DEF Goto, settlementVars
  <1>1. TypeOK /\ DataTyped /\ Tells(f)
    BY DEF AgentInv, Tells
  <1>2. /\ pc[f] = "capturing" /\ pc' = [pc EXCEPT ![f] = "writing"]
        /\ UNCHANGED <<notes, marks, loaded, picked, outcome, fixtures, restarts, status, bill, paid, spent>>
    BY DEF CaptureRead
  <1>3. PICK read \in {fixtures, [u \in Urls |-> NoEntry]} : merging' = [merging EXCEPT ![f] = read]
    BY DEF CaptureRead
  <1>4. NoEntry \in Entries /\ ~NoEntry.captured
    <2>1. << >> \in Seq(Keys)
      OBVIOUS
    <2>2. QED
      BY <2>1 DEF NoEntry, Entries
  <1>5. /\ read \in [Urls -> Entries]
        /\ \A u \in Urls : read[u].captured => ValuesIn(read[u].bill) \subseteq spent
    BY <1>1, <1>4 DEF DataTyped, AgentInv, CapturesAreSpent, CapturedFixturesAreSpent
  <1>6. TypeOK'
    BY <1>1, <1>2 DEF TypeOK
  <1>7. DataTyped'
    BY <1>1, <1>2, <1>3, <1>5 DEF DataTyped
  <1>8. ASSUME NEW h \in Requests PROVE Tells(h)'
    <2>1. CASE h # f
      BY <1>1, <1>2, <2>1, OthersKeep DEF AgentInv, Tells, TypeOK
    <2>2. CASE h = f
      <3>1. (FixtureHit(f)' <=> FixtureHit(f)) /\ Bill(picked[f])' = Bill(picked[f])
        BY <1>2 DEF FixtureHit, Bill, NullNote
      <3>2. QED
        BY <1>1, <1>2, <2>2, <3>1
           DEF Tells, TypeOK, StageTells, StatusTells, OutcomeTells, UnderWay
    <2>3. QED
      BY <2>1, <2>2
  <1>9. CapturesAreSpent'
    <2>1. \A h \in Requests, u \in Urls :
            merging'[h][u].captured => ValuesIn(merging'[h][u].bill) \subseteq spent
      BY <1>1, <1>3, <1>5 DEF DataTyped, AgentInv, CapturesAreSpent
    <2>2. QED
      BY <1>2, <2>1 DEF AgentInv, CapturesAreSpent, CapturedFixturesAreSpent
  <1>10. PaymentsAreDisjoint'
    BY <1>2, SettlementKept
  <1>11. QED
    BY <1>6, <1>7, <1>8, <1>9, <1>10 DEF AgentInv, Tells

\* The entry that is added is of the fetch's own payment, which went through.
LEMMA CaptureWriteStep ==
  ASSUME AgentInv, NEW f \in Requests, CaptureWrite(f)
  PROVE  AgentInv'
  <1> USE DEF Goto, settlementVars
  <1> DEFINE entry == [bill |-> Bill(picked[f]), captured |-> TRUE]
             blank == [u \in Urls |-> NoEntry]
  <1>1. TypeOK /\ DataTyped /\ Tells(f) /\ UrlOf[f] \in Urls
    BY AgentAssumption DEF AgentInv, Tells
  <1>2. /\ pc[f] = "writing" /\ pc' = [pc EXCEPT ![f] = "retrying"]
        /\ merging' = [merging EXCEPT ![f] = blank]
        /\ fixtures' \in {fixtures, [merging[f] EXCEPT ![UrlOf[f]] = entry]}
        /\ UNCHANGED <<notes, marks, loaded, picked, outcome, restarts, status, bill, paid, spent>>
    BY DEF CaptureWrite
  <1>3. entry \in Entries /\ ValuesIn(entry.bill) \subseteq spent
    <2>1. picked[f] \in DOMAIN notes
      BY <1>1, <1>2 DEF Tells, StageTells, TypeOK
    <2>2. Bill(picked[f]) \in Seq(Keys)
      BY <1>1, <2>1, BillType DEF DataTyped
    <2>3. bill[f] = Bill(picked[f])
      BY <1>1, <1>2 DEF Tells, StageTells, TypeOK
    <2>4. ValuesIn(bill[f]) \subseteq spent
      BY <1>1, <1>2 DEF Tells, StageTells, StatusTells
    <2>5. QED
      BY <2>2, <2>3, <2>4 DEF Entries
  <1>4. blank \in [Urls -> Entries] /\ \A u \in Urls : ~blank[u].captured
    <2>1. << >> \in Seq(Keys)
      OBVIOUS
    <2>2. QED
      BY <2>1 DEF NoEntry, Entries
  <1> HIDE DEF entry, blank
  <1>5. /\ fixtures' \in [Urls -> Entries]
        /\ \A u \in Urls : fixtures'[u].captured => ValuesIn(fixtures'[u].bill) \subseteq spent
    <2>1. CASE fixtures' = fixtures
      BY <1>1, <2>1 DEF DataTyped, AgentInv, CapturesAreSpent, CapturedFixturesAreSpent
    <2>2. CASE fixtures' = [merging[f] EXCEPT ![UrlOf[f]] = entry]
      <3>1. merging[f] \in [Urls -> Entries]
        BY <1>1 DEF DataTyped
      <3>2. \A u \in Urls : merging[f][u].captured => ValuesIn(merging[f][u].bill) \subseteq spent
        BY DEF AgentInv, CapturesAreSpent
      <3>3. QED
        BY <1>1, <1>3, <2>2, <3>1, <3>2
    <2>3. QED
      BY <1>2, <2>1, <2>2
  <1>6. TypeOK'
    BY <1>1, <1>2 DEF TypeOK
  <1>7. DataTyped'
    BY <1>1, <1>2, <1>4, <1>5 DEF DataTyped
  <1>8. ASSUME NEW h \in Requests PROVE Tells(h)'
    <2>1. CASE h # f
      BY <1>1, <1>2, <2>1, OthersKeep DEF AgentInv, Tells, TypeOK
    <2>2. CASE h = f
      <3>1. FixtureHit(f)' <=> FixtureHit(f)
        BY <1>2 DEF FixtureHit
      <3>2. QED
        BY <1>1, <1>2, <2>2, <3>1
           DEF Tells, TypeOK, StageTells, StatusTells, OutcomeTells, UnderWay
    <2>3. QED
      BY <2>1, <2>2
  <1>9. CapturesAreSpent'
    <2>1. \A h \in Requests, u \in Urls :
            merging'[h][u].captured => ValuesIn(merging'[h][u].bill) \subseteq spent
      BY <1>1, <1>2, <1>4 DEF DataTyped, AgentInv, CapturesAreSpent
    <2>2. QED
      BY <1>2, <1>5, <2>1 DEF CapturesAreSpent, CapturedFixturesAreSpent
  <1>10. PaymentsAreDisjoint'
    BY <1>2, SettlementKept
  <1>11. QED
    BY <1>6, <1>7, <1>8, <1>9, <1>10 DEF AgentInv, Tells

---------------------------------------------------------------------------
(***************************************************************************)
(* The steps of a process, of the facilitator and of others.               *)
(***************************************************************************)

\* Of a fetch that is gone nothing is said but what its request was.
LEMMA RestartStep ==
  ASSUME AgentInv, NEW a \in Agents, Restart(a)
  PROVE  AgentInv'
  <1> USE DEF settlementVars
  <1> DEFINE gone(f) == AgentOf[f] = a /\ pc[f] \notin {"idle", "done"}
             blank == [u \in Urls |-> NoEntry]
  <1>1. TypeOK /\ DataTyped
    BY DEF AgentInv
  <1>2. /\ marks' = [marks EXCEPT ![a] = {}]
        /\ loaded' = IF ModeOf[a] = "live" THEN loaded ELSE [loaded EXCEPT ![a] = fixtures]
        /\ pc' = [f \in Requests |-> IF gone(f) THEN "done" ELSE pc[f]]
        /\ outcome' = [f \in Requests |-> IF gone(f) THEN "gone" ELSE outcome[f]]
        /\ merging' = [f \in Requests |-> IF AgentOf[f] = a THEN blank ELSE merging[f]]
        /\ restarts' = restarts + 1 /\ restarts < MaxRestarts
        /\ UNCHANGED <<status, bill, paid, spent, notes, picked, fixtures>>
    BY DEF Restart
  <1>3. blank \in [Urls -> Entries] /\ \A u \in Urls : ~blank[u].captured
    <2>1. << >> \in Seq(Keys)
      OBVIOUS
    <2>2. QED
      BY <2>1 DEF NoEntry, Entries
  <1>4. TypeOK'
    BY <1>1, <1>2, AgentAssumption DEF TypeOK
  <1>5. DataTyped'
    <2>1. loaded' \in [Agents -> [Urls -> Entries]]
      BY <1>1, <1>2 DEF DataTyped
    <2>2. merging' \in [Requests -> [Urls -> Entries]]
      <3> HIDE DEF blank
      <3>1. QED
        BY <1>1, <1>2, <1>3 DEF DataTyped
    <2>3. QED
      BY <1>1, <1>2, <2>1, <2>2 DEF DataTyped
  <1>6. ASSUME NEW h \in Requests PROVE Tells(h)'
    <2>1. Tells(h) /\ AgentOf[h] \in Agents
      BY AgentAssumption DEF AgentInv, Tells
    <2>2. CASE AgentOf[h] # a
      <3>1. /\ marks'[AgentOf[h]] = marks[AgentOf[h]] /\ loaded'[AgentOf[h]] = loaded[AgentOf[h]]
            /\ pc'[h] = pc[h] /\ outcome'[h] = outcome[h]
        BY <1>1, <1>2, <2>1, <2>2 DEF TypeOK, DataTyped
      <3>2. QED
        BY <1>2, <2>1, <3>1, OthersKeep
    <2>3. CASE AgentOf[h] = a
      <3>1. pc'[h] \in {"idle", "done"} /\ (pc'[h] = "idle" => pc[h] = "idle")
        BY <1>1, <1>2, <2>3 DEF TypeOK
      <3>2. outcome'[h] \in {"gone", outcome[h]} /\ (pc'[h] = "idle" => outcome'[h] = outcome[h])
        BY <1>1, <1>2, <2>3
      <3>3. StageTells(h)'
        BY <1>2, <2>1, <3>1, <3>2 DEF Tells, StageTells, UnderWay
      <3>4. StatusTells(h)' /\ OutcomeTells(h)'
        BY <1>2, <2>1, <3>2 DEF Tells, StatusTells, OutcomeTells
      <3>5. QED
        BY <3>3, <3>4 DEF Tells
    <2>4. QED
      BY <2>2, <2>3
  <1>7. CapturesAreSpent'
    <2>1. \A h \in Requests : merging'[h] \in {blank, merging[h]}
      BY <1>2
    <2> HIDE DEF blank
    <2>2. QED
      BY <1>2, <1>3, <2>1 DEF AgentInv, CapturesAreSpent, CapturedFixturesAreSpent
  <1>8. PaymentsAreDisjoint'
    BY <1>2, SettlementKept
  <1>9. QED
    BY <1>4, <1>5, <1>6, <1>7, <1>8 DEF AgentInv, Tells

\* A payment spends nullifiers that no payment has spent before.
LEMMA PayStep ==
  ASSUME AgentInv, NEW f \in Requests, Pay(f), UNCHANGED agentVars
  PROVE  AgentInv'
  <1> USE DEF Pay, agentVars
  <1>1. TypeOK /\ DataTyped
    BY DEF AgentInv
  <1>2. ValuesIn(bill[f]) \subseteq Nullifiers
    <2>1. \A n \in DOMAIN bill[f] : bill[f][n] \in Keys
      BY <1>1 DEF DataTyped
    <2>2. QED
      BY <2>1, AgentAssumption DEF ValuesIn, Range
  <1>3. TypeOK'
    BY <1>1, <1>2 DEF TypeOK
  <1>4. DataTyped'
    BY <1>1 DEF DataTyped
  <1>5. ASSUME NEW h \in Requests PROVE Tells(h)'
    <2>1. CASE h # f
      BY <2>1, OthersKeep DEF AgentInv, Tells
    <2>2. CASE h = f
      <3>1. Tells(f)
        BY DEF AgentInv, Tells
      <3>2. StageTells(f)'
        BY <3>1, BillKept DEF Tells, StageTells, UnderWay, FixtureHit
      <3>3. StatusTells(f)' /\ OutcomeTells(f)'
        BY <3>1 DEF Tells, StatusTells, OutcomeTells
      <3>4. QED
        BY <2>2, <3>2, <3>3 DEF Tells
    <2>3. QED
      BY <2>1, <2>2
  <1>6. PaymentsAreDisjoint'
    <2>1. \A h \in paid : ValuesIn(bill[h]) \subseteq spent
      BY <1>1 DEF AgentInv, StatusTells, TypeOK
    <2>2. \A h \in paid : ValuesIn(bill[h]) \cap ValuesIn(bill[f]) = {}
      BY <2>1
    <2>3. QED
      BY <2>2 DEF AgentInv, PaymentsAreDisjoint
  <1>7. CapturesAreSpent'
    BY CapturesKept
  <1>8. QED
    BY <1>3, <1>4, <1>5, <1>6, <1>7 DEF AgentInv, Tells

LEMMA AnswersStep ==
  ASSUME AgentInv, UNCHANGED agentVars,
         (\E f \in Requests : AnswerSuccess(f)) \/ (\E rs \in SUBSET Requests : AnswerFailed(rs))
  PROVE  AgentInv'
  <1> USE DEF agentVars
  <1>1. TypeOK /\ DataTyped
    BY DEF AgentInv
  <1>2. /\ UNCHANGED <<bill, paid, spent>>
        /\ status' \in [Requests -> {"idle", "open", "success", "already_spent", "failed"}]
        /\ \A f \in Requests :
             \/ status'[f] = status[f]
             \/ status[f] = "open" /\ status'[f] = "success" /\ f \in paid
             \/ status[f] = "open" /\ status'[f] = "failed"
    <2>1. ASSUME NEW f \in Requests, AnswerSuccess(f) PROVE <1>2!1 /\ <1>2!2 /\ <1>2!3
      BY <1>1, <2>1 DEF AnswerSuccess, TypeOK
    <2>2. ASSUME NEW rs \in SUBSET Requests, AnswerFailed(rs) PROVE <1>2!1 /\ <1>2!2 /\ <1>2!3
      BY <1>1, <2>2 DEF AnswerFailed, TypeOK
    <2>3. QED
      BY <2>1, <2>2
  <1>3. TypeOK'
    BY <1>1, <1>2 DEF TypeOK
  <1>4. DataTyped'
    BY <1>1, <1>2 DEF DataTyped
  <1>5. ASSUME NEW h \in Requests PROVE Tells(h)'
    <2>1. Tells(h)
      BY DEF AgentInv, Tells
    <2>2. StageTells(h)'
      BY <1>2, <2>1, BillKept DEF Tells, StageTells, UnderWay, FixtureHit
    <2>3. StatusTells(h)' /\ OutcomeTells(h)'
      BY <1>2, <2>1 DEF Tells, StatusTells, OutcomeTells
    <2>4. QED
      BY <2>2, <2>3 DEF Tells
  <1>6. QED
    BY <1>2, <1>3, <1>4, <1>5, SettlementKept, CapturesKept DEF AgentInv, Tells

LEMMA SpentByAnotherStep ==
  ASSUME AgentInv, SpentByAnother
  PROVE  AgentInv'
  <1> USE DEF SpentByAnother, SpendElsewhere, agentVars
  <1>1. TypeOK' /\ DataTyped'
    BY AgentAssumption DEF AgentInv, TypeOK, DataTyped
  <1>2. ASSUME NEW h \in Requests PROVE Tells(h)'
    BY OthersKeep DEF AgentInv, Tells
  <1>3. QED
    BY <1>1, <1>2, SettlementKept, CapturesKept DEF AgentInv, Tells

LEMMA AgentStep == AgentInv /\ [Next]_vars => AgentInv'
  <1> SUFFICES ASSUME AgentInv, [Next]_vars PROVE AgentInv'
    OBVIOUS
  <1>1. CASE \E f \in Requests : NoPayment(f) \/ Select(f) \/ Prove(f) \/ ProveFails(f)
    BY <1>1, NoPaymentStep, SelectStep, ProveStep, ProveFailsStep
  <1>2. CASE \E f \in Requests : PostSettle(f) \/ Answered(f) \/ AnswerLost(f)
    BY <1>2, PostSettleStep, AnsweredStep, AnswerLostStep
  <1>3. CASE \E f \in Requests : CaptureRead(f) \/ CaptureWrite(f) \/ Retry(f)
    BY <1>3, CaptureReadStep, CaptureWriteStep, RetryStep
  <1>4. CASE \E a \in Agents : Restart(a)
    BY <1>4, RestartStep
  <1>5. CASE Settles
    <2>1. CASE \E f \in Requests : Pay(f)
      BY <1>5, <2>1, PayStep DEF Settles
    <2>2. CASE ~ \E f \in Requests : Pay(f)
      <3>1. /\ UNCHANGED agentVars
            /\ (\E f \in Requests : AnswerSuccess(f)) \/ (\E rs \in SUBSET Requests : AnswerFailed(rs))
        BY <1>5, <2>2 DEF Settles
      <3>2. QED
        BY <3>1, AnswersStep
    <2>3. QED
      BY <2>1, <2>2
  <1>6. CASE SpentByAnother
    BY <1>6, SpentByAnotherStep
  <1>7. CASE UNCHANGED vars
    <2>1. TypeOK' /\ DataTyped'
      BY <1>7 DEF vars, settlementVars, agentVars, AgentInv, TypeOK, DataTyped
    <2>2. ASSUME NEW h \in Requests PROVE Tells(h)'
      BY <1>7, OthersKeep DEF vars, settlementVars, agentVars, AgentInv, Tells
    <2>3. QED
      BY <1>7, <2>1, <2>2, SettlementKept, CapturesKept
         DEF vars, settlementVars, agentVars, AgentInv, Tells
  <1>8. QED
    BY <1>1, <1>2, <1>3, <1>4, <1>5, <1>6, <1>7 DEF Next

LEMMA AgentInvariant == Spec => []AgentInv
  BY AgentInit, AgentStep, PTL DEF Spec

---------------------------------------------------------------------------
(***************************************************************************)
(* What the runs check on a small organisation, for every one.             *)
(***************************************************************************)

\* TypeOK of Agent: notes, marks, stages, outcomes and payments keep their
\* types, only capture mode gets to the fixture file, and nothing is posted
\* for a fetch that picked no note (fetch-interceptor.ts).
THEOREM AgentTypes == Spec => []TypeOK
  <1>1. AgentInv => TypeOK
    BY DEF AgentInv
  <1>2. QED
    BY <1>1, AgentInvariant, PTL

\* The reason of an EnclavePaymentError tells whether money left (the throws
\* of fetch-interceptor.ts, against POST /settle).
THEOREM OutcomesAreTold == Spec => []OutcomesTellWhoPaid
  <1>1. AgentInv => OutcomesTellWhoPaid
    <2> SUFFICES ASSUME AgentInv, NEW f \in Requests
                 PROVE  /\ outcome[f] \in {"passed", "no_funds", "proof_failed", "already_spent"}
                             => f \notin paid
                        /\ outcome[f] \in {"retry_402", "served", "error"} => f \in paid
      BY DEF OutcomesTellWhoPaid
    <2>1. StatusTells(f) /\ OutcomeTells(f)
      BY DEF AgentInv
    <2>2. QED
      BY <2>1 DEF StatusTells, OutcomeTells
  <1>2. QED
    BY <1>1, AgentInvariant, PTL

\* Whatever fetches, agents and restarts wrote into the fixture file, what
\* capture mode left there was paid with (saveFixture).
THEOREM CapturesArePaid == Spec => []CapturedFixturesAreSpent
  <1>1. AgentInv => CapturedFixturesAreSpent
    BY DEF AgentInv, CapturesAreSpent
  <1>2. QED
    BY <1>1, AgentInvariant, PTL

\* Two payments proved beside a note of amount zero disclose the same
\* nullifier, so there is only one (note-selector.ts, the null note).
THEOREM OnePaymentBesideZero == Spec => []ZeroNoteAllowsOnePayment
  <1>1. AgentInv => ZeroNoteAllowsOnePayment
    <2> SUFFICES ASSUME AgentInv, \E z \in DOMAIN notes : notes[z] = 0
                 PROVE  Cardinality({f \in paid : Proven(f)}) <= 1
      BY DEF ZeroNoteAllowsOnePayment
    <2> DEFINE proven == {f \in paid : Proven(f)}
    <2>1. ASSUME NEW f \in proven
          PROVE  <<NullNote(0), "zero">> \in ValuesIn(bill[f])
      <3>1. bill[f] = Bill(picked[f]) /\ f \in Requests
        BY <2>1 DEF Proven, AgentInv, TypeOK
      <3>2. picked[f] \in DOMAIN notes /\ notes \in NoteFiles
        BY <3>1, <2>1 DEF AgentInv, TypeOK, DataTyped, Proven
      <3>3. NullNote(picked[f]) = NullNote(0)
        BY <3>2, NullNoteType
      <3>4. QED
        BY <3>1, <3>2, <3>3, BillValues
    <2>2. \A f, g \in proven : f = g
      BY <2>1 DEF AgentInv, PaymentsAreDisjoint
    <2> HIDE DEF proven
    <2>3. CASE proven = {}
      BY <2>3, FS_EmptySet DEF proven
    <2>4. CASE proven # {}
      <3>1. PICK f : proven = {f}
        BY <2>2, <2>4
      <3>2. QED
        BY <3>1, FS_Singleton DEF proven
    <2>5. QED
      BY <2>3, <2>4
  <1>2. QED
    BY <1>1, AgentInvariant, PTL

\* From the proof on a payment has its note marked, and selectNote passes
\* over marked notes.
THEOREM NotesAreKept == Spec => PaymentsKeepTheirNote
  <1>1. AgentInv /\ [Next]_vars =>
          [\A f, g \in Requests :
             (/\ AgentOf[f] = AgentOf[g] /\ f # g
              /\ picked'[f] # picked[f]
              /\ UnderWay(g) /\ ~FixtureHit(g))
                => picked'[f] # picked[g]]_vars
    <2> SUFFICES ASSUME AgentInv, Next, NEW f \in Requests, NEW g \in Requests,
                        AgentOf[f] = AgentOf[g], f # g, picked'[f] # picked[f],
                        UnderWay(g), ~FixtureHit(g)
                 PROVE  picked'[f] # picked[g]
      OBVIOUS
    <2>1. picked[g] \in marks[AgentOf[f]]
      BY DEF AgentInv, StageTells
    <2>2. PICK h \in Requests : Select(h)
      BY DEF Next, NoPayment, Prove, ProveFails, PostSettle, Answered, AnswerLost,
             CaptureRead, CaptureWrite, Retry, Restart, Settles, SpentByAnother, agentVars
    <2>3. PICK n \in Selected(AgentOf[h], Price[UrlOf[h]]) : picked' = [picked EXCEPT ![h] = n]
      BY <2>2 DEF Select
    <2>4. h = f /\ picked'[f] = n
      BY <2>3 DEF AgentInv, TypeOK
    <2>5. n \notin marks[AgentOf[f]]
      BY <2>4, SelectedNotes
    <2>6. QED
      BY <2>1, <2>4, <2>5
  <1>2. QED
    BY <1>1, AgentInvariant, PTL DEF Spec, PaymentsKeepTheirNote

\* Every payment of a proof takes a note of its own from the file, over all
\* agents that share it, restarts that forget the marks and fetches that
\* picked the same note before either proof (note-selector.ts): a file of n
\* notes pays n times at most.
EachPaymentItsOwnNote ==
  \A f, g \in paid : Proven(f) /\ Proven(g) /\ picked[f] = picked[g] => f = g

THEOREM NotesPayOnce == Spec => []EachPaymentItsOwnNote
  <1>1. AgentInv => EachPaymentItsOwnNote
    <2> SUFFICES ASSUME AgentInv, NEW f \in paid, NEW g \in paid,
                        Proven(f), Proven(g), picked[f] = picked[g]
                 PROVE  f = g
      BY DEF EachPaymentItsOwnNote
    <2>1. bill[f] = bill[g] /\ <<picked[f], "value">> \in ValuesIn(bill[f])
      <3>1. picked[f] \in DOMAIN notes /\ notes \in NoteFiles
        BY DEF AgentInv, TypeOK, DataTyped, Proven
      <3>2. QED
        BY <3>1, BillValues DEF Proven
    <2>2. QED
      BY <2>1 DEF AgentInv, PaymentsAreDisjoint
  <1>2. QED
    BY <1>1, AgentInvariant, PTL

---------------------------------------------------------------------------
(***************************************************************************)
(* The agents as clients of the facilitator.                               *)
(***************************************************************************)

\* Fetches, restarts and other spenders touch the facilitator only the way
\* Settlement lets its clients: each step of fetch-interceptor.ts is a POST
\* /settle with the nullifiers of one bill, or none of the facilitator's
\* business.
THEOREM AgentsKeepToSettlement == Spec => SettlementSpec
  <1>1. Init => SettlementInit
    BY DEF Init
  <1>2. AgentInv /\ AgentInv' /\ [Next]_vars => [SettlementNext]_settlementVars
    <2> SUFFICES ASSUME AgentInv, AgentInv', [Next]_vars
                 PROVE  SettlementNext \/ UNCHANGED settlementVars
      OBVIOUS
    <2>1. CASE \E f \in Requests : PostSettle(f)
      <3>1. PICK f \in Requests : PostSettle(f)
        BY <2>1
      <3>2. CASE Post(f, BillOf(f))
        <4>1. bill \in [Requests -> Seq(Keys)] /\ bill'[f] \in Seq(Keys)
          BY DEF AgentInv, DataTyped
        <4>2. bill'[f] = BillOf(f)
          BY <3>2, <4>1 DEF Post
        <4>3. QED
          BY <3>2, <4>1, <4>2 DEF SettlementNext
      <3>3. QED
        BY <3>1, <3>2 DEF PostSettle
    <2>2. CASE Settles
      BY <2>2 DEF Settles, SettlementNext
    <2>3. CASE SpentByAnother
      BY <2>3, AgentAssumption DEF SpentByAnother, SettlementNext
    <2>4. CASE \E f \in Requests : \/ NoPayment(f) \/ Select(f) \/ Prove(f) \/ ProveFails(f)
                                   \/ Answered(f) \/ AnswerLost(f)
                                   \/ CaptureRead(f) \/ CaptureWrite(f) \/ Retry(f)
      BY <2>4 DEF NoPayment, Select, Prove, ProveFails, Answered, AnswerLost,
                  CaptureRead, CaptureWrite, Retry
    <2>5. CASE \E a \in Agents : Restart(a)
      BY <2>5 DEF Restart
    <2>6. CASE UNCHANGED vars
      BY <2>6 DEF vars
    <2>7. QED
      BY <2>1, <2>2, <2>3, <2>4, <2>5, <2>6 DEF Next
  <1>3. QED
    BY <1>1, <1>2, AgentInvariant, PTL DEF Spec, SettlementSpec

\* What the promise of POST /settle (settle.ts) amounts to for any client,
\* agents or not: success means paid, an idle or refused request costs
\* nothing now or later, and no nullifier is paid with twice, whatever
\* failures leave open.
AnswersAreTrue ==
  /\ \A r \in Requests :
       /\ status[r] = "success" => r \in paid
       /\ status[r] \in {"idle", "already_spent"} => r \notin paid
  /\ \A r \in paid : ValuesIn(bill[r]) \subseteq spent
  /\ PaymentsAreDisjoint

SettlementInv ==
  /\ AnswersAreTrue
  /\ paid \subseteq Requests
  /\ DOMAIN bill = Requests
  /\ status \in [Requests -> {"idle", "open", "success", "already_spent", "failed"}]

THEOREM SettlementIsHonest == SettlementSpec => []AnswersAreTrue
  <1> USE DEF SettlementInv, AnswersAreTrue, PaymentsAreDisjoint
  <1>1. SettlementInit => SettlementInv
    BY DEF SettlementInit
  <1>2. SettlementInv /\ [SettlementNext]_settlementVars => SettlementInv'
    <2> SUFFICES ASSUME SettlementInv, [SettlementNext]_settlementVars PROVE SettlementInv'
      OBVIOUS
    <2>1. CASE \E r \in Requests : Post(r, bill'[r])
      <3>1. PICK r \in Requests : Post(r, bill'[r])
        BY <2>1
      <3>2. \A o \in Requests \ {r} : bill'[o] = bill[o] /\ status'[o] = status[o]
        BY <3>1 DEF Post
      <3>3. status'[r] \in {"open", "already_spent"} /\ r \notin paid /\ DOMAIN bill' = Requests
        BY <3>1 DEF Post
      <3>4. status' \in [Requests -> {"idle", "open", "success", "already_spent", "failed"}]
        BY <3>1 DEF Post
      <3>5. paid' = paid /\ spent' = spent
        BY <3>1 DEF Post
      <3>6. QED
        BY <3>2, <3>3, <3>4, <3>5
    <2>2. CASE \E r \in Requests : Pay(r)
      BY <2>2 DEF Pay
    <2>3. CASE \E r \in Requests : AnswerSuccess(r)
      BY <2>3 DEF AnswerSuccess
    <2>4. CASE \E rs \in SUBSET Requests : AnswerFailed(rs)
      BY <2>4 DEF AnswerFailed
    <2>5. CASE \E n \in Nullifiers : SpendElsewhere(n)
      BY <2>5 DEF SpendElsewhere
    <2>6. CASE UNCHANGED settlementVars
      BY <2>6 DEF settlementVars
    <2>7. QED
      BY <2>1, <2>2, <2>3, <2>4, <2>5, <2>6 DEF SettlementNext
  <1>3. SettlementInv => AnswersAreTrue
    OBVIOUS
  <1>4. QED
    BY <1>1, <1>2, <1>3, PTL DEF SettlementSpec

---------------------------------------------------------------------------
(***************************************************************************)
(* What capture mode left behind cannot pay again.                         *)
(***************************************************************************)

Entry(f) == loaded[AgentOf[f]][UrlOf[f]]
Replays(f) == FixtureHit(f) /\ Entry(f).captured

\* An agent in fixture mode that finds a captured entry never pays with it:
\* the settlement is not answered with success, the request is not made
\* again, and nothing is paid later either (loadFixture, the replay branch of
\* fetch-interceptor.ts).
CapturesCannotPay ==
  \A f \in Requests :
    Replays(f) /\ pc[f] \in {"replaying", "settling", "retrying"}
      => f \notin paid /\ pc[f] # "retrying"

CaptureIsSpent(entry) ==
  entry.captured => entry.bill # << >> /\ ValuesIn(entry.bill) \subseteq spent

\* The file, what is about to be written to it and what was read from it.
FilesAreSpent ==
  /\ \A u \in Urls : CaptureIsSpent(fixtures[u])
  /\ \A f \in Requests, u \in Urls : CaptureIsSpent(merging[f][u])
  /\ \A a \in Agents, u \in Urls : CaptureIsSpent(loaded[a][u])

HitsTell(f) ==
  /\ pc[f] \in {"proving", "posting"} => ~FixtureHit(f)
  /\ pc[f] \in {"settling", "retrying"} /\ Replays(f)
       => ValuesIn(bill[f]) \cap spent # {} /\ f \notin paid

CapturesInv == FilesAreSpent /\ \A f \in Requests : HitsTell(f)

LEMMA HitsKept ==
  ASSUME NEW h \in Requests, HitsTell(h),
         pc'[h] = pc[h], bill'[h] = bill[h],
         loaded'[AgentOf[h]] = loaded[AgentOf[h]],
         h \in paid' <=> h \in paid, spent \subseteq spent'
  PROVE  HitsTell(h)'
  BY DEF HitsTell, Replays, FixtureHit, Entry

LEMMA FilesKept ==
  ASSUME FilesAreSpent, UNCHANGED <<fixtures, merging, loaded>>, spent \subseteq spent'
  PROVE  FilesAreSpent'
  BY DEF FilesAreSpent, CaptureIsSpent

\* A step of fetch f that leaves what was loaded and all payments alone: it
\* is enough to look at f.
LEMMA OwnHits ==
  ASSUME TypeOK, CapturesInv, NEW f \in Requests, NEW place,
         pc' = [pc EXCEPT ![f] = place], UNCHANGED <<loaded, bill, paid, spent>>,
         HitsTell(f)'
  PROVE  \A h \in Requests : HitsTell(h)'
  <1>1. ASSUME NEW h \in Requests, h # f PROVE HitsTell(h)'
    <2>1. pc'[h] = pc[h] /\ HitsTell(h)
      BY <1>1 DEF TypeOK, CapturesInv
    <2>2. QED
      BY <2>1, HitsKept
  <1>2. QED
    BY <1>1

LEMMA NoEntryCaptured == ~NoEntry.captured
  BY DEF NoEntry

\* The steps up to the proof, and those that end a fetch.
LEMMA HitsAtFirst ==
  ASSUME AgentInv, CapturesInv, NEW f \in Requests,
         NoPayment(f) \/ Select(f) \/ Prove(f) \/ ProveFails(f) \/ AnswerLost(f) \/ Retry(f)
  PROVE  CapturesInv'
  <1> USE DEF Finish, Goto, settlementVars
  <1>1. TypeOK /\ HitsTell(f)
    BY DEF AgentInv, CapturesInv
  <1>2. /\ UNCHANGED <<loaded, bill, paid, spent, fixtures, merging>>
        /\ FixtureHit(f)' <=> FixtureHit(f)
    BY DEF NoPayment, Select, Prove, ProveFails, AnswerLost, Retry, FixtureHit
  <1>3. PICK place \in {"done", "replaying", "proving", "posting"} :
             /\ pc' = [pc EXCEPT ![f] = place]
             /\ place \in {"proving", "posting"} => ~FixtureHit(f)
    <2>1. CASE NoPayment(f) \/ ProveFails(f) \/ AnswerLost(f) \/ Retry(f)
      BY <2>1 DEF NoPayment, ProveFails, AnswerLost, Retry
    <2>2. CASE Select(f)
      BY <2>2 DEF Select
    <2>3. CASE Prove(f)
      BY <1>1, <2>3 DEF Prove, HitsTell
    <2>4. QED
      BY <2>1, <2>2, <2>3
  <1>4. pc'[f] = place
    BY <1>1, <1>3 DEF TypeOK
  <1>5. HitsTell(f)'
    BY <1>2, <1>3, <1>4 DEF HitsTell
  <1>6. \A h \in Requests : HitsTell(h)'
    BY <1>1, <1>2, <1>3, <1>5, OwnHits
  <1>7. QED
    BY <1>2, <1>6, FilesKept DEF CapturesInv

\* A replayed entry is posted as it was captured.
LEMMA HitsPosted ==
  ASSUME AgentInv, CapturesInv, NEW f \in Requests, PostSettle(f)
  PROVE  CapturesInv'
  <1> USE DEF Finish, Goto, settlementVars
  <1>1. /\ TypeOK /\ DataTyped /\ HitsTell(f) /\ StatusTells(f) /\ StageTells(f)
        /\ AgentOf[f] \in Agents /\ UrlOf[f] \in Urls
    BY AgentAssumption DEF AgentInv, CapturesInv
  <1>2. /\ UNCHANGED <<loaded, paid, spent, fixtures, merging>>
        /\ (FixtureHit(f)' <=> FixtureHit(f)) /\ (Replays(f)' <=> Replays(f))
    BY DEF PostSettle, Post, FixtureHit, Replays, Entry
  <1>3. FilesAreSpent'
    BY <1>2, FilesKept DEF CapturesInv
  <1>4. CASE Finish(f, "thrown") /\ UNCHANGED settlementVars
    <2>1. pc'[f] = "done"
      BY <1>1, <1>4 DEF TypeOK
    <2>2. HitsTell(f)'
      BY <2>1 DEF HitsTell
    <2>3. QED
      BY <1>1, <1>2, <1>3, <1>4, <2>2, OwnHits DEF CapturesInv
  <1>5. CASE Post(f, BillOf(f)) /\ Goto(f, "settling") /\ UNCHANGED outcome
    <2>1. /\ pc' = [pc EXCEPT ![f] = "settling"]
          /\ bill' = [bill EXCEPT ![f] = BillOf(f)]
      BY <1>5 DEF Post
    <2>2. pc'[f] = "settling" /\ bill'[f] = BillOf(f)
      BY <1>1, <2>1 DEF TypeOK, DataTyped
    <2>3. f \notin paid
      BY <1>1 DEF PostSettle, StageTells, StatusTells
    <2>4. ASSUME Replays(f) PROVE ValuesIn(bill'[f]) \cap spent # {}
      <3>1. pc[f] = "replaying"
        BY <1>1, <2>4 DEF PostSettle, HitsTell, Replays
      <3>2. bill'[f] = Entry(f).bill
        BY <2>2, <3>1 DEF BillOf, Entry
      <3>3. bill'[f] # << >> /\ ValuesIn(bill'[f]) \subseteq spent /\ bill'[f] \in Seq(Keys)
        BY <1>1, <2>4, <3>2 DEF CapturesInv, FilesAreSpent, CaptureIsSpent, Replays, Entry,
                                DataTyped, Entries
      <3>4. ValueOf[bill'[f][1]] \in ValuesIn(bill'[f])
        BY <3>3 DEF ValuesIn, Range
      <3>5. QED
        BY <3>3, <3>4
    <2>5. HitsTell(f)'
      BY <1>2, <2>2, <2>3, <2>4 DEF HitsTell
    <2>6. ASSUME NEW h \in Requests, h # f PROVE HitsTell(h)'
      <3>1. pc'[h] = pc[h] /\ bill'[h] = bill[h] /\ HitsTell(h)
        BY <1>1, <2>1, <2>6 DEF TypeOK, DataTyped, CapturesInv
      <3>2. QED
        BY <1>2, <3>1, HitsKept
    <2>7. QED
      BY <1>3, <2>5, <2>6 DEF CapturesInv
  <1>6. QED
    BY <1>4, <1>5 DEF PostSettle

\* Only a payment is answered with success, and a replayed capture is none.
LEMMA HitsAnswered ==
  ASSUME AgentInv, CapturesInv, NEW f \in Requests, Answered(f)
  PROVE  CapturesInv'
  <1> USE DEF Finish, Goto, settlementVars
  <1>1. TypeOK /\ HitsTell(f)
    BY DEF AgentInv, CapturesInv
  <1>2. /\ UNCHANGED <<loaded, bill, paid, spent, fixtures, merging>>
        /\ pc[f] = "settling"
        /\ (Replays(f)' <=> Replays(f))
    BY DEF Answered, Replays, FixtureHit, Entry
  <1>3. PICK place \in {"done", "capturing", "retrying"} : pc' = [pc EXCEPT ![f] = place]
    BY DEF Answered, AfterSettle
  <1>4. pc'[f] = place
    BY <1>1, <1>3 DEF TypeOK
  <1>5. HitsTell(f)'
    BY <1>1, <1>2, <1>4 DEF HitsTell
  <1>6. QED
    BY <1>1, <1>2, <1>3, <1>5, OwnHits, FilesKept DEF CapturesInv

LEMMA HitsCaptured ==
  ASSUME AgentInv, CapturesInv, NEW f \in Requests, CaptureRead(f) \/ CaptureWrite(f)
  PROVE  CapturesInv'
  <1> USE DEF Goto, settlementVars
  <1> DEFINE blank == [u \in Urls |-> NoEntry]
  <1>1. TypeOK /\ DataTyped /\ HitsTell(f) /\ Tells(f) /\ UrlOf[f] \in Urls
    BY AgentAssumption DEF AgentInv, CapturesInv, Tells
  <1>2. UNCHANGED <<loaded, bill, paid, spent>>
    BY DEF CaptureRead, CaptureWrite
  <1>3. \A u \in Urls : CaptureIsSpent(blank[u])
    BY NoEntryCaptured DEF CaptureIsSpent
  <1> HIDE DEF blank
  <1>4. CASE CaptureRead(f)
    <2>1. fixtures' = fixtures /\ pc' = [pc EXCEPT ![f] = "writing"]
      BY <1>4 DEF CaptureRead
    <2>2. PICK read \in {fixtures, blank} : merging' = [merging EXCEPT ![f] = read]
      BY <1>4 DEF CaptureRead, blank
    <2>3. \A h \in Requests : merging'[h] \in {merging[h], fixtures, blank}
      BY <1>1, <2>2 DEF DataTyped
    <2>4. FilesAreSpent'
      BY <1>2, <1>3, <2>1, <2>3 DEF CapturesInv, FilesAreSpent, CaptureIsSpent
    <2>5. pc'[f] = "writing"
      BY <1>1, <2>1 DEF TypeOK
    <2>6. HitsTell(f)'
      BY <2>5 DEF HitsTell
    <2>7. QED
      BY <1>1, <1>2, <2>1, <2>4, <2>6, OwnHits DEF CapturesInv
  <1>5. CASE CaptureWrite(f)
    <2> DEFINE entry == [bill |-> Bill(picked[f]), captured |-> TRUE]
    <2>1. /\ pc[f] = "writing" /\ pc' = [pc EXCEPT ![f] = "retrying"]
          /\ merging' = [merging EXCEPT ![f] = blank]
          /\ fixtures' \in {fixtures, [merging[f] EXCEPT ![UrlOf[f]] = entry]}
      BY <1>5 DEF CaptureWrite, blank
    <2>2. CaptureIsSpent(entry)
      <3>1. picked[f] \in DOMAIN notes
        BY <1>1, <2>1 DEF Tells, StageTells, TypeOK
      <3>2. Bill(picked[f]) # << >>
        BY <1>1, <3>1, BillType DEF DataTyped
      <3>3. bill[f] = Bill(picked[f]) /\ ValuesIn(bill[f]) \subseteq spent
        BY <1>1, <2>1 DEF Tells, StageTells, StatusTells, TypeOK
      <3>4. QED
        BY <3>2, <3>3 DEF CaptureIsSpent
    <2> HIDE DEF entry
    <2>3. \A u \in Urls : fixtures'[u] \in {fixtures[u], merging[f][u], entry}
      BY <1>1, <2>1 DEF DataTyped
    <2>4. \A h \in Requests : merging'[h] \in {merging[h], blank}
      BY <1>1, <2>1 DEF DataTyped
    <2>5. FilesAreSpent'
      <3>1. \A u \in Urls : CaptureIsSpent(fixtures'[u])
        BY <2>2, <2>3 DEF CapturesInv, FilesAreSpent
      <3>2. \A h \in Requests, u \in Urls : CaptureIsSpent(merging'[h][u])
        BY <1>3, <2>4 DEF CapturesInv, FilesAreSpent
      <3>3. QED
        BY <1>2, <3>1, <3>2 DEF CapturesInv, FilesAreSpent, CaptureIsSpent
    <2>6. pc'[f] = "retrying"
      BY <1>1, <2>1 DEF TypeOK
    <2>7. ~FixtureHit(f)'
      BY <1>1, <2>1 DEF TypeOK, FixtureHit
    <2>8. HitsTell(f)'
      BY <2>6, <2>7 DEF HitsTell, Replays
    <2>9. QED
      BY <1>1, <1>2, <2>1, <2>5, <2>8, OwnHits DEF CapturesInv
  <1>6. QED
    BY <1>4, <1>5

\* What a restart reads is the file, and its fetches are gone.
LEMMA HitsRestarted ==
  ASSUME AgentInv, CapturesInv, NEW a \in Agents, Restart(a)
  PROVE  CapturesInv'
  <1> DEFINE blank == [u \in Urls |-> NoEntry]
  <1>1. TypeOK /\ DataTyped
    BY DEF AgentInv
  <1>2. /\ loaded' = IF ModeOf[a] = "live" THEN loaded ELSE [loaded EXCEPT ![a] = fixtures]
        /\ UNCHANGED <<bill, paid, spent, fixtures>>
        /\ \A h \in Requests : merging'[h] \in {merging[h], blank}
        /\ \A h \in Requests : AgentOf[h] = a /\ pc[h] \notin {"idle", "done"} => pc'[h] = "done"
        /\ \A h \in Requests : ~(AgentOf[h] = a /\ pc[h] \notin {"idle", "done"}) => pc'[h] = pc[h]
    BY DEF Restart, settlementVars
  <1>3. \A u \in Urls : CaptureIsSpent(blank[u])
    BY NoEntryCaptured DEF CaptureIsSpent
  <1> HIDE DEF blank
  <1>4. \A o \in Agents : loaded'[o] \in {loaded[o], fixtures} /\ (o # a => loaded'[o] = loaded[o])
    BY <1>1, <1>2 DEF DataTyped
  <1>5. FilesAreSpent'
    BY <1>2, <1>3, <1>4 DEF CapturesInv, FilesAreSpent, CaptureIsSpent
  <1>6. ASSUME NEW h \in Requests PROVE HitsTell(h)'
    <2>1. HitsTell(h) /\ AgentOf[h] \in Agents
      BY AgentAssumption DEF CapturesInv
    <2>2. CASE AgentOf[h] = a
      <3>1. pc'[h] \in {"idle", "done"}
        BY <1>2, <2>2
      <3>2. QED
        BY <3>1 DEF HitsTell
    <2>3. CASE AgentOf[h] # a
      BY <1>2, <1>4, <2>1, <2>3, HitsKept
    <2>4. QED
      BY <2>2, <2>3
  <1>7. QED
    BY <1>5, <1>6 DEF CapturesInv

\* Nothing pays with a nullifier that is spent.
LEMMA HitsSettled ==
  ASSUME AgentInv, CapturesInv, Settles \/ SpentByAnother \/ UNCHANGED vars
  PROVE  CapturesInv'
  <1> USE DEF agentVars, settlementVars, vars
  <1>1. UNCHANGED <<loaded, pc, fixtures, merging>>
    BY DEF Settles, SpentByAnother
  <1>2. bill' = bill /\ spent \subseteq spent'
    BY DEF Settles, SpentByAnother, Pay, AnswerSuccess, AnswerFailed, SpendElsewhere
  <1>3. \A h \in Requests : h \in paid' /\ h \notin paid => ValuesIn(bill[h]) \cap spent = {}
    BY DEF Settles, SpentByAnother, Pay, AnswerSuccess, AnswerFailed, SpendElsewhere
  <1>4. paid \subseteq paid'
    BY DEF Settles, SpentByAnother, Pay, AnswerSuccess, AnswerFailed, SpendElsewhere
  <1>5. ASSUME NEW h \in Requests PROVE HitsTell(h)'
    BY <1>1, <1>2, <1>3, <1>4 DEF CapturesInv, HitsTell, Replays, FixtureHit, Entry
  <1>6. QED
    BY <1>1, <1>2, <1>5, FilesKept DEF CapturesInv

LEMMA HitsInit == Init => CapturesInv
  <1> SUFFICES ASSUME Init PROVE CapturesInv
    OBVIOUS
  <1>1. \A u \in Urls : ~fixtures[u].captured
    BY AgentAssumption DEF Init
  <1>2. \A f \in Requests, u \in Urls : ~merging[f][u].captured
    BY NoEntryCaptured DEF Init
  <1>3. \A a \in Agents, u \in Urls : ~loaded[a][u].captured
    BY <1>1, NoEntryCaptured DEF Init
  <1>4. \A f \in Requests : pc[f] = "idle"
    BY DEF Init
  <1>5. QED
    BY <1>1, <1>2, <1>3, <1>4 DEF CapturesInv, FilesAreSpent, CaptureIsSpent, HitsTell

THEOREM CapturesNeverPay == Spec => []CapturesCannotPay
  <1>1. AgentInv /\ CapturesInv /\ [Next]_vars => CapturesInv'
    <2> SUFFICES ASSUME AgentInv, CapturesInv, [Next]_vars PROVE CapturesInv'
      OBVIOUS
    <2>1. CASE \E f \in Requests : \/ NoPayment(f) \/ Select(f) \/ Prove(f) \/ ProveFails(f)
                                   \/ AnswerLost(f) \/ Retry(f)
      BY <2>1, HitsAtFirst
    <2>2. CASE \E f \in Requests : PostSettle(f) \/ Answered(f) \/ CaptureRead(f) \/ CaptureWrite(f)
      BY <2>2, HitsPosted, HitsAnswered, HitsCaptured
    <2>3. CASE \E a \in Agents : Restart(a)
      BY <2>3, HitsRestarted
    <2>4. CASE Settles \/ SpentByAnother \/ UNCHANGED vars
      BY <2>4, HitsSettled
    <2>5. QED
      BY <2>1, <2>2, <2>3, <2>4 DEF Next
  <1>2. AgentInv /\ CapturesInv => CapturesCannotPay
    <2> SUFFICES ASSUME AgentInv, CapturesInv, NEW f \in Requests, Replays(f),
                        pc[f] \in {"replaying", "settling", "retrying"}
                 PROVE  f \notin paid /\ pc[f] # "retrying"
      BY DEF CapturesCannotPay
    <2>1. HitsTell(f) /\ StatusTells(f) /\ StageTells(f)
      BY DEF AgentInv, CapturesInv
    <2>2. QED
      BY <2>1 DEF HitsTell, StatusTells, StageTells
  <1>3. QED
    BY <1>1, <1>2, HitsInit, AgentInvariant, PTL DEF Spec
=============================================================================
