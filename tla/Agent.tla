-------------------------------- MODULE Agent -------------------------------
(***************************************************************************)
(* agent.fetch of @enclave/agent (packages/agent/src/fetch-interceptor.ts  *)
(* and note-selector.ts): several agents of one organisation that share    *)
(* its key and its notes file, each with fetches in flight, against        *)
(* servers behind withEnclaveGate (gate/src/middleware.ts) or of others,   *)
(* and the facilitator as its clients see it (Settlement).                 *)
(*                                                                         *)
(* The prover is injected (proverDeps) and is taken to prove what the      *)
(* circuit accepts.  An action is the code of one fetch between two        *)
(* awaits.                                                                 *)
(***************************************************************************)
EXTENDS Integers, Settlement

CONSTANTS
  Agents,       \* processes with an agent
  Urls,         \* the resources
  AgentOf,      \* the agent of each fetch
  UrlOf,        \* the resource it asks for
  Headers,      \* what the caller's own headers carry, per fetch:
                \*   "authorization" of the org, an X-PAYMENT "payload"
  Price,        \* maxAmountRequired, per resource
  Gated,        \* resources behind withEnclaveGate
  OrgScoped,    \* those with allowedAuthKeys
  Decimal,      \* the string the SDK writes for each nullifier
  NoteFiles,    \* notes.json: the amount of each note, in order
  FirstFixtures,\* the fixture file before anything was captured
  ModeOf,       \* fixturePath and ENCLAVE_FIXTURE_CAPTURE of each agent:
                \*   "live", "fixture", "capture"
  Elsewhere,    \* nullifiers that may get spent without the agents
  MaxRestarts   \* bound on the restarts of the agents

Places == UNION {DOMAIN file : file \in NoteFiles}
NoEntry == [bill |-> << >>, captured |-> FALSE]

ASSUME AgentAssumption ==
  /\ AgentOf \in [Requests -> Agents] /\ UrlOf \in [Requests -> Urls]
  /\ Headers \in [Requests -> SUBSET {"authorization", "payload"}]
  /\ Price \in [Urls -> Nat \ {0}] /\ NoteFiles \subseteq Seq(Nat)
  /\ OrgScoped \subseteq Gated /\ Gated \subseteq Urls
  /\ Nullifiers = Places \X {"value", "zero"}
  /\ ValueOf \in [Keys -> Nullifiers] /\ Decimal \in [Nullifiers -> Keys]
  /\ \A n \in Nullifiers : ValueOf[Decimal[n]] = n
  /\ ModeOf \in [Agents -> {"live", "fixture", "capture"}]
  /\ FirstFixtures \in [Urls -> [bill : Seq(Keys), captured : {FALSE}]]
  /\ Elsewhere \subseteq Nullifiers /\ MaxRestarts \in Nat

VARIABLES
  notes,        \* the amounts in notes.json
  marks,        \* spentNullifiers, as notes
  loaded,       \* fixtureIndex
  pc, picked, outcome,  \* per fetch
  merging,      \* currentIndex of a fetch that captures
  fixtures,     \* the fixture file
  restarts

agentVars == <<notes, marks, loaded, pc, picked, outcome, merging, fixtures, restarts>>
vars == <<settlementVars, agentVars>>

Init ==
  /\ SettlementInit
  /\ notes \in NoteFiles
  /\ marks = [a \in Agents |-> {}]
  /\ fixtures = FirstFixtures
  /\ loaded = [a \in Agents |-> IF ModeOf[a] = "live" THEN [u \in Urls |-> NoEntry] ELSE fixtures]
  /\ pc = [f \in Requests |-> "idle"]
  /\ picked = [f \in Requests |-> 0]
  /\ outcome = [f \in Requests |-> "none"]
  /\ merging = [f \in Requests |-> [u \in Urls |-> NoEntry]]
  /\ restarts = 0

---------------------------------------------------------------------------
(***************************************************************************)
(* Notes and proofs.                                                       *)
(***************************************************************************)

\* selectNote: the smallest note that covers the price and is not marked, the
\* first of them in the file.
Selected(a, price) ==
  LET eligible == {n \in DOMAIN notes \ marks[a] : notes[n] >= price}
  IN {n \in eligible : \A o \in eligible : notes[n] < notes[o] \/ (notes[n] = notes[o] /\ n <= o)}

\* Mutant: the padding note goes with the payment's note.
NullNoteBeside(n) == n

\* The first note of amount zero pads the other input, the note itself if
\* there is none.
NullNote(n) ==
  LET zeros == {z \in DOMAIN notes : notes[z] = 0}
  IN IF zeros = {} THEN n ELSE CHOOSE z \in zeros : \A y \in zeros : z <= y

\* The inputs are a zero commitment under the blinding of one note and one of
\* the price under that of the other.
Bill(n) == <<Decimal[<<NullNote(n), "zero">>], Decimal[<<n, "value">>]>>

\* The witness claims an input of the price, which is a commitment of the
\* pool only if the note is worth that much; with change left over the
\* amounts do not balance either.
Provable(n, price) == notes[n] = price

---------------------------------------------------------------------------
(***************************************************************************)
(* The server's answers.                                                   *)
(***************************************************************************)

\* withEnclaveGate.  A transaction hash is not JSON unless it reads as a
\* number, which /verify refuses with 400; a payload that /verify finds
\* valid is let through.
GateAnswers(f, xPayment) ==
  IF \/ UrlOf[f] \in OrgScoped /\ "authorization" \notin Headers[f]
     \/ xPayment = "absent"
    THEN {402}
    ELSE IF xPayment = "hash" THEN {402, 500} ELSE {402, 500, 200}

ServerAnswers(f, xPayment) ==
  IF UrlOf[f] \in Gated THEN GateAnswers(f, xPayment) ELSE {402, 500, 200}

---------------------------------------------------------------------------
(***************************************************************************)
(* A fetch.                                                                *)
(***************************************************************************)

Goto(f, place) == pc' = [pc EXCEPT ![f] = place]
Finish(f, how) == Goto(f, "done") /\ outcome' = [outcome EXCEPT ![f] = how]

FirstAnswers(f) == ServerAnswers(f, IF "payload" \in Headers[f] THEN "payload" ELSE "absent")

\* The first request, with the caller's own headers, is answered with
\* anything but 402, or with a 402 that holds no paymentRequirements.
NoPayment(f) ==
  /\ pc[f] = "idle"
  /\ \/ FirstAnswers(f) # {402} /\ Finish(f, "passed")
     \/ UrlOf[f] \notin Gated /\ Finish(f, "thrown")
  /\ UNCHANGED <<settlementVars, notes, marks, loaded, picked, merging, fixtures, restarts>>

FixtureHit(f) == ModeOf[AgentOf[f]] # "capture" /\ loaded[AgentOf[f]][UrlOf[f]] # NoEntry

\* The 402 is read and a note selected, also when a fixture is then used in
\* place of a proof about it.
Select(f) ==
  /\ pc[f] = "idle" /\ 402 \in FirstAnswers(f)
  /\ LET ns == Selected(AgentOf[f], Price[UrlOf[f]])
     IN IF ns = {}
          THEN Finish(f, "no_funds") /\ UNCHANGED picked
          ELSE /\ \E n \in ns : picked' = [picked EXCEPT ![f] = n]
               /\ Goto(f, IF FixtureHit(f) THEN "replaying" ELSE "proving")
               /\ UNCHANGED outcome
  /\ UNCHANGED <<settlementVars, notes, marks, loaded, merging, fixtures, restarts>>

\* Mutant: the note is marked by the answer to the settlement only.
ProveUnmarked(f) ==
  /\ pc[f] = "proving" /\ Provable(picked[f], Price[UrlOf[f]])
  /\ Goto(f, "posting")
  /\ UNCHANGED <<settlementVars, notes, marks, loaded, picked, outcome, merging, fixtures, restarts>>

\* The proof is made: its note is never selected again by this process.
Prove(f) ==
  /\ pc[f] = "proving" /\ Provable(picked[f], Price[UrlOf[f]])
  /\ marks' = [marks EXCEPT ![AgentOf[f]] = @ \cup {picked[f]}]
  /\ Goto(f, "posting")
  /\ UNCHANGED <<settlementVars, notes, loaded, picked, outcome, merging, fixtures, restarts>>

\* The artifacts do not load or the witness is refused.
ProveFails(f) ==
  /\ pc[f] = "proving"
  /\ Finish(f, "proof_failed")
  /\ UNCHANGED <<settlementVars, notes, marks, loaded, picked, merging, fixtures, restarts>>

BillOf(f) ==
  IF pc[f] = "replaying" THEN loaded[AgentOf[f]][UrlOf[f]].bill ELSE Bill(picked[f])

\* POST /settle arrives, or the call fails.
PostSettle(f) ==
  /\ pc[f] \in {"replaying", "posting"}
  /\ \/ Post(f, BillOf(f)) /\ Goto(f, "settling") /\ UNCHANGED outcome
     \/ Finish(f, "thrown") /\ UNCHANGED settlementVars
  /\ UNCHANGED <<notes, marks, loaded, picked, merging, fixtures, restarts>>

\* Mutant: only 409 is taken for a refusal.
TakesForSettled(answer) == answer # "already_spent"

IsSettled(answer) == answer = "success"

\* Mutant: a fixture path is enough to capture.
AfterAnyFixture(f) == IF ModeOf[AgentOf[f]] # "live" THEN "capturing" ELSE "retrying"

AfterSettle(f) == IF ModeOf[AgentOf[f]] = "capture" THEN "capturing" ELSE "retrying"

\* The facilitator's answer: 409, another refusal, 200.
Answered(f) ==
  /\ pc[f] = "settling" /\ status[f] \in {"success", "already_spent", "failed"}
  /\ IF IsSettled(status[f])
       THEN Goto(f, AfterSettle(f)) /\ UNCHANGED outcome
       ELSE Finish(f, IF status[f] = "failed" THEN "facilitator_rejected" ELSE status[f])
  /\ UNCHANGED <<settlementVars, notes, marks, loaded, picked, merging, fixtures, restarts>>

\* The answer is lost on its way: the call throws.
AnswerLost(f) ==
  /\ pc[f] = "settling"
  /\ Finish(f, "thrown")
  /\ UNCHANGED <<settlementVars, notes, marks, loaded, picked, merging, fixtures, restarts>>

\* Capture mode reads the file again; a file that another fetch is writing
\* may read as none at all.
CaptureRead(f) ==
  /\ pc[f] = "capturing"
  /\ merging' \in {[merging EXCEPT ![f] = fixtures]} \cup
       {m \in {[merging EXCEPT ![f] = [u \in Urls |-> NoEntry]]} :
          \E g \in Requests : pc[g] = "writing"}
  /\ Goto(f, "writing")
  /\ UNCHANGED <<settlementVars, notes, marks, loaded, picked, outcome, fixtures, restarts>>

\* The entry is merged into what was read and the file written; a capture
\* that fails is logged and no more.
CaptureWrite(f) ==
  /\ pc[f] = "writing"
  /\ LET entry == [bill |-> Bill(picked[f]), captured |-> TRUE]
     IN fixtures' \in {fixtures, [merging[f] EXCEPT ![UrlOf[f]] = entry]}
  /\ merging' = [merging EXCEPT ![f] = [u \in Urls |-> NoEntry]]
  /\ Goto(f, "retrying")
  /\ UNCHANGED <<settlementVars, notes, marks, loaded, picked, outcome, restarts>>

\* The request again, with the transaction hash as X-PAYMENT; the agent adds
\* no Authorization.  Anything but 402 is returned to the caller, unless the
\* call fails.
Retry(f) ==
  /\ pc[f] = "retrying"
  /\ \/ Finish(f, "thrown")
     \/ \E answer \in ServerAnswers(f, "hash") :
          Finish(f, CASE answer = 402 -> "retry_402" [] answer = 200 -> "served" [] OTHER -> "error")
  /\ UNCHANGED <<settlementVars, notes, marks, loaded, picked, merging, fixtures, restarts>>

\* The process starts anew: its fetches are gone, what it marked is
\* forgotten and the fixture file is read again.
Restart(a) ==
  /\ restarts < MaxRestarts
  /\ restarts' = restarts + 1
  /\ marks' = [marks EXCEPT ![a] = {}]
  /\ loaded' = IF ModeOf[a] = "live" THEN loaded ELSE [loaded EXCEPT ![a] = fixtures]
  /\ LET gone(f) == AgentOf[f] = a /\ pc[f] \notin {"idle", "done"}
     IN /\ pc' = [f \in Requests |-> IF gone(f) THEN "done" ELSE pc[f]]
        /\ outcome' = [f \in Requests |-> IF gone(f) THEN "gone" ELSE outcome[f]]
  /\ merging' = [f \in Requests |-> IF AgentOf[f] = a THEN [u \in Urls |-> NoEntry] ELSE merging[f]]
  /\ UNCHANGED <<settlementVars, notes, picked, fixtures>>

\* The facilitator and the pool.
Settles ==
  /\ \/ \E f \in Requests : Pay(f) \/ AnswerSuccess(f) \/ AnswerFailed({f})
     \/ AnswerFailed({f \in Requests : status[f] = "open"})
  /\ UNCHANGED agentVars

SpentByAnother ==
  /\ \E n \in Elsewhere \ spent : SpendElsewhere(n)
  /\ UNCHANGED agentVars

Next ==
  \/ \E f \in Requests :
       \/ NoPayment(f) \/ Select(f) \/ Prove(f) \/ ProveFails(f)
       \/ PostSettle(f) \/ Answered(f) \/ AnswerLost(f)
       \/ CaptureRead(f) \/ CaptureWrite(f) \/ Retry(f)
  \/ \E a \in Agents : Restart(a)
  \/ Settles
  \/ SpentByAnother

Spec == Init /\ [][Next]_vars

---------------------------------------------------------------------------
(***************************************************************************)
(* What makes the agent correct.                                           *)
(***************************************************************************)

\* Only an agent in capture mode gets to the fixture file, and nothing is
\* posted for a fetch that picked no note.
TypeOK ==
  /\ marks \in [Agents -> SUBSET DOMAIN notes]
  /\ pc \in [Requests -> {"idle", "proving", "replaying", "posting", "settling",
                          "capturing", "writing", "retrying", "done"}]
  /\ \A f \in Requests : pc[f] \in {"capturing", "writing"} => ModeOf[AgentOf[f]] = "capture"
  /\ picked \in [Requests -> DOMAIN notes \cup {0}]
  /\ outcome \in [Requests -> {"none", "passed", "no_funds", "proof_failed", "thrown", "gone",
       "already_spent", "facilitator_rejected", "retry_402", "served", "error"}]
  /\ status \in [Requests -> {"idle", "open", "success", "already_spent", "failed"}]
  /\ \A f \in Requests : bill[f] \in Seq(Keys) /\ (picked[f] = 0 => bill[f] = << >>)
  /\ paid \subseteq Requests /\ spent \subseteq Nullifiers
  /\ restarts \in 0 .. MaxRestarts

(***************************************************************************)
(* A payment under way keeps its note to itself: from the moment its proof *)
(* is made to its end no other fetch of the agent picks the note, so that  *)
(* two fetches share a note only if both picked it before either proof.    *)
(***************************************************************************)
UnderWay(f) == pc[f] \in {"posting", "settling", "capturing", "writing", "retrying"}

PaymentsKeepTheirNote ==
  [][\A f, g \in Requests :
       (/\ AgentOf[f] = AgentOf[g] /\ f # g
        /\ picked'[f] # picked[f]
        /\ UnderWay(g) /\ ~FixtureHit(g))
          => picked'[f] # picked[g]]_vars

(***************************************************************************)
(* The reason of an EnclavePaymentError tells the caller whether money     *)
(* left: never for no_funds, proof_failed and already_spent, now or later, *)
(* always for retry_402 and for any answer to the paid request.  Only      *)
(* facilitator_rejected and a broken connection leave it open.             *)
(***************************************************************************)
OutcomesTellWhoPaid ==
  \A f \in Requests :
    /\ outcome[f] \in {"passed", "no_funds", "proof_failed", "already_spent"} => f \notin paid
    /\ outcome[f] \in {"retry_402", "served", "error"} => f \in paid

(***************************************************************************)
(* What capture mode leaves in the file was paid with already, whatever    *)
(* fetches, agents and restarts wrote into it: an agent in fixture mode    *)
(* that finds such an entry cannot pay with it.                            *)
(***************************************************************************)
CapturedFixturesAreSpent ==
  \A u \in Urls : fixtures[u].captured => ValuesIn(fixtures[u].bill) \subseteq spent

(***************************************************************************)
(* With a note of amount zero in the file every proof discloses that       *)
(* note's nullifier, marked or not: one payment goes through, over all     *)
(* agents, restarts and notes, and the rest are refused.                   *)
(***************************************************************************)
Proven(f) == bill[f] # << >> /\ bill[f] = Bill(picked[f])

ZeroNoteAllowsOnePayment ==
  (\E z \in DOMAIN notes : notes[z] = 0) => Cardinality({f \in paid : Proven(f)}) <= 1

(***************************************************************************)
(* SDK-01, .planning/REQUIREMENTS.md:55: agent.fetch(url) "transparently   *)
(* handles x402 402-challenge -> proof-generation -> retry": what was      *)
(* settled for a member of the organisation is served.                     *)
(***************************************************************************)
SettledPaymentsAreServed ==
  \A f \in Requests :
    UrlOf[f] \in Gated /\ "authorization" \in Headers[f] =>
      outcome[f] \notin {"retry_402", "error"}
=============================================================================
