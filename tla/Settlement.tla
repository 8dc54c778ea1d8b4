----------------------------- MODULE Settlement -----------------------------
(***************************************************************************)
(* What POST /settle of the facilitator promises in on_chain mode to the   *)
(* clients that call it: the abstract specification that Facilitator       *)
(* implements and that the agents of Agent are composed with.              *)
(***************************************************************************)
EXTENDS FiniteSets, Sequences, Functions

CONSTANTS
  Requests,     \* POST /settle calls
  Keys,         \* the strings that nullifiers come as
  Nullifiers,   \* what a proof's inputs disclose
  ValueOf       \* the nullifier each string stands for

VARIABLES
  status,       \* per request: "idle", "open", or the kind of its answer
  bill,         \* the inputNullifiers it came with, << >> before
  paid,         \* requests whose transaction went through
  spent         \* nullifiers the pool has marked

settlementVars == <<status, bill, paid, spent>>

SettlementInit ==
  /\ status = [r \in Requests |-> "idle"]
  /\ bill = [r \in Requests |-> << >>]
  /\ paid = {}
  /\ spent = {}

\* The numbers that a list of strings stands for.
ValuesIn(ks) == {ValueOf[k] : k \in Range(ks)}

\* No string comes twice or is held by a request that is being answered.
Free(r, ks) ==
  /\ Cardinality(Range(ks)) = Len(ks)
  /\ \A o \in Requests : status[o] = "open" => Range(ks) \cap Range(bill[o]) = {}

\* A request is taken on only if its strings are free, and refused as already
\* spent only for a reason: one that is spent counts, whether or not the
\* facilitator knows.
Post(r, ks) ==
  /\ status[r] = "idle"
  /\ bill' = [bill EXCEPT ![r] = ks]
  /\ \/ /\ Free(r, ks)
        /\ status' = [status EXCEPT ![r] = "open"]
     \/ /\ ~Free(r, ks) \/ ValuesIn(ks) \cap spent # {}
        /\ status' = [status EXCEPT ![r] = "already_spent"]
  /\ UNCHANGED <<paid, spent>>

\* The request's transaction goes through, maybe after its answer: the pool
\* takes a number once.
Pay(r) ==
  /\ status[r] \in {"open", "failed"}
  /\ r \notin paid
  /\ ValuesIn(bill[r]) \cap spent = {}
  /\ paid' = paid \cup {r}
  /\ spent' = spent \cup ValuesIn(bill[r])
  /\ UNCHANGED <<status, bill>>

\* Success is answered for a payment that went through.
AnswerSuccess(r) ==
  /\ status[r] = "open"
  /\ r \in paid
  /\ status' = [status EXCEPT ![r] = "success"]
  /\ UNCHANGED <<bill, paid, spent>>

\* A failure says nothing about the payment; a crash of the facilitator
\* fails every open request at once.
AnswerFailed(rs) ==
  /\ \A r \in rs : status[r] = "open"
  /\ status' = [r \in Requests |-> IF r \in rs THEN "failed" ELSE status[r]]
  /\ UNCHANGED <<bill, paid, spent>>

\* A note is spent without the facilitator.
SpendElsewhere(n) ==
  /\ spent' = spent \cup {n}
  /\ UNCHANGED <<status, bill, paid>>

SettlementNext ==
  \/ \E r \in Requests :
       \/ bill'[r] \in Seq(Keys) /\ Post(r, bill'[r])
       \/ Pay(r) \/ AnswerSuccess(r)
  \/ \E rs \in SUBSET Requests : AnswerFailed(rs)
  \/ \E n \in Nullifiers : SpendElsewhere(n)

SettlementSpec == SettlementInit /\ [][SettlementNext]_settlementVars
=============================================================================
