---------------------------- MODULE Facilitator -----------------------------
(***************************************************************************)
(* POST /settle of the facilitator (facilitator/src/routes/settle.ts), its *)
(* replay cache (replay/cache.ts), the submission of pool.transact         *)
(* (chain/submitPoolTransaction.ts), the settlements log and the boot with *)
(* its hydration (index.ts, chain/hydrateNullifierCache.ts), against a     *)
(* ledger that holds the pool's nullifiers and the facilitator's account.  *)
(*                                                                         *)
(* Node runs one handler at a time and switches at an await, so an action  *)
(* is the code of one request between two awaits.  Requests that fail      *)
(* parsing, the binding check or the ext_data_hash check end in a 400      *)
(* before they touch any state and are left out.                           *)
(*                                                                         *)
(* A nullifier comes as a string.  The cache takes the string in lower     *)
(* case for its key and no more; the submission takes the number it stands *)
(* for, and a number has many spellings: decimal or hexadecimal, with or   *)
(* without zeros in front.                                                 *)
(***************************************************************************)
EXTENDS Integers, FiniteSets, Sequences, Functions

CONSTANTS
  Requests,     \* POST /settle calls; a retry is a request of its own
  Keys,         \* the strings that nullifiers come as, in lower case
  Nullifiers,   \* the numbers they stand for
  ValueOf,      \* BigInt of each string
  HexOf,        \* the string hydration makes of each number: hexadecimal, no 0x
  InputNullifiers, \* the proof's inputNullifiers, in order, per request
  Modes,        \* FACILITATOR_MODE: "mock", "on_chain"
  MaxCrashes,   \* bound on the crashes of the process
  MaxElsewhere, \* bound on the notes spent without the facilitator
  MaxStale      \* bound on the proofs that go stale

ASSUME RequestsAssumption ==
  /\ IsFiniteSet(Requests)
  /\ ValueOf \in [Keys -> Nullifiers] /\ HexOf \in [Nullifiers -> Keys]
  /\ InputNullifiers \in [Requests -> Seq(Keys)]
  /\ Modes \subseteq {"mock", "on_chain"}
  /\ MaxCrashes \in Nat /\ MaxElsewhere \in Nat /\ MaxStale \in Nat

VARIABLES
  mode,         \* state.mode
  up,           \* the process accepts requests
  cache,        \* the NullifierCache, "absent" for a key not in the map
  pc,           \* where each request's handler stands
  seq,          \* sequence number of the transaction each request has built
                \* and not yet sent, 0 if none
  answer,       \* what each request was answered
  settlements,  \* lines of the settlements log, by request
  metrics,      \* totalSettlements and totalReplayRejections since boot
  txs,          \* each request's transaction on the ledger
  accountSeq,   \* sequence number of the facilitator's account
  spent,        \* Nullifiers map of the pool contract
  stale,        \* requests whose proof the pool no longer accepts
  crashes

processVars == <<mode, up, cache, pc, seq, answer, settlements, metrics>>
chainVars == <<txs, accountSeq, spent, stale>>
vars == <<processVars, chainVars, crashes>>

KeysOf(r) == Range(InputNullifiers[r])

\* toScVal of each input: the submission carries numbers.
NullifiersOf(r) == {ValueOf[k] : k \in KeysOf(r)}

\* Handlers that hold claims: between tryClaim and commit or release.
Holding == {"verifying", "snapshot", "account", "preparing", "sending", "polling", "asking"}
Live == Holding \cup {"appending", "answering"}

Init ==
  /\ mode \in Modes
  /\ up = TRUE
  /\ cache = [k \in Keys |-> "absent"]
  /\ pc = [r \in Requests |-> "idle"]
  /\ seq = [r \in Requests |-> 0]
  /\ answer = [r \in Requests |-> "none"]
  /\ settlements = << >>
  /\ metrics = [totalSettlements |-> 0, totalReplayRejections |-> 0]
  /\ txs = [r \in Requests |-> "none"]
  /\ accountSeq = 0
  /\ spent = {}
  /\ stale = {}
  /\ crashes = 0

---------------------------------------------------------------------------
(***************************************************************************)
(* The cache.                                                              *)
(***************************************************************************)

\* Mutant: like the peek of /verify, only committed nullifiers are taken.
ClaimableUnlessCommitted(r) ==
  /\ \A k \in KeysOf(r) : cache[k] # "committed"
  /\ Cardinality(KeysOf(r)) = Len(InputNullifiers[r])

\* tryClaim on each key in turn: all of them are new, and none comes twice in
\* the same proof.
AllClaimable(r) ==
  /\ \A k \in KeysOf(r) : cache[k] = "absent"
  /\ Cardinality(KeysOf(r)) = Len(InputNullifiers[r])

\* The keys a request claims before one that is taken stops it.
ClaimedBefore(r) ==
  LET ks == InputNullifiers[r]
      taken(i) == cache[ks[i]] # "absent" \/ \E j \in 1 .. i - 1 : ks[j] = ks[i]
  IN {ks[i] : i \in {j \in 1 .. Len(ks) : \A m \in 1 .. j : ~taken(m)}}

\* Mutant: a handler that fails keeps its claims.
KeepClaims(c, ks) == c

\* What a map of claims becomes when the claims on ks are given up or made
\* final: an entry already committed stays as it is.
Release(c, ks) == [k \in Keys |-> IF k \in ks /\ c[k] = "in_flight" THEN "absent" ELSE c[k]]
Claim(c, ks) == [k \in Keys |-> IF k \in ks THEN "in_flight" ELSE c[k]]
Commit(c, ks) == [k \in Keys |-> IF k \in ks THEN "committed" ELSE c[k]]

\* Mutant: a claim that fails leaves the earlier ones of its request.
NoRollback(c, ks) == Claim(c, ks)

\* Prior claims are rolled back when a later one fails.
Rollback(c, ks) == Release(Claim(c, ks), ks)

---------------------------------------------------------------------------
(***************************************************************************)
(* The handler.                                                            *)
(***************************************************************************)

Goto(r, place) == pc' = [pc EXCEPT ![r] = place]
Answer(r, what) == Goto(r, "done") /\ answer' = [answer EXCEPT ![r] = what]

\* A replay is refused with 409; otherwise the claims are made and the
\* handler waits for its first result.
Settle(r) ==
  /\ up /\ pc[r] = "idle"
  /\ \/ /\ ~AllClaimable(r)
        /\ cache' = Rollback(cache, ClaimedBefore(r))
        /\ metrics' = [metrics EXCEPT !.totalReplayRejections = @ + 1]
        /\ Answer(r, "already_spent")
     \/ /\ AllClaimable(r)
        /\ cache' = Claim(cache, KeysOf(r))
        /\ Goto(r, IF mode = "mock" THEN "verifying" ELSE "snapshot")
        /\ UNCHANGED <<answer, metrics>>
  /\ UNCHANGED <<mode, up, seq, settlements, chainVars, crashes>>

\* Every way out but success: the claims are released.
Fail(r, reason) ==
  /\ cache' = Release(cache, KeysOf(r))
  /\ Answer(r, reason)
  /\ seq' = [seq EXCEPT ![r] = 0]
  /\ UNCHANGED <<mode, up, settlements, metrics, crashes>>

\* The claims become final and the settlement is counted; the log comes next.
Commits(r) ==
  /\ cache' = Commit(cache, KeysOf(r))
  /\ metrics' = [metrics EXCEPT !.totalSettlements = @ + 1]
  /\ Goto(r, "appending")
  /\ UNCHANGED <<mode, up, seq, answer, settlements, crashes>>

\* Mock mode: the proof is verified off chain.
MockVerified(r) ==
  /\ pc[r] = "verifying"
  /\ Commits(r)
  /\ UNCHANGED chainVars

MockRefused(r) ==
  /\ pc[r] = "verifying"
  /\ Fail(r, "proof_verification_failed")
  /\ UNCHANGED chainVars

\* readBalanceSnapshot and checkSolvency.
Solvent(r) ==
  /\ pc[r] = "snapshot"
  /\ Goto(r, "account")
  /\ UNCHANGED <<mode, up, cache, seq, answer, settlements, metrics, chainVars, crashes>>

Insolvent(r) ==
  /\ pc[r] = "snapshot"
  /\ Fail(r, "insolvent")
  /\ UNCHANGED chainVars

\* Mutant: the builder's increment is added a second time.
ReadAccountAhead(r) ==
  /\ pc[r] = "account"
  /\ seq' = [seq EXCEPT ![r] = accountSeq + 2]
  /\ Goto(r, "preparing")
  /\ UNCHANGED <<mode, up, cache, answer, settlements, metrics, chainVars, crashes>>

\* getAccount: the transaction is built on the sequence number of the moment.
ReadAccount(r) ==
  /\ pc[r] = "account"
  /\ seq' = [seq EXCEPT ![r] = accountSeq + 1]
  /\ Goto(r, "preparing")
  /\ UNCHANGED <<mode, up, cache, answer, settlements, metrics, chainVars, crashes>>

\* Whether pool.transact would take the proof now: no proof verifies for one
\* nullifier twice.
PoolAccepts(r) ==
  /\ r \notin stale /\ NullifiersOf(r) \cap spent = {}
  /\ Cardinality(NullifiersOf(r)) = Len(InputNullifiers[r])

\* prepareTransaction simulates the call; a call the pool refuses throws an
\* error that is not a SubmitError.
Prepare(r) ==
  /\ pc[r] = "preparing"
  /\ PoolAccepts(r)
  /\ Goto(r, "sending")
  /\ UNCHANGED <<mode, up, cache, seq, answer, settlements, metrics, chainVars, crashes>>

PrepareRefused(r) ==
  /\ pc[r] = "preparing"
  /\ ~PoolAccepts(r)
  /\ Fail(r, "pool_rejected_unknown")
  /\ UNCHANGED chainVars

\* The network queues one transaction per account, the next in sequence.
Accepted(r) == seq[r] = accountSeq + 1 /\ \A o \in Requests : txs[o] # "pending"

\* The transaction is out of the handler's hands.
GoPolling(r) == Goto(r, "polling") /\ seq' = [seq EXCEPT ![r] = 0]

\* sendTransaction: PENDING.  The result may get lost on its way back, which
\* the handler cannot tell from a call that failed.
Send(r) ==
  /\ pc[r] = "sending"
  /\ Accepted(r)
  /\ txs' = [txs EXCEPT ![r] = "pending"]
  /\ UNCHANGED <<accountSeq, spent, stale>>
  /\ \/ /\ GoPolling(r)
        /\ UNCHANGED <<mode, up, cache, answer, settlements, metrics, crashes>>
     \/ Fail(r, "pool_rejected_unknown")

\* sendTransaction: ERROR (a sequence number that is not the next, a fee).
SendError(r) ==
  /\ pc[r] = "sending"
  /\ Fail(r, "pool_rejected_unknown")
  /\ UNCHANGED chainVars

\* sendTransaction: TRY_AGAIN_LATER is not an ERROR, so the handler polls for
\* a transaction that was not queued.
SendAgainLater(r) ==
  /\ pc[r] = "sending"
  /\ GoPolling(r)
  /\ UNCHANGED <<mode, up, cache, answer, settlements, metrics, chainVars, crashes>>

\* Any of the calls before the poll can throw.
RpcError(r) ==
  /\ pc[r] \in {"snapshot", "account", "preparing"}
  /\ Fail(r, "pool_rejected_unknown")
  /\ UNCHANGED chainVars

\* Mutant: any answer but NOT_FOUND is taken for SUCCESS.
IsAnyConfirmation(status) == status \in {"success", "failed"}

IsSuccess(status) == status = "success"

\* The loop's test holds: getTransaction is called.
Poll(r) ==
  /\ pc[r] = "polling"
  /\ Goto(r, "asking")
  /\ UNCHANGED <<mode, up, cache, seq, answer, settlements, metrics, chainVars, crashes>>

PollSuccess(r) ==
  /\ pc[r] = "asking"
  /\ IsSuccess(txs[r])
  /\ Commits(r)
  /\ UNCHANGED chainVars

\* FAILED on the ledger, or a call that throws.
PollFailed(r) ==
  /\ pc[r] = "asking"
  /\ Fail(r, "pool_rejected_unknown")
  /\ UNCHANGED chainVars

\* NOT_FOUND, also of a transaction the RPC server has not seen yet: back to
\* the loop's test after a pause.
PollNotFound(r) ==
  /\ pc[r] = "asking"
  /\ Goto(r, "polling")
  /\ UNCHANGED <<mode, up, cache, seq, answer, settlements, metrics, chainVars, crashes>>

\* Mutant: the deadline is only looked at when the transaction was found.
PollTimeoutWhenFound(r) ==
  /\ pc[r] = "polling"
  /\ txs[r] # "none"
  /\ Fail(r, "submit_timeout")
  /\ UNCHANGED chainVars

\* The loop's test finds the deadline passed, whatever became of the
\* transaction: it is valid for 60 seconds and the poll lasts 30.
PollTimeout(r) ==
  /\ pc[r] = "polling"
  /\ Fail(r, "submit_timeout")
  /\ UNCHANGED chainVars

\* The log line is written, or the write fails with a warning.
AppendLog(r) ==
  /\ pc[r] = "appending"
  /\ settlements' \in {settlements, Append(settlements, r)}
  /\ Goto(r, "answering")
  /\ UNCHANGED <<mode, up, cache, seq, answer, metrics, chainVars, crashes>>

\* Once the write has returned, 200.
Answer200(r) ==
  /\ pc[r] = "answering"
  /\ Answer(r, "success")
  /\ UNCHANGED <<mode, up, cache, seq, settlements, metrics, chainVars, crashes>>

---------------------------------------------------------------------------
(***************************************************************************)
(* Crash and boot.                                                         *)
(***************************************************************************)

\* Everything in memory is gone and the clients' connections break.
Crash ==
  /\ up
  /\ crashes < MaxCrashes
  /\ crashes' = crashes + 1
  /\ up' = FALSE
  /\ cache' = [k \in Keys |-> "absent"]
  /\ pc' = [r \in Requests |-> IF pc[r] \in Live THEN "done" ELSE pc[r]]
  /\ answer' = [r \in Requests |-> IF pc[r] \in Live THEN "connection_lost" ELSE answer[r]]
  /\ seq' = [r \in Requests |-> 0]
  /\ metrics' = [totalSettlements |-> 0, totalReplayRejections |-> 0]
  /\ UNCHANGED <<mode, settlements, chainVars>>

\* The events of pool.transact for the nullifiers marked so far.
PoolEvents == [topic : {"new_nullifier_event"}, nullifier : spent]

\* hydrateNullifierCache asks for events of one topic.
Hydrated == {HexOf[e.nullifier] : e \in {f \in PoolEvents : f.topic = "transact"}}

\* bootstrap: hydration comes before listen.
Boot ==
  /\ ~up
  /\ up' = TRUE
  /\ cache' = Commit(cache, IF mode = "on_chain" THEN Hydrated ELSE {})
  /\ UNCHANGED <<mode, pc, seq, answer, settlements, metrics, chainVars, crashes>>

---------------------------------------------------------------------------
(***************************************************************************)
(* The ledger.                                                             *)
(***************************************************************************)

\* A queued transaction is applied: it uses up its sequence number, and the
\* pool marks both nullifiers or refuses the call.
Apply(r) ==
  /\ txs[r] = "pending"
  /\ accountSeq' = accountSeq + 1
  /\ IF PoolAccepts(r)
       THEN /\ txs' = [txs EXCEPT ![r] = "success"]
            /\ spent' = spent \cup NullifiersOf(r)
       ELSE /\ txs' = [txs EXCEPT ![r] = "failed"]
            /\ UNCHANGED spent
  /\ UNCHANGED <<stale, processVars, crashes>>

\* A queued transaction outlives its time bound and is dropped.
Expire(r) ==
  /\ txs[r] = "pending"
  /\ txs' = [txs EXCEPT ![r] = "expired"]
  /\ UNCHANGED <<accountSeq, spent, stale, processVars, crashes>>

SpentHere == UNION {NullifiersOf(r) : r \in {q \in Requests : txs[q] = "success"}}

\* The owner of a note spends it without the facilitator.
SpendElsewhere(n) ==
  /\ n \notin spent
  /\ Cardinality(spent \ SpentHere) < MaxElsewhere
  /\ spent' = spent \cup {n}
  /\ UNCHANGED <<txs, accountSeq, stale, processVars, crashes>>

\* The root of a proof leaves the pool's history, or its policy roots change.
ProofExpires(r) ==
  /\ r \notin stale
  /\ Cardinality(stale) < MaxStale
  /\ stale' = stale \cup {r}
  /\ UNCHANGED <<txs, accountSeq, spent, processVars, crashes>>

---------------------------------------------------------------------------

OnChainStep(r) ==
  \/ Solvent(r) \/ Insolvent(r) \/ ReadAccount(r) \/ Prepare(r) \/ PrepareRefused(r)
  \/ Send(r) \/ SendError(r) \/ SendAgainLater(r) \/ RpcError(r)
  \/ Poll(r) \/ PollSuccess(r) \/ PollFailed(r) \/ PollNotFound(r) \/ PollTimeout(r)

Next ==
  \/ \E r \in Requests :
       \/ Settle(r) \/ MockVerified(r) \/ MockRefused(r) \/ OnChainStep(r) \/ AppendLog(r)
       \/ Answer200(r) \/ Apply(r) \/ Expire(r) \/ ProofExpires(r)
  \/ \E n \in Nullifiers : SpendElsewhere(n)
  \/ Crash
  \/ Boot

Spec == Init /\ [][Next]_vars

\* If the process lives on: the handler's own steps are taken, a write to the
\* log's file returns, and the loop's test, which a pause of 10 ms separates
\* from the last, cannot come out the same for ever.  Nothing makes a call to
\* the RPC server return: getTransaction has no timeout.
FairSpec ==
  /\ Spec
  /\ \A r \in Requests :
       /\ WF_vars(Poll(r) \/ PollTimeout(r)) /\ SF_vars(PollTimeout(r))
       /\ WF_vars(AppendLog(r)) /\ WF_vars(Answer200(r))

---------------------------------------------------------------------------
(***************************************************************************)
(* What makes the facilitator correct.                                     *)
(***************************************************************************)

\* No transaction is built ahead of the account's next sequence number.
TypeOK ==
  /\ mode \in Modes /\ up \in BOOLEAN
  /\ cache \in [Keys -> {"absent", "in_flight", "committed"}]
  /\ pc \in [Requests -> Live \cup {"idle", "done"}]
  /\ seq \in [Requests -> 0 .. accountSeq + 1]
  /\ answer \in [Requests -> {"none", "success", "already_spent", "insolvent",
       "proof_verification_failed", "pool_rejected_unknown", "submit_timeout",
       "connection_lost"}]
  /\ settlements \in Seq(Requests)
  /\ metrics \in [totalSettlements : Nat, totalReplayRejections : Nat]
  /\ txs \in [Requests -> {"none", "pending", "success", "failed", "expired"}]
  /\ accountSeq \in 0 .. Cardinality(Requests)
  /\ spent \subseteq Nullifiers
  /\ stale \subseteq Requests
  /\ crashes \in 0 .. MaxCrashes

(***************************************************************************)
(* The cache is a lock table over the awaits of the handlers: a key is in  *)
(* flight exactly while one handler holds it.  A claim nobody holds would  *)
(* refuse its note until the next restart; one held twice would let two    *)
(* handlers submit it.  Two keys of one nullifier are two claims.          *)
(***************************************************************************)
Holds(r, k) == pc[r] \in Holding /\ k \in KeysOf(r)

ClaimsHaveOneOwner ==
  \A k \in Keys :
    /\ cache[k] = "in_flight" <=> \E r \in Requests : Holds(r, k)
    /\ \A r, o \in Requests : Holds(r, k) /\ Holds(o, k) => r = o

(***************************************************************************)
(* There is no "200 and silently failed to settle": a request is answered  *)
(* with success, has its line in the log, and has its keys final in the    *)
(* cache, only after its own transaction went through, wherever between    *)
(* the log and the answer the process dies.                                *)
(***************************************************************************)
Settled(r) ==
  \/ answer[r] = "success" \/ pc[r] \in {"appending", "answering"}
  \/ r \in Range(settlements)

SuccessIsOnChain ==
  mode = "on_chain" =>
    /\ \A r \in Requests : Settled(r) => txs[r] = "success"
    /\ \A k \in Keys : cache[k] = "committed" => ValueOf[k] \in spent

(***************************************************************************)
(* A nullifier settles at most one request, whichever requests are retried *)
(* or arrive together.  On the ledger that holds across restarts and       *)
(* however nullifiers are spelled; in mock mode, the cache being all there *)
(* is, it holds of a key and for the life of the process.                  *)
(***************************************************************************)
NullifiersSettleOnce ==
  \A r, o \in Requests :
    Settled(r) /\ Settled(o) /\ r # o =>
      /\ mode = "on_chain" => NullifiersOf(r) \cap NullifiersOf(o) = {}
      /\ crashes = 0 => KeysOf(r) \cap KeysOf(o) = {}

(***************************************************************************)
(* Once a transaction was handed to the network its request is answered,   *)
(* even if the ledger never tells what became of it, unless one call of    *)
(* the poll never returns.                                                 *)
(***************************************************************************)
SubmittedIsAnswered ==
  \A r \in Requests :
    pc[r] \in {"polling", "asking", "appending", "answering"} ~>
      (pc[r] = "done" \/ [](pc[r] = "asking"))

(***************************************************************************)
(* What clients may rely on (Settlement): a request is answered success    *)
(* only for a payment of its own that went through, refused as already     *)
(* spent only while another request holds a nullifier of its proof or once *)
(* the pool has marked one, and a failure leaves open what became of the   *)
(* payment.  Mock mode pays nothing on the ledger and maps to requests     *)
(* that never come.                                                        *)
(***************************************************************************)
StatusOf(r) ==
  CASE mode = "mock" \/ pc[r] = "idle" -> "idle"
    [] mode = "on_chain" /\ pc[r] \in Live -> "open"
    [] OTHER -> IF answer[r] \in {"success", "already_spent"} THEN answer[r] ELSE "failed"

Promise == INSTANCE Settlement WITH
  status <- [r \in Requests |-> StatusOf(r)],
  bill <- [r \in Requests |->
            IF mode = "mock" \/ pc[r] = "idle" THEN << >> ELSE InputNullifiers[r]],
  paid <- {r \in Requests : txs[r] = "success"},
  spent <- spent

SettlementSpec == Promise!SettlementSpec

(***************************************************************************)
(* hydrateNullifierCache.ts:31-35: the boot rehydrates the cache with      *)
(* every nullifier that has already been spent.                            *)
(***************************************************************************)
BootRestoresSpent ==
  [][Boot /\ mode = "on_chain" => \A n \in spent : cache'[HexOf[n]] = "committed"]_vars

(***************************************************************************)
(* FACIL-03, .planning/REQUIREMENTS.md:46: a proof settles once, and the   *)
(* same proof submitted a second time is rejected with 409.                *)
(***************************************************************************)
ReplayIsRefused ==
  [][\A r, o \in Requests :
       (/\ pc[r] = "idle" /\ pc'[r] # "idle"
        /\ txs[o] = "success" /\ InputNullifiers[o] = InputNullifiers[r])
          => answer'[r] = "already_spent"]_vars
============================================================================
