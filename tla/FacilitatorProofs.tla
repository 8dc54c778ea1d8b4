------------------------- MODULE FacilitatorProofs --------------------------
(***************************************************************************)
(* The safety of POST /settle, proved for every set of requests, every     *)
(* assignment of nullifiers to them, every way of spelling these, and any  *)
(* number of crashes.                                                      *)
(***************************************************************************)
EXTENDS Facilitator, FiniteSetTheorems, TLAPS

\* Transactions that used up a sequence number of the account.
Applied == {r \in Requests : txs[r] \in {"success", "failed"}}

SequenceCountsApplied == accountSeq = Cardinality(Applied)

\* A process that is down has no handler.
DownIsIdle == ~up => \A r \in Requests : pc[r] \notin Live

\* What a handler's place tells of its mode, its answer and its transaction:
\* mock mode submits nothing, and a request that is refused never did.
Unsent == {"idle", "verifying", "snapshot", "account", "preparing", "sending"}

PlacesAreConsistent ==
  \A r \in Requests :
    /\ pc[r] = "verifying" => mode = "mock"
    /\ mode = "mock" => pc[r] \notin Holding \ {"verifying"} /\ txs[r] = "none"
    /\ pc[r] # "done" => answer[r] = "none"
    /\ pc[r] \in Unsent \/ answer[r] = "already_spent" => txs[r] = "none"

\* A transaction that went through marked its nullifiers for the first time.
LandedOnce ==
  /\ \A r \in Requests : txs[r] = "success" => NullifiersOf(r) \subseteq spent
  /\ \A r, o \in Requests :
       txs[r] = "success" /\ txs[o] = "success" /\ r # o
         => NullifiersOf(r) \cap NullifiersOf(o) = {}

\* Until a crash, what is settled is final in the cache.
SettledIsFinal ==
  crashes = 0 =>
    /\ \A r \in Requests : Settled(r) => \A k \in KeysOf(r) : cache[k] = "committed"
    /\ \A r, o \in Requests :
         Settled(r) /\ Settled(o) /\ r # o => KeysOf(r) \cap KeysOf(o) = {}

\* The keys of a request about to be answered success are final.
Ending == {"appending", "answering"}
AppendingIsFinal ==
  \A r \in Requests : pc[r] \in Ending => \A k \in KeysOf(r) : cache[k] = "committed"

ChainInv == PlacesAreConsistent /\ LandedOnce /\ SuccessIsOnChain

\* The inductive invariant.
FacilitatorInv ==
  /\ TypeOK
  /\ SequenceCountsApplied
  /\ DownIsIdle
  /\ ClaimsHaveOneOwner
  /\ ChainInv
  /\ SettledIsFinal
  /\ AppendingIsFinal

---------------------------------------------------------------------------

\* The strings of a proof are keys, and stand for nullifiers.
LEMMA KeysTyped ==
  ASSUME NEW r \in Requests
  PROVE  KeysOf(r) \subseteq Keys
  BY RequestsAssumption DEF KeysOf, Range

LEMMA NullifiersTyped ==
  ASSUME NEW r \in Requests
  PROVE  NullifiersOf(r) \subseteq Nullifiers
  BY RequestsAssumption, KeysTyped DEF NullifiersOf

\* The loop over the keys claims only what nobody holds.
LEMMA ClaimedWereAbsent ==
  ASSUME NEW r \in Requests, NEW k \in ClaimedBefore(r)
  PROVE  cache[k] = "absent"
  BY RequestsAssumption DEF ClaimedBefore

\* A refused claim gives back what it had claimed and nothing else.
LEMMA RollbackUndoes ==
  ASSUME TypeOK, NEW r \in Requests
  PROVE  Rollback(cache, ClaimedBefore(r)) = cache
  BY ClaimedWereAbsent DEF Rollback, Release, Claim, TypeOK

\* A transaction that is applied is counted once.
LEMMA ApplyCounts ==
  ASSUME TypeOK, SequenceCountsApplied, NEW r \in Requests, Apply(r)
  PROVE  /\ SequenceCountsApplied'
         /\ accountSeq' \in 0 .. Cardinality(Requests)
  <1>1. IsFiniteSet(Applied) /\ r \notin Applied
    BY RequestsAssumption, FS_Subset DEF Applied, Apply
  <1>2. Applied' = Applied \cup {r}
    BY DEF Applied, Apply, TypeOK
  <1>3. Cardinality(Applied \cup {r}) = Cardinality(Applied) + 1
    BY <1>1, FS_AddElement
  <1>4. accountSeq' = Cardinality(Applied')
    BY <1>2, <1>3 DEF Apply, SequenceCountsApplied
  <1>5. Applied' \in SUBSET Requests
    BY DEF Applied
  <1>6. Cardinality(Applied') <= Cardinality(Requests)
    BY <1>5, RequestsAssumption, FS_Subset
  <1>7. Cardinality(Requests) \in Nat /\ accountSeq' \in Nat
    BY RequestsAssumption, FS_CardinalityType DEF Apply, TypeOK
  <1>8. QED
    BY <1>4, <1>6, <1>7 DEF SequenceCountsApplied

\* The cache operations keep the cache a cache.
LEMMA CacheTyped ==
  ASSUME TypeOK, NEW ns
  PROVE  /\ Release(cache, ns) \in [Keys -> {"absent", "in_flight", "committed"}]
         /\ Claim(cache, ns) \in [Keys -> {"absent", "in_flight", "committed"}]
         /\ Commit(cache, ns) \in [Keys -> {"absent", "in_flight", "committed"}]
  BY DEF Release, Claim, Commit, TypeOK

Places == Live \cup {"idle", "done"}
Answers == {"none", "success", "already_spent", "insolvent", "proof_verification_failed",
            "pool_rejected_unknown", "submit_timeout", "connection_lost"}

\* A handler that moves on stands at a place, and an answer is an answer.
LEMMA GotoTyped ==
  ASSUME TypeOK, NEW r, NEW place \in Places, Goto(r, place)
  PROVE  pc' \in [Requests -> Places]
  BY DEF Goto, TypeOK, Places

LEMMA AnswerTyped ==
  ASSUME TypeOK, NEW r, NEW what \in Answers, Answer(r, what)
  PROVE  pc' \in [Requests -> Places] /\ answer' \in [Requests -> Answers]
  <1>1. "done" \in Places
    BY DEF Places
  <1>2. QED
    BY <1>1, GotoTyped DEF Answer, TypeOK, Answers

\* Counting a settlement or a refusal keeps the metrics counters.
LEMMA MetricsTyped ==
  ASSUME TypeOK
  PROVE  /\ [metrics EXCEPT !.totalSettlements = @ + 1]
              \in [totalSettlements : Nat, totalReplayRejections : Nat]
         /\ [metrics EXCEPT !.totalReplayRejections = @ + 1]
              \in [totalSettlements : Nat, totalReplayRejections : Nat]
  BY DEF TypeOK

\* Reading the account and letting go of a transaction keep the sequences.
LEMMA SeqTyped ==
  ASSUME TypeOK, NEW r
  PROVE  /\ [seq EXCEPT ![r] = 0] \in [Requests -> 0 .. accountSeq + 1]
         /\ [seq EXCEPT ![r] = accountSeq + 1] \in [Requests -> 0 .. accountSeq + 1]
  <1>1. seq \in [Requests -> 0 .. accountSeq + 1] /\ accountSeq \in Nat
    BY RequestsAssumption, FS_CardinalityType DEF TypeOK
  <1>2. 0 \in 0 .. accountSeq + 1 /\ accountSeq + 1 \in 0 .. accountSeq + 1
    BY <1>1
  <1>3. QED
    BY <1>1, <1>2

LEMMA TypeStep ==
  ASSUME TypeOK, SequenceCountsApplied, PlacesAreConsistent, [Next]_vars
  PROVE  TypeOK' /\ SequenceCountsApplied'
  <1> USE DEF chainVars, Places, Answers
  <1>1. ASSUME NEW r \in Requests, Settle(r)
        PROVE  TypeOK' /\ SequenceCountsApplied'
    <2>1. pc' \in [Requests -> Places] /\ answer' \in [Requests -> Answers]
      <3>1. CASE Answer(r, "already_spent")
        BY <3>1, AnswerTyped
      <3>2. CASE Goto(r, IF mode = "mock" THEN "verifying" ELSE "snapshot") /\ UNCHANGED answer
        BY <3>2, GotoTyped DEF TypeOK, Live, Holding
      <3>3. QED
        BY <1>1, <3>1, <3>2 DEF Settle
    <2>2. cache' \in [Keys -> {"absent", "in_flight", "committed"}]
      BY <1>1, CacheTyped, RollbackUndoes DEF Settle, TypeOK
    <2>3. QED
      BY <1>1, <2>1, <2>2, MetricsTyped DEF Settle, TypeOK, SequenceCountsApplied, Applied
  <1>2. ASSUME NEW r \in Requests, NEW reason \in {"insolvent", "proof_verification_failed",
                 "pool_rejected_unknown", "submit_timeout"},
               Fail(r, reason), UNCHANGED chainVars
        PROVE  TypeOK' /\ SequenceCountsApplied'
    BY <1>2, CacheTyped, AnswerTyped, SeqTyped DEF Fail, TypeOK, SequenceCountsApplied, Applied
  <1>3. ASSUME NEW r \in Requests, Commits(r), UNCHANGED chainVars
        PROVE  TypeOK' /\ SequenceCountsApplied'
    <2>1. pc' \in [Requests -> Places]
      BY <1>3, GotoTyped DEF Commits, Live
    <2>2. QED
      BY <1>3, <2>1, CacheTyped, MetricsTyped DEF Commits, TypeOK, SequenceCountsApplied, Applied
  <1>4. ASSUME NEW r \in Requests,
               \/ Solvent(r) \/ ReadAccount(r) \/ Prepare(r) \/ SendAgainLater(r)
               \/ Poll(r) \/ PollNotFound(r)
        PROVE  TypeOK' /\ SequenceCountsApplied'
    <2> USE DEF Solvent, ReadAccount, Prepare, SendAgainLater, GoPolling, Poll, PollNotFound
    <2>1. \E place \in Places : Goto(r, place)
      BY <1>4 DEF Live, Holding
    <2>2. pc' \in [Requests -> Places]
      BY <2>1, GotoTyped
    <2>3. seq' \in [Requests -> 0 .. accountSeq + 1]
      <3>1. seq \in [Requests -> 0 .. accountSeq + 1]
        BY DEF TypeOK
      <3>2. seq' \in {seq, [seq EXCEPT ![r] = 0], [seq EXCEPT ![r] = accountSeq + 1]}
        BY <1>4
      <3>3. QED
        BY <3>1, <3>2, SeqTyped
    <2>4. UNCHANGED <<mode, up, cache, answer, settlements, metrics, chainVars, crashes>>
      BY <1>4
    <2>5. QED
      BY <2>2, <2>3, <2>4 DEF TypeOK, SequenceCountsApplied, Applied
  <1>5. ASSUME NEW r \in Requests, Send(r)
        PROVE  TypeOK' /\ SequenceCountsApplied'
    <2>1. txs' \in [Requests -> {"none", "pending", "success", "failed", "expired"}]
      BY <1>5 DEF Send, TypeOK
    <2>2. Applied' = Applied
      BY <1>5 DEF Send, Applied, TypeOK, PlacesAreConsistent, Unsent
    <2>3. CASE GoPolling(r) /\ UNCHANGED <<mode, up, cache, answer, settlements, metrics, crashes>>
      <3>1. pc' \in [Requests -> Places]
        BY <2>3, GotoTyped DEF GoPolling, Live, Holding
      <3>2. QED
        BY <1>5, <2>1, <2>2, <2>3, <3>1, SeqTyped
           DEF Send, GoPolling, TypeOK, SequenceCountsApplied
    <2>4. CASE Fail(r, "pool_rejected_unknown")
      BY <1>5, <2>1, <2>2, <2>4, CacheTyped, AnswerTyped, SeqTyped DEF Send, Fail, TypeOK,
                                                                       SequenceCountsApplied
    <2>5. QED
      BY <1>5, <2>3, <2>4 DEF Send
  <1>6. ASSUME NEW r \in Requests, AppendLog(r)
        PROVE  TypeOK' /\ SequenceCountsApplied'
    <2>1. pc' \in [Requests -> Places]
      BY <1>6, GotoTyped DEF AppendLog, Live
    <2>2. settlements' \in Seq(Requests)
      <3>1. settlements \in Seq(Requests)
        BY DEF TypeOK
      <3>2. Append(settlements, r) \in Seq(Requests)
        BY <3>1
      <3>3. settlements' \in {settlements, Append(settlements, r)}
        BY <1>6 DEF AppendLog
      <3>4. QED
        BY <3>1, <3>2, <3>3
    <2>3. QED
      BY <1>6, <2>1, <2>2 DEF AppendLog, TypeOK, SequenceCountsApplied, Applied
  <1>7. ASSUME NEW r \in Requests, Apply(r)
        PROVE  TypeOK' /\ SequenceCountsApplied'
    <2>1. SequenceCountsApplied' /\ accountSeq' \in 0 .. Cardinality(Requests)
      BY <1>7, ApplyCounts
    <2>2. spent' \subseteq Nullifiers
      BY <1>7, NullifiersTyped DEF Apply, TypeOK
    <2>3. seq' \in [Requests -> 0 .. accountSeq' + 1]
      BY <1>7 DEF Apply, TypeOK, processVars
    <2>4. QED
      BY <1>7, <2>1, <2>2, <2>3 DEF Apply, TypeOK, processVars
  <1>8. ASSUME NEW r \in Requests, Expire(r)
        PROVE  TypeOK' /\ SequenceCountsApplied'
    <2>1. Applied' = Applied
      BY <1>8 DEF Expire, Applied, TypeOK
    <2>2. QED
      BY <1>8, <2>1 DEF Expire, TypeOK, SequenceCountsApplied, processVars
  <1>9. ASSUME NEW r \in Requests, ProofExpires(r)
        PROVE  TypeOK' /\ SequenceCountsApplied'
    BY <1>9 DEF ProofExpires, TypeOK, SequenceCountsApplied, Applied, processVars
  <1>10. ASSUME NEW n \in Nullifiers, SpendElsewhere(n)
         PROVE  TypeOK' /\ SequenceCountsApplied'
    BY <1>10 DEF SpendElsewhere, TypeOK, SequenceCountsApplied, Applied, processVars
  <1>11. CASE Crash
    <2>1. pc' \in [Requests -> Places] /\ answer' \in [Requests -> Answers]
      BY <1>11 DEF Crash, TypeOK
    <2>2. crashes' \in 0 .. MaxCrashes
      BY <1>11, RequestsAssumption DEF Crash, TypeOK
    <2>3. seq' \in [Requests -> 0 .. accountSeq + 1]
      BY <1>11 DEF Crash, TypeOK
    <2>4. QED
      BY <1>11, <2>1, <2>2, <2>3 DEF Crash, TypeOK, SequenceCountsApplied, Applied
  <1>12. CASE Boot
    BY <1>12, CacheTyped DEF Boot, TypeOK, SequenceCountsApplied, Applied
  <1>13. CASE UNCHANGED vars
    BY <1>13 DEF vars, processVars, TypeOK, SequenceCountsApplied, Applied
  <1>14. ASSUME NEW r \in Requests, Answer200(r)
         PROVE  TypeOK' /\ SequenceCountsApplied'
    <2>1. pc' \in [Requests -> Places] /\ answer' \in [Requests -> Answers]
      BY <1>14, AnswerTyped DEF Answer200
    <2>2. QED
      BY <1>14, <2>1 DEF Answer200, TypeOK, SequenceCountsApplied, Applied
  <1>15. QED
    BY <1>1, <1>2, <1>3, <1>4, <1>5, <1>6, <1>7, <1>8, <1>9, <1>10, <1>11, <1>12, <1>13, <1>14
       DEF Next, OnChainStep, MockVerified, MockRefused, Insolvent, PrepareRefused, SendError,
           RpcError, Poll, PollSuccess, PollFailed, PollNotFound, PollTimeout

---------------------------------------------------------------------------

\* A request that fails gives up its claims, and they were nobody else's.
LEMMA FailReleases ==
  ASSUME TypeOK, ClaimsHaveOneOwner, DownIsIdle, NEW r \in Requests, NEW reason,
         pc[r] \in Holding, Fail(r, reason)
  PROVE  ClaimsHaveOneOwner' /\ DownIsIdle'
  <1>1. \A o \in Requests, k \in Keys : Holds(o, k)' <=> o # r /\ Holds(o, k)
    BY DEF Fail, Answer, Goto, Holds, Holding, TypeOK
  <1>2. \A k \in Keys :
          cache'[k] = IF Holds(r, k) /\ cache[k] = "in_flight" THEN "absent" ELSE cache[k]
    BY DEF Fail, Release, Holds
  <1>3. ClaimsHaveOneOwner'
    BY <1>1, <1>2 DEF ClaimsHaveOneOwner
  <1>4. DownIsIdle'
    BY DEF Fail, Answer, Goto, DownIsIdle, Live, Holding, TypeOK
  <1>5. QED
    BY <1>3, <1>4

\* A request that settles makes its claims final, and they were nobody else's.
LEMMA CommitsRelease ==
  ASSUME TypeOK, ClaimsHaveOneOwner, DownIsIdle, NEW r \in Requests,
         pc[r] \in Holding, Commits(r)
  PROVE  ClaimsHaveOneOwner' /\ DownIsIdle'
  <1>1. \A o \in Requests, k \in Keys : Holds(o, k)' <=> o # r /\ Holds(o, k)
    BY DEF Commits, Goto, Holds, Holding, TypeOK
  <1>2. \A k \in Keys : cache'[k] = IF Holds(r, k) THEN "committed" ELSE cache[k]
    BY DEF Commits, Commit, Holds
  <1>3. ClaimsHaveOneOwner'
    BY <1>1, <1>2 DEF ClaimsHaveOneOwner
  <1>4. DownIsIdle'
    BY DEF Commits, Goto, DownIsIdle, Live, TypeOK
  <1>5. QED
    BY <1>3, <1>4

\* A request that waits for its next result keeps its claims.
LEMMA WaitKeepsClaims ==
  ASSUME TypeOK, ClaimsHaveOneOwner, DownIsIdle, NEW r \in Requests,
         NEW place \in Holding, pc[r] \in Holding, Goto(r, place), UNCHANGED <<up, cache>>
  PROVE  ClaimsHaveOneOwner' /\ DownIsIdle'
  <1>1. \A o \in Requests, k \in Keys : Holds(o, k)' <=> Holds(o, k)
    BY DEF Goto, Holds, TypeOK
  <1>2. ClaimsHaveOneOwner'
    BY <1>1 DEF ClaimsHaveOneOwner
  <1>3. DownIsIdle'
    BY DEF Goto, DownIsIdle, Live, TypeOK
  <1>4. QED
    BY <1>2, <1>3

\* A new request claims what nobody holds, or leaves things as they are.
LEMMA SettleClaims ==
  ASSUME TypeOK, ClaimsHaveOneOwner, DownIsIdle, NEW r \in Requests, Settle(r)
  PROVE  ClaimsHaveOneOwner' /\ DownIsIdle'
  <1>1. CASE ~AllClaimable(r)
    <2>1. \A o \in Requests, k \in Keys : Holds(o, k)' <=> Holds(o, k)
      BY <1>1 DEF Settle, Answer, Goto, Holds, Holding, TypeOK
    <2>2. cache' = cache
      BY <1>1, RollbackUndoes DEF Settle
    <2>3. QED
      BY <1>1, <2>1, <2>2 DEF Settle, Answer, Goto, ClaimsHaveOneOwner, DownIsIdle, TypeOK
  <1>2. CASE AllClaimable(r)
    <2>1. \A o \in Requests, k \in Keys :
            Holds(o, k)' <=> Holds(o, k) \/ (o = r /\ k \in KeysOf(r))
      BY <1>2 DEF Settle, Goto, Holds, Holding, TypeOK
    <2>2. \A k \in Keys : cache'[k] = IF k \in KeysOf(r) THEN "in_flight" ELSE cache[k]
      BY <1>2 DEF Settle, Claim
    <2>3. \A k \in KeysOf(r), o \in Requests : ~Holds(o, k)
      BY <1>2, KeysTyped DEF AllClaimable, ClaimsHaveOneOwner
    <2>4. ClaimsHaveOneOwner'
      BY <2>1, <2>2, <2>3 DEF ClaimsHaveOneOwner
    <2>5. DownIsIdle'
      BY <1>2 DEF Settle, DownIsIdle
    <2>6. QED
      BY <2>4, <2>5
  <1>3. QED
    BY <1>1, <1>2

LEMMA ClaimsStep ==
  ASSUME TypeOK, ClaimsHaveOneOwner, DownIsIdle, [Next]_vars
  PROVE  ClaimsHaveOneOwner' /\ DownIsIdle'
  <1>1. ASSUME NEW r \in Requests, NEW reason, pc[r] \in Holding, Fail(r, reason)
        PROVE  ClaimsHaveOneOwner' /\ DownIsIdle'
    BY <1>1, FailReleases
  <1>2. ASSUME NEW r \in Requests, MockVerified(r) \/ PollSuccess(r)
        PROVE  ClaimsHaveOneOwner' /\ DownIsIdle'
    BY <1>2, CommitsRelease DEF MockVerified, PollSuccess, Holding
  <1>3. ASSUME NEW r \in Requests,
               \/ Solvent(r) \/ ReadAccount(r) \/ Prepare(r) \/ SendAgainLater(r)
               \/ Poll(r) \/ PollNotFound(r)
        PROVE  ClaimsHaveOneOwner' /\ DownIsIdle'
    BY <1>3, WaitKeepsClaims
       DEF Solvent, ReadAccount, Prepare, SendAgainLater, GoPolling, Poll, PollNotFound, Holding
  <1>4. ASSUME NEW r \in Requests, Send(r)
        PROVE  ClaimsHaveOneOwner' /\ DownIsIdle'
    BY <1>1, <1>4, WaitKeepsClaims DEF Send, GoPolling, Holding
  <1>5. ASSUME UNCHANGED <<up, pc, cache>>
        PROVE  ClaimsHaveOneOwner' /\ DownIsIdle'
    BY <1>5 DEF ClaimsHaveOneOwner, Holds, DownIsIdle
  <1>6. ASSUME NEW r \in Requests, AppendLog(r) \/ Answer200(r)
        PROVE  ClaimsHaveOneOwner' /\ DownIsIdle'
    <2>1. \A o \in Requests, k \in Keys : Holds(o, k)' <=> Holds(o, k)
      BY <1>6 DEF AppendLog, Answer200, Answer, Goto, Holds, Holding, TypeOK
    <2>2. QED
      BY <1>6, <2>1 DEF AppendLog, Answer200, Answer, Goto, ClaimsHaveOneOwner, DownIsIdle, Live,
                        Holding, TypeOK
  <1>7. CASE Crash
    <2>1. \A o \in Requests : pc'[o] \notin Live
      BY <1>7 DEF Crash, Live, Holding
    <2>2. \A k \in Keys : cache'[k] = "absent"
      BY <1>7 DEF Crash
    <2>3. QED
      BY <2>1, <2>2 DEF ClaimsHaveOneOwner, DownIsIdle, Holds, Live
  <1>8. CASE Boot
    <2>1. \A o \in Requests, k \in Keys : ~Holds(o, k) /\ ~Holds(o, k)'
      BY <1>8 DEF Boot, DownIsIdle, Holds, Live
    <2>2. \A k \in Keys : cache'[k] \in {cache[k], "committed"}
      BY <1>8 DEF Boot, Commit
    <2>3. QED
      BY <1>8, <2>1, <2>2 DEF Boot, ClaimsHaveOneOwner, DownIsIdle
  <1>9. QED
    BY <1>1, <1>2, <1>3, <1>4, <1>5, <1>6, <1>7, <1>8, SettleClaims
       DEF Next, OnChainStep, MockRefused, Insolvent, PrepareRefused, SendError, RpcError,
           PollFailed, PollNotFound, PollTimeout, Apply, Expire, ProofExpires, SpendElsewhere,
           processVars, vars,
           Holding

---------------------------------------------------------------------------

\* The log names requests.
LEMMA LoggedAreRequests ==
  ASSUME TypeOK
  PROVE  Range(settlements) \subseteq Requests
  BY DEF TypeOK, Range

\* Only the log write extends the log, by the request it is written for.
LEMMA LogGrowsByOne ==
  ASSUME TypeOK, NEW r \in Requests, AppendLog(r)
  PROVE  Range(settlements') \subseteq Range(settlements) \cup {r}
  <1>1. settlements \in Seq(Requests)
    BY DEF TypeOK
  <1>2. Range(Append(settlements, r)) \subseteq Range(settlements) \cup {r}
    BY <1>1 DEF Range
  <1>3. QED
    BY <1>2 DEF AppendLog

\* What is logged and answered at the end was settled before.
LEMMA SettledStays ==
  ASSUME TypeOK, NEW r \in Requests, AppendLog(r) \/ Answer200(r), NEW o \in Requests, Settled(o)'
  PROVE  Settled(o)
  <1>1. CASE AppendLog(r)
    <2>1. Range(settlements') \subseteq Range(settlements) \cup {r}
      BY <1>1, LogGrowsByOne
    <2>2. pc[r] = "appending" /\ pc' = [pc EXCEPT ![r] = "answering"] /\ answer' = answer
      BY <1>1 DEF AppendLog, Goto
    <2>3. QED
      BY <2>1, <2>2 DEF Settled, TypeOK
  <1>2. CASE Answer200(r)
    BY <1>2 DEF Answer200, Answer, Goto, Settled, TypeOK
  <1>3. QED
    BY <1>1, <1>2

\* A call that does not come back with success leaves the rest as it was.
LEMMA FailKeepsChain ==
  ASSUME TypeOK, ChainInv, NEW r \in Requests, pc[r] \in Holding,
         NEW reason, reason \notin {"success", "already_spent"}, Fail(r, reason),
         UNCHANGED chainVars
  PROVE  ChainInv'
  <1>1. PlacesAreConsistent'
    BY DEF ChainInv, PlacesAreConsistent, Fail, Answer, Goto, Unsent, Holding, chainVars, TypeOK
  <1>2. LandedOnce'
    BY DEF ChainInv, LandedOnce, Fail, chainVars
  <1>3. SuccessIsOnChain'
    BY LoggedAreRequests
       DEF ChainInv, SuccessIsOnChain, Settled, Fail, Answer, Goto, Release, Holding, chainVars,
           TypeOK
  <1>4. QED
    BY <1>1, <1>2, <1>3 DEF ChainInv

\* A handler that waits on leaves the ledger's side as it was.
LEMMA WaitKeepsChain ==
  ASSUME TypeOK, ChainInv, NEW r \in Requests, pc[r] \in Holding,
         NEW place \in Holding \ {"verifying"}, Goto(r, place), pc[r] # "verifying",
         place \in Unsent => pc[r] \in Unsent,
         UNCHANGED <<mode, cache, answer, settlements, txs, spent>>
  PROVE  ChainInv'
  <1>1. PlacesAreConsistent'
    BY DEF ChainInv, PlacesAreConsistent, Goto, Unsent, Holding, TypeOK
  <1>2. LandedOnce'
    BY DEF ChainInv, LandedOnce
  <1>3. SuccessIsOnChain'
    BY DEF ChainInv, SuccessIsOnChain, Settled, Goto, Holding, TypeOK
  <1>4. QED
    BY <1>1, <1>2, <1>3 DEF ChainInv

\* A request settles on its own transaction, or on none in mock mode.
LEMMA CommitsOnChain ==
  ASSUME TypeOK, ChainInv, NEW r \in Requests, pc[r] \in Holding, Commits(r), UNCHANGED chainVars,
         mode = "on_chain" => txs[r] = "success"
  PROVE  ChainInv'
  <1> USE DEF ChainInv
  <1>1. PlacesAreConsistent'
    BY DEF PlacesAreConsistent, Commits, Goto, Unsent, Holding, chainVars, TypeOK
  <1>2. LandedOnce'
    BY DEF LandedOnce, Commits, chainVars
  <1>3. SuccessIsOnChain'
    <2>1. \A o \in Requests : Settled(o)' => Settled(o) \/ o = r
      BY DEF Settled, Commits, Goto, TypeOK
    <2>2. \A k \in Keys : cache'[k] = IF k \in KeysOf(r) THEN "committed" ELSE cache[k]
      BY DEF Commits, Commit
    <2>3. mode = "on_chain" => \A k \in KeysOf(r) : ValueOf[k] \in spent
      BY DEF LandedOnce, NullifiersOf
    <2>4. UNCHANGED <<mode, txs, spent>>
      BY DEF Commits, chainVars
    <2>5. QED
      BY <2>1, <2>2, <2>3, <2>4 DEF SuccessIsOnChain
  <1>4. QED
    BY <1>1, <1>2, <1>3

LEMMA ChainStep ==
  ASSUME TypeOK, ChainInv, DownIsIdle, [Next]_vars
  PROVE  ChainInv'
  <1>1. ASSUME NEW r \in Requests, pc[r] \in Holding, NEW reason,
               reason \notin {"success", "already_spent"}, Fail(r, reason), UNCHANGED chainVars
        PROVE  ChainInv'
    BY <1>1, FailKeepsChain
  <1>2. ASSUME NEW r \in Requests, MockVerified(r)
        PROVE  ChainInv'
    BY <1>2, CommitsOnChain DEF MockVerified, ChainInv, PlacesAreConsistent, Holding
  <1>3. ASSUME NEW r \in Requests, PollSuccess(r)
        PROVE  ChainInv'
    BY <1>3, CommitsOnChain DEF PollSuccess, IsSuccess, Holding
  <1>4. ASSUME NEW r \in Requests,
               \/ Solvent(r) \/ ReadAccount(r) \/ Prepare(r) \/ SendAgainLater(r)
               \/ Poll(r) \/ PollNotFound(r)
        PROVE  ChainInv'
    BY <1>4, WaitKeepsChain
       DEF Solvent, ReadAccount, Prepare, SendAgainLater, GoPolling, Poll, PollNotFound, Holding,
           Unsent, chainVars
  <1>5. ASSUME NEW r \in Requests, Send(r)
        PROVE  ChainInv'
    <2>1. txs[r] = "none" /\ answer[r] = "none" /\ mode # "mock"
      BY <1>5 DEF Send, ChainInv, PlacesAreConsistent, Unsent, Holding
    <2>2. \A o \in Requests : txs'[o] = IF o = r THEN "pending" ELSE txs[o]
      BY <1>5 DEF Send, TypeOK
    <2>3. \A o \in Requests : o # r => pc'[o] = pc[o] /\ answer'[o] = answer[o]
      BY <1>5 DEF Send, GoPolling, Fail, Answer, Goto, TypeOK
    <2>4. \/ pc'[r] = "polling" /\ answer'[r] = "none"
          \/ pc'[r] = "done" /\ answer'[r] = "pool_rejected_unknown"
      BY <1>5, <2>1 DEF Send, GoPolling, Fail, Answer, Goto, TypeOK
    <2>5. UNCHANGED <<mode, spent, settlements>>
      BY <1>5 DEF Send, Fail
    <2>6. \A k \in Keys : cache'[k] = "committed" => cache[k] = "committed"
      BY <1>5 DEF Send, Fail, Release
    <2>7. PlacesAreConsistent'
      BY <2>1, <2>2, <2>3, <2>4, <2>5 DEF ChainInv, PlacesAreConsistent, Unsent, Holding
    <2>8. LandedOnce'
      BY <2>2, <2>5 DEF ChainInv, LandedOnce
    <2>9. SuccessIsOnChain'
      <3>1. \A o \in Requests : Settled(o)' => Settled(o)
        BY <2>3, <2>4, <2>5 DEF Settled
      <3>2. \A o \in Requests : Settled(o) => txs'[o] = txs[o] \/ mode # "on_chain"
        BY <2>1, <2>2 DEF ChainInv, SuccessIsOnChain
      <3>3. QED
        BY <2>5, <2>6, <3>1, <3>2 DEF ChainInv, SuccessIsOnChain
    <2>10. QED
      BY <2>7, <2>8, <2>9 DEF ChainInv
  <1>6. ASSUME NEW r \in Requests, AppendLog(r) \/ Answer200(r)
        PROVE  ChainInv'
    <2>1. PlacesAreConsistent' /\ LandedOnce'
      BY <1>6 DEF AppendLog, Answer200, Answer, Goto, ChainInv, PlacesAreConsistent, LandedOnce,
                  Unsent, Holding, chainVars, TypeOK
    <2>2. \A o \in Requests : Settled(o)' => Settled(o)
      BY <1>6, SettledStays
    <2>3. SuccessIsOnChain'
      BY <1>6, <2>2 DEF AppendLog, Answer200, ChainInv, SuccessIsOnChain, chainVars
    <2>4. QED
      BY <2>1, <2>3 DEF ChainInv
  <1>7. ASSUME NEW r \in Requests, Settle(r)
        PROVE  ChainInv'
    <2>1. pc[r] = "idle" /\ txs[r] = "none"
      BY <1>7 DEF Settle, ChainInv, PlacesAreConsistent, Unsent
    <2>2. \/ Answer(r, "already_spent")
          \/ UNCHANGED answer /\ Goto(r, IF mode = "mock" THEN "verifying" ELSE "snapshot")
      BY <1>7 DEF Settle
    <2>3. \A k \in Keys : cache'[k] = "committed" => cache[k] = "committed"
      BY <1>7, RollbackUndoes DEF Settle, Claim
    <2>4. UNCHANGED <<mode, settlements, txs, spent>>
      BY <1>7 DEF Settle, chainVars
    <2>5. PlacesAreConsistent'
      BY <2>1, <2>2, <2>4 DEF Answer, Goto, ChainInv, PlacesAreConsistent, Unsent, Holding, TypeOK
    <2>6. LandedOnce'
      BY <2>4 DEF ChainInv, LandedOnce
    <2>7. SuccessIsOnChain'
      <3>1. \A o \in Requests : Settled(o)' => Settled(o)
        BY <2>2, <2>4 DEF Answer, Goto, Settled, TypeOK
      <3>2. QED
        BY <2>3, <2>4, <3>1 DEF ChainInv, SuccessIsOnChain
    <2>8. QED
      BY <2>5, <2>6, <2>7 DEF ChainInv
  <1>8. ASSUME NEW r \in Requests, Apply(r)
        PROVE  ChainInv'
    <2>1. \A o \in Requests : o # r => txs'[o] = txs[o]
      BY <1>8 DEF Apply, TypeOK
    <2>2. \/ txs'[r] = "failed" /\ spent' = spent
          \/ /\ txs'[r] = "success"
             /\ spent' = spent \cup NullifiersOf(r)
             /\ NullifiersOf(r) \cap spent = {}
      BY <1>8 DEF Apply, PoolAccepts, TypeOK
    <2>3. UNCHANGED processVars /\ txs[r] = "pending"
      BY <1>8 DEF Apply
    <2>4. PlacesAreConsistent'
      BY <2>1, <2>3 DEF ChainInv, PlacesAreConsistent, processVars
    <2>5. LandedOnce'
      BY <2>1, <2>2 DEF ChainInv, LandedOnce
    <2>6. SuccessIsOnChain'
      BY <2>1, <2>2, <2>3 DEF ChainInv, SuccessIsOnChain, Settled, processVars
    <2>7. QED
      BY <2>4, <2>5, <2>6 DEF ChainInv
  <1>9. ASSUME NEW r \in Requests, Expire(r)
        PROVE  ChainInv'
    <2>1. \A o \in Requests : txs'[o] = IF o = r THEN "expired" ELSE txs[o]
      BY <1>9 DEF Expire, TypeOK
    <2>2. UNCHANGED <<spent, processVars>> /\ txs[r] = "pending"
      BY <1>9 DEF Expire
    <2>3. PlacesAreConsistent'
      BY <2>1, <2>2 DEF ChainInv, PlacesAreConsistent, processVars
    <2>4. LandedOnce'
      BY <2>1, <2>2 DEF ChainInv, LandedOnce
    <2>5. SuccessIsOnChain'
      BY <2>1, <2>2 DEF ChainInv, SuccessIsOnChain, Settled, processVars
    <2>6. QED
      BY <2>3, <2>4, <2>5 DEF ChainInv
  <1>10. ASSUME UNCHANGED <<txs, processVars>>, spent \subseteq spent'
         PROVE  ChainInv'
    BY <1>10 DEF ChainInv, PlacesAreConsistent, LandedOnce, SuccessIsOnChain, Settled, processVars
  <1>11. CASE Crash
    <2>1. \A r \in Requests :
            IF pc[r] \in Live THEN pc'[r] = "done" /\ answer'[r] = "connection_lost"
                              ELSE pc'[r] = pc[r] /\ answer'[r] = answer[r]
      BY <1>11 DEF Crash
    <2>2. UNCHANGED <<mode, settlements, txs, spent>> /\ \A k \in Keys : cache'[k] = "absent"
      BY <1>11 DEF Crash, chainVars
    <2>3. PlacesAreConsistent'
      BY <2>1, <2>2 DEF ChainInv, PlacesAreConsistent, Unsent, Live, Holding
    <2>4. LandedOnce'
      BY <2>2 DEF ChainInv, LandedOnce
    <2>5. SuccessIsOnChain'
      <3>1. \A o \in Requests : Settled(o)' => Settled(o)
        BY <2>1, <2>2 DEF Settled, Live
      <3>2. QED
        BY <2>2, <3>1 DEF ChainInv, SuccessIsOnChain
    <2>6. QED
      BY <2>3, <2>4, <2>5 DEF ChainInv
  <1>12. CASE Boot
    <2>1. UNCHANGED <<mode, pc, answer, settlements, txs, spent>>
      BY <1>12 DEF Boot, chainVars
    <2>2. mode = "on_chain" =>
            \A k \in Keys : cache'[k] = "committed" => cache[k] = "committed" \/ ValueOf[k] \in spent
      <3>1. Hydrated = {}
        BY DEF Hydrated, PoolEvents
      <3>2. QED
        BY <1>12, <3>1 DEF Boot, Commit
    <2>3. QED
      BY <2>1, <2>2 DEF ChainInv, PlacesAreConsistent, LandedOnce, SuccessIsOnChain, Settled
  <1>13. QED
    BY <1>1, <1>2, <1>3, <1>4, <1>5, <1>6, <1>7, <1>8, <1>9, <1>10, <1>11, <1>12
       DEF Next, OnChainStep, MockRefused, Insolvent, PrepareRefused, SendError, RpcError,
           PollFailed, PollNotFound, PollTimeout, ProofExpires, SpendElsewhere, vars, chainVars,
           Holding

---------------------------------------------------------------------------

\* In the first life of the process what is settled stays settled, and a
\* settled nullifier is never claimed again.
LEMMA FinalStep ==
  ASSUME TypeOK, ClaimsHaveOneOwner, SettledIsFinal, DownIsIdle, [Next]_vars
  PROVE  SettledIsFinal'
  <1> SUFFICES ASSUME crashes' = 0 PROVE SettledIsFinal'
    BY DEF SettledIsFinal
  <1>1. crashes = 0 /\ ~Crash
    BY DEF Next, Settle, MockVerified, MockRefused, OnChainStep, Solvent, Insolvent, ReadAccount,
           Prepare, PrepareRefused, Send, SendError, SendAgainLater, GoPolling, RpcError, Poll,
           PollSuccess,
           PollFailed, PollNotFound, PollTimeout, AppendLog, Answer200, Apply, Expire,
           ProofExpires, SpendElsewhere, Crash,
           Boot, Fail, Commits, vars, TypeOK
  <1>2. ASSUME \A r \in Requests : Settled(r)' => Settled(r),
               \A k \in Keys : cache[k] = "committed" => cache'[k] = "committed"
        PROVE  SettledIsFinal'
    BY <1>1, <1>2, KeysTyped DEF SettledIsFinal
  <1>3. ASSUME NEW r \in Requests, pc[r] \in Holding, Commits(r)
        PROVE  SettledIsFinal'
    <2>1. \A o \in Requests : Settled(o)' => Settled(o) \/ o = r
      BY <1>3 DEF Commits, Goto, Settled, TypeOK
    <2>2. \A k \in Keys : cache'[k] = IF k \in KeysOf(r) THEN "committed" ELSE cache[k]
      BY <1>3 DEF Commits, Commit
    <2>3. \A k \in KeysOf(r) : cache[k] = "in_flight"
      BY <1>3, KeysTyped DEF ClaimsHaveOneOwner, Holds
    <2>4. \A o \in Requests : Settled(o) => KeysOf(o) \cap KeysOf(r) = {}
      BY <1>1, <2>3 DEF SettledIsFinal
    <2>5. QED
      BY <1>1, <2>1, <2>2, <2>4, KeysTyped DEF SettledIsFinal
  <1>4. ASSUME NEW r \in Requests, NEW reason, reason # "success", Fail(r, reason)
        PROVE  SettledIsFinal'
    BY <1>2, <1>4 DEF Fail, Answer, Goto, Settled, Release, TypeOK
  <1>5. ASSUME NEW r \in Requests, NEW place \in Holding, Goto(r, place),
               UNCHANGED <<answer, settlements, cache>>
        PROVE  SettledIsFinal'
    BY <1>2, <1>5 DEF Goto, Settled, Holding, TypeOK
  <1>6. ASSUME NEW r \in Requests, Settle(r)
        PROVE  SettledIsFinal'
    <2>1. \A o \in Requests : Settled(o)' => Settled(o)
      BY <1>6 DEF Settle, Answer, Goto, Settled, TypeOK
    <2>2. \A k \in Keys : cache[k] = "committed" => cache'[k] = "committed"
      BY <1>6, RollbackUndoes DEF Settle, AllClaimable, Claim
    <2>3. QED
      BY <1>2, <2>1, <2>2
  <1>7. ASSUME NEW r \in Requests, AppendLog(r) \/ Answer200(r)
        PROVE  SettledIsFinal'
    <2>1. \A o \in Requests : Settled(o)' => Settled(o)
      BY <1>7, SettledStays
    <2>2. QED
      BY <1>2, <1>7, <2>1 DEF AppendLog, Answer200
  <1>8. CASE Boot
    BY <1>2, <1>8 DEF Boot, Commit, Settled
  <1>9. ASSUME UNCHANGED processVars
        PROVE  SettledIsFinal'
    BY <1>2, <1>9 DEF processVars, Settled
  <1>10. QED
    BY <1>1, <1>3, <1>4, <1>5, <1>6, <1>7, <1>8, <1>9
       DEF Next, OnChainStep, MockVerified, MockRefused, Solvent, Insolvent, ReadAccount, Prepare,
           PrepareRefused, Send, SendError, SendAgainLater, GoPolling, RpcError, Poll,
           PollSuccess, PollFailed, PollNotFound,
           PollTimeout, Apply, Expire, ProofExpires, SpendElsewhere, vars, Holding

---------------------------------------------------------------------------

\* Only a crash undoes a committed entry, and it leaves no handler.
LEMMA AppendingStep ==
  ASSUME TypeOK, AppendingIsFinal, DownIsIdle, [Next]_vars
  PROVE  AppendingIsFinal'
  <1>1. ASSUME \A r \in Requests : pc'[r] \in Ending => pc[r] \in Ending,
               \A k \in Keys : cache[k] = "committed" => cache'[k] = "committed"
        PROVE  AppendingIsFinal'
    BY <1>1, KeysTyped DEF AppendingIsFinal
  <1>2. ASSUME NEW r \in Requests, Commits(r)
        PROVE  AppendingIsFinal'
    BY <1>2, KeysTyped DEF AppendingIsFinal, Ending, Commits, Commit, Goto, TypeOK
  <1>3. ASSUME NEW r \in Requests, NEW reason, Fail(r, reason)
        PROVE  AppendingIsFinal'
    BY <1>1, <1>3 DEF Fail, Answer, Goto, Ending, Release, TypeOK
  <1>4. ASSUME NEW r \in Requests, NEW place,
               place \in Ending => pc[r] \in Ending, Goto(r, place), UNCHANGED cache
        PROVE  AppendingIsFinal'
    BY <1>1, <1>4 DEF Goto, TypeOK
  <1>5. ASSUME NEW r \in Requests, Settle(r)
        PROVE  AppendingIsFinal'
    <2>1. \A k \in Keys : cache[k] = "committed" => cache'[k] = "committed"
      BY <1>5, RollbackUndoes DEF Settle, AllClaimable, Claim
    <2>2. QED
      BY <1>1, <1>5, <2>1 DEF Settle, Answer, Goto, Ending, TypeOK
  <1>6. CASE Crash
    BY <1>6 DEF Crash, AppendingIsFinal, Ending, Live, TypeOK
  <1>7. CASE Boot
    BY <1>1, <1>7 DEF Boot, Commit
  <1>8. ASSUME UNCHANGED processVars
        PROVE  AppendingIsFinal'
    BY <1>1, <1>8 DEF processVars
  <1>9. QED
    BY <1>2, <1>3, <1>4, <1>5, <1>6, <1>7, <1>8
       DEF Next, OnChainStep, MockVerified, MockRefused, Solvent, Insolvent, ReadAccount, Prepare,
           PrepareRefused, Send, SendError, SendAgainLater, GoPolling, RpcError, Poll,
           PollSuccess, PollFailed, PollNotFound,
           PollTimeout, AppendLog, Answer200, Answer, Apply, Expire, ProofExpires,
           SpendElsewhere, vars, Ending

LEMMA FacilitatorInvInit == Init => FacilitatorInv
  <1> SUFFICES ASSUME Init PROVE FacilitatorInv
    OBVIOUS
  <1>1. TypeOK
    BY RequestsAssumption, FS_CardinalityType DEF Init, TypeOK
  <1>2. Applied = {}
    BY DEF Init, Applied
  <1>3. SequenceCountsApplied
    BY <1>2, FS_EmptySet DEF Init, SequenceCountsApplied
  <1>4. DownIsIdle /\ ClaimsHaveOneOwner
    BY DEF Init, DownIsIdle, ClaimsHaveOneOwner, Holds, Live, Holding
  <1>5. ChainInv /\ SettledIsFinal /\ AppendingIsFinal
    BY DEF Init, ChainInv, AppendingIsFinal, Ending, PlacesAreConsistent, LandedOnce,
           SuccessIsOnChain, SettledIsFinal, Settled, Range, Holding
  <1>6. QED
    BY <1>1, <1>3, <1>4, <1>5 DEF FacilitatorInv

LEMMA FacilitatorInvStep == FacilitatorInv /\ [Next]_vars => FacilitatorInv'
  BY TypeStep, ClaimsStep, ChainStep, FinalStep, AppendingStep DEF FacilitatorInv, ChainInv

LEMMA FacilitatorInvariant == Spec => []FacilitatorInv
  BY FacilitatorInvInit, FacilitatorInvStep, PTL DEF Spec

(***************************************************************************)
(* settle.ts, cache.ts and submitPoolTransaction.ts keep their state well  *)
(* formed, and no transaction is built ahead of the account's sequence.    *)
(***************************************************************************)
THEOREM FacilitatorTypeCorrect == Spec => []TypeOK
  BY FacilitatorInvariant, PTL DEF FacilitatorInv

(***************************************************************************)
(* The claims of settle.ts:98-107 are locks: whatever the handlers do at   *)
(* their awaits, and whatever crashes, a key (cache.ts:88, the string of a *)
(* nullifier in lower case) is in flight exactly while one handler holds   *)
(* it.  Another spelling of the nullifier is another key.                  *)
(***************************************************************************)
THEOREM FacilitatorClaimsAreExclusive == Spec => []ClaimsHaveOneOwner
  BY FacilitatorInvariant, PTL DEF FacilitatorInv

(***************************************************************************)
(* The answer of settle.ts:194 is given only for a transaction of the same *)
(* request that went through, whatever the network loses, drops or delays. *)
(***************************************************************************)
THEOREM FacilitatorSuccessIsOnChain == Spec => []SuccessIsOnChain
  BY FacilitatorInvariant, PTL DEF FacilitatorInv, ChainInv

(***************************************************************************)
(* Although timeouts release claims that may still land, restarts lose     *)
(* them all and one nullifier may be claimed under two spellings at once,  *)
(* no nullifier settles two requests on chain.  In mock mode no key does   *)
(* until a restart, which is all the cache can give.                       *)
(***************************************************************************)
THEOREM FacilitatorSettlesOnce == Spec => []NullifiersSettleOnce
  <1>1. FacilitatorInv => NullifiersSettleOnce
    BY DEF FacilitatorInv, ChainInv, NullifiersSettleOnce, SettledIsFinal, LandedOnce,
           SuccessIsOnChain
  <1>2. QED
    BY <1>1, FacilitatorInvariant, PTL

---------------------------------------------------------------------------
(***************************************************************************)
(* The refinement of Settlement: what the state maps to.                   *)
(***************************************************************************)

Status == [r \in Requests |-> StatusOf(r)]
Bill == [r \in Requests |->
          IF mode = "mock" \/ pc[r] = "idle" THEN << >> ELSE InputNullifiers[r]]
Paid == {r \in Requests : txs[r] = "success"}

(***************************************************************************)
(* The handlers of POST /settle, its crashes included, keep the promise of *)
(* Settlement: success only for a payment of the request's own, a refusal  *)
(* only for a string that another request holds or that stands for what    *)
(* the pool has marked, and the pool pays a number once however spelled.   *)
(***************************************************************************)
THEOREM FacilitatorKeepsPromise == Spec => SettlementSpec
  <1> USE DEF Promise!settlementVars, Status, Bill, Paid
  <1>1. Init => Promise!SettlementInit
    <2> SUFFICES ASSUME Init PROVE Promise!SettlementInit
      OBVIOUS
    <2>1. \A r \in Requests : pc[r] = "idle" /\ txs[r] = "none"
      BY DEF Init
    <2>2. \A r \in Requests : StatusOf(r) = "idle"
      BY <2>1 DEF StatusOf, Live, Holding
    <2>3. Status = [r \in Requests |-> "idle"]
      BY <2>2
    <2>4. Bill = [r \in Requests |-> << >>] /\ Paid = {}
      BY <2>1
    <2>5. QED
      BY <2>3, <2>4 DEF Promise!SettlementInit, Init
  <1>2. FacilitatorInv /\ FacilitatorInv' /\ [Next]_vars
          => [Promise!SettlementNext]_(Promise!settlementVars)
    <2> SUFFICES ASSUME FacilitatorInv, FacilitatorInv', [Next]_vars
                 PROVE  [Promise!SettlementNext]_(Promise!settlementVars)
      OBVIOUS
    <2> DEFINE Goal == [Promise!SettlementNext]_(Promise!settlementVars)
    <2>1. mode' = mode /\ mode \in {"mock", "on_chain"}
      BY RequestsAssumption
         DEF FacilitatorInv, TypeOK, Next, OnChainStep, Settle, MockVerified, MockRefused, Solvent,
             Insolvent, ReadAccount, Prepare, PrepareRefused, Send, SendError, SendAgainLater,
             GoPolling,
             RpcError, Poll, PollSuccess, PollFailed, PollNotFound, PollTimeout, AppendLog,
             Answer200, Apply, Expire,
             ProofExpires, SpendElsewhere, Crash, Boot, Fail, Commits, vars, processVars
    <2>2. \A n \in Nullifiers : SpendElsewhere(n) => Goal
      <3> SUFFICES ASSUME NEW n \in Nullifiers, SpendElsewhere(n) PROVE Goal
        OBVIOUS
      <3>1. Status' = Status /\ Bill' = Bill /\ Paid' = Paid /\ spent' = spent \cup {n}
        BY DEF SpendElsewhere, processVars, StatusOf
      <3>2. Promise!SpendElsewhere(n)
        BY <3>1 DEF Promise!SpendElsewhere
      <3>3. QED
        BY <3>2 DEF Promise!SettlementNext
    <2>3. CASE mode = "mock"
      <3>1. Status' = Status /\ Bill' = Bill
        BY <2>1, <2>3 DEF StatusOf
      <3>2. Paid = {} /\ Paid' = {}
        BY <2>1, <2>3 DEF FacilitatorInv, ChainInv, PlacesAreConsistent
      <3>3. (\E n \in Nullifiers : SpendElsewhere(n)) \/ spent' = spent
        BY <2>3 DEF FacilitatorInv, ChainInv, PlacesAreConsistent, Next, OnChainStep, Settle,
             MockVerified, MockRefused, Solvent, Insolvent, ReadAccount, Prepare, PrepareRefused,
             Send, SendError, SendAgainLater, GoPolling, RpcError, Poll, PollSuccess, PollFailed,
             PollNotFound, PollTimeout,
             AppendLog, Answer200, Apply, Expire, ProofExpires, Crash, Boot, vars, chainVars
      <3>4. QED
        BY <2>2, <3>1, <3>2, <3>3
    <2>4. CASE mode = "on_chain"
      <3>1. \A r \in Requests :
              /\ pc[r] = "idle" => StatusOf(r) = "idle"
              /\ pc[r] \in Live => StatusOf(r) = "open"
              /\ pc[r] = "done" => StatusOf(r) = IF answer[r] \in {"success", "already_spent"}
                                                 THEN answer[r] ELSE "failed"
        BY <2>4 DEF StatusOf, Live, Holding
      <3>2. \A r \in Requests :
              /\ pc'[r] = "idle" => StatusOf(r)' = "idle"
              /\ pc'[r] \in Live => StatusOf(r)' = "open"
              /\ pc'[r] = "done" => StatusOf(r)' = IF answer'[r] \in {"success", "already_spent"}
                                                   THEN answer'[r] ELSE "failed"
        BY <2>1, <2>4 DEF StatusOf, Live, Holding
      <3>3. \A r \in Requests : pc[r] \in Live \cup {"idle", "done"}
        BY DEF FacilitatorInv, TypeOK
      <3>4. ASSUME \A r \in Requests : pc'[r] = pc[r] \/ {pc[r], pc'[r]} \subseteq Live,
                   UNCHANGED <<answer, txs, spent>>
            PROVE  Goal
        <4>1. \A r \in Requests : pc'[r] = "idle" <=> pc[r] = "idle"
          BY <3>4 DEF Live, Holding
        <4>2. \A r \in Requests : StatusOf(r)' = StatusOf(r)
          BY <3>1, <3>2, <3>3, <3>4
        <4>3. Status' = Status /\ Bill' = Bill /\ Paid' = Paid
          BY <2>1, <3>4, <4>1, <4>2
        <4>4. QED
          BY <3>4, <4>3
      <3>5. ASSUME NEW rs \in SUBSET Requests,
                   \A r \in rs : pc[r] \in Live /\ pc'[r] = "done"
                                /\ answer'[r] \notin {"success", "already_spent"},
                   \A r \in Requests \ rs : pc'[r] = pc[r] /\ answer'[r] = answer[r],
                   \A r \in Requests : txs'[r] = "success" <=> txs[r] = "success",
                   spent' = spent
            PROVE  Goal
        <4>1. \A r \in Requests : StatusOf(r)' = IF r \in rs THEN "failed" ELSE StatusOf(r)
          BY <3>1, <3>2, <3>3, <3>5
        <4>2. \A r \in rs : StatusOf(r) = "open"
          BY <3>1, <3>5
        <4>3. \A r \in Requests : pc'[r] = "idle" <=> pc[r] = "idle"
          BY <3>5 DEF Live, Holding
        <4>4. Status' = [r \in Requests |-> IF r \in rs THEN "failed" ELSE Status[r]]
              /\ Bill' = Bill /\ Paid' = Paid
          BY <2>1, <3>5, <4>1, <4>3
        <4>5. Promise!AnswerFailed(rs)
          BY <3>5, <4>2, <4>4 DEF Promise!AnswerFailed
        <4>6. QED
          BY <4>5 DEF Promise!SettlementNext
      <3>6. ASSUME NEW r \in Requests, pc[r] \in Holding, NEW reason,
                   reason \notin {"success", "already_spent"}, Fail(r, reason), UNCHANGED spent,
                   \A o \in Requests : txs'[o] = "success" <=> txs[o] = "success"
            PROVE  Goal
        <4>1. pc[r] \in Live /\ pc'[r] = "done" /\ answer'[r] = reason
          BY <3>6 DEF Fail, Answer, Goto, Live, FacilitatorInv, TypeOK
        <4>2. \A o \in Requests \ {r} : pc'[o] = pc[o] /\ answer'[o] = answer[o]
          BY <3>6 DEF Fail, Answer, Goto, FacilitatorInv, TypeOK
        <4>3. {r} \in SUBSET Requests
          OBVIOUS
        <4>4. QED
          BY <3>5, <3>6, <4>1, <4>2, <4>3
      <3>7. CASE Crash
        <4>1. {r \in Requests : pc[r] \in Live} \in SUBSET Requests
          OBVIOUS
        <4>2. \A r \in Requests :
                IF pc[r] \in Live THEN pc'[r] = "done" /\ answer'[r] = "connection_lost"
                                  ELSE pc'[r] = pc[r] /\ answer'[r] = answer[r]
          BY <3>7 DEF Crash
        <4>3. UNCHANGED <<txs, spent>>
          BY <3>7 DEF Crash, chainVars
        <4>4. QED
          BY <3>5, <4>1, <4>2, <4>3
      <3>8. ASSUME NEW r \in Requests, Answer200(r)
            PROVE  Goal
        <4>1. pc[r] = "answering" /\ pc'[r] = "done" /\ answer'[r] = "success" /\ pc[r] \in Live
          BY <3>8 DEF Answer200, Answer, Goto, Live, FacilitatorInv, TypeOK
        <4>2. \A o \in Requests \ {r} : pc'[o] = pc[o] /\ answer'[o] = answer[o]
          BY <3>8 DEF Answer200, Answer, Goto, FacilitatorInv, TypeOK
        <4>3. UNCHANGED <<txs, spent>>
          BY <3>8 DEF Answer200, chainVars
        <4>4. \A o \in Requests : StatusOf(o)' = IF o = r THEN "success" ELSE StatusOf(o)
          BY <3>1, <3>2, <3>3, <4>1, <4>2
        <4>5. Status' = [Status EXCEPT ![r] = "success"] /\ Bill' = Bill /\ Paid' = Paid
          BY <2>1, <4>1, <4>2, <4>3, <4>4
        <4>6. Status[r] = "open" /\ r \in Paid
          BY <2>4, <3>1, <4>1 DEF FacilitatorInv, ChainInv, SuccessIsOnChain, Settled
        <4>7. Promise!AnswerSuccess(r)
          BY <4>3, <4>5, <4>6 DEF Promise!AnswerSuccess
        <4>8. QED
          BY <4>7 DEF Promise!SettlementNext
      <3>9. ASSUME NEW r \in Requests, Apply(r)
            PROVE  Goal
        <4>1. Status' = Status /\ Bill' = Bill
          BY <3>9 DEF Apply, processVars, StatusOf
        <4>2. CASE PoolAccepts(r)
          <5>1. Paid' = Paid \cup {r} /\ spent' = spent \cup NullifiersOf(r) /\ r \notin Paid
            BY <3>9, <4>2 DEF Apply, FacilitatorInv, TypeOK
          <5>2. pc[r] # "idle" /\ answer[r] \notin {"success", "already_spent"}
            BY <2>4, <3>9 DEF Apply, FacilitatorInv, ChainInv, PlacesAreConsistent,
                              SuccessIsOnChain, Settled, Unsent
          <5>3. Status[r] \in {"open", "failed"} /\ Bill[r] = InputNullifiers[r]
            BY <2>4, <3>1, <3>3, <5>2
          <5>4. Promise!ValuesIn(Bill[r]) = NullifiersOf(r) /\ NullifiersOf(r) \cap spent = {}
            BY <4>2, <5>3 DEF PoolAccepts, NullifiersOf, KeysOf, Range, Promise!Range,
                              Promise!ValuesIn
          <5>5. Promise!Pay(r)
            BY <4>1, <5>1, <5>3, <5>4 DEF Promise!Pay
          <5>6. QED
            BY <5>5 DEF Promise!SettlementNext
        <4>3. CASE ~PoolAccepts(r)
          <5>1. Paid' = Paid /\ spent' = spent
            BY <3>9, <4>3 DEF Apply, FacilitatorInv, TypeOK
          <5>2. QED
            BY <4>1, <5>1
        <4>4. QED
          BY <4>2, <4>3
      <3>10. ASSUME NEW r \in Requests, Expire(r)
             PROVE  Goal
        BY <3>10 DEF Expire, processVars, StatusOf, FacilitatorInv, TypeOK
      <3>11. ASSUME NEW r \in Requests, Settle(r)
             PROVE  Goal
        <4>1. pc[r] = "idle" /\ UNCHANGED <<txs, spent>>
          BY <3>11 DEF Settle, chainVars
        <4>2. \A o \in Requests \ {r} : pc'[o] = pc[o] /\ answer'[o] = answer[o]
          BY <3>11 DEF Settle, Answer, Goto, FacilitatorInv, TypeOK
        <4>3. IF AllClaimable(r) THEN pc'[r] = "snapshot"
                                 ELSE pc'[r] = "done" /\ answer'[r] = "already_spent"
          BY <2>4, <3>11 DEF Settle, Answer, Goto, FacilitatorInv, TypeOK
        <4>4. \A o \in Requests : StatusOf(o)' =
                IF o = r THEN IF AllClaimable(r) THEN "open" ELSE "already_spent" ELSE StatusOf(o)
          <5>1. StatusOf(r)' = IF AllClaimable(r) THEN "open" ELSE "already_spent"
            BY <3>2, <4>3 DEF Live, Holding
          <5>2. \A o \in Requests \ {r} : StatusOf(o)' = StatusOf(o)
            BY <3>1, <3>2, <3>3, <4>2
          <5>3. QED
            BY <5>1, <5>2
        <4>5. Status' = [Status EXCEPT ![r] = IF AllClaimable(r) THEN "open" ELSE "already_spent"]
          BY <4>4
        <4>6. Bill' = [Bill EXCEPT ![r] = InputNullifiers[r]] /\ Paid' = Paid
          BY <2>1, <2>4, <4>1, <4>2, <4>3
        <4>7. Status[r] = "idle" /\ InputNullifiers[r] \in Seq(Keys)
          BY <3>1, <4>1, RequestsAssumption
        <4>8. \A o \in Requests : Status[o] = "open" =>
                pc[o] \in Live /\ Promise!Range(Bill[o]) = KeysOf(o)
          <5>1. \A o \in Requests : Status[o] = "open" => pc[o] \in Live
            BY <3>1, <3>3
          <5>2. \A o \in Requests : pc[o] \in Live => Bill[o] = InputNullifiers[o]
            BY <2>4 DEF Live, Holding
          <5>3. QED
            BY <5>1, <5>2 DEF KeysOf, Range, Promise!Range
        <4>9. /\ Promise!Range(InputNullifiers[r]) = KeysOf(r)
              /\ Promise!ValuesIn(InputNullifiers[r]) = NullifiersOf(r)
          BY DEF NullifiersOf, KeysOf, Range, Promise!Range, Promise!ValuesIn
        <4>10. Promise!Post(r, InputNullifiers[r]) => Goal
          <5>1. Bill'[r] = InputNullifiers[r] /\ Bill'[r] \in Seq(Keys)
            BY <4>6, <4>7 DEF Bill
          <5>2. Promise!Post(r, InputNullifiers[r]) => Promise!Post(r, Bill'[r])
            BY <5>1 DEF Promise!Post
          <5>3. QED
            BY <5>1, <5>2 DEF Promise!SettlementNext
        <4>11. CASE AllClaimable(r)
          <5>1. \A o \in Requests : pc[o] \in Live => KeysOf(r) \cap KeysOf(o) = {}
            BY <4>11, KeysTyped
               DEF AllClaimable, FacilitatorInv, ClaimsHaveOneOwner, AppendingIsFinal, Ending,
                   Holds,
                   Live
          <5>2. Promise!Free(r, InputNullifiers[r])
            <6>1. \A o \in Requests : Status[o] = "open" =>
                    Promise!Range(InputNullifiers[r]) \cap Promise!Range(Bill[o]) = {}
              BY <4>8, <4>9, <5>1
            <6>2. Promise!Cardinality(Promise!Range(InputNullifiers[r])) = Len(InputNullifiers[r])
              BY <4>9, <4>11 DEF AllClaimable, Cardinality, Promise!Cardinality
            <6>3. QED
              BY <6>1, <6>2 DEF Promise!Free
          <5>3. Promise!Post(r, InputNullifiers[r])
            BY <4>1, <4>5, <4>6, <4>7, <4>11, <5>2 DEF Promise!Post
          <5>4. QED
            BY <4>10, <5>3
        <4>12. CASE ~AllClaimable(r)
          <5>1. Cardinality(KeysOf(r)) # Len(InputNullifiers[r])
                  => ~Promise!Free(r, InputNullifiers[r])
            BY <4>9 DEF Promise!Free, Cardinality, Promise!Cardinality
          <5>2. ASSUME NEW k \in KeysOf(r), cache[k] # "absent"
                PROVE  ~Promise!Free(r, InputNullifiers[r]) \/ NullifiersOf(r) \cap spent # {}
            <6>1. k \in Keys /\ cache[k] \in {"in_flight", "committed"}
              BY <5>2, KeysTyped DEF FacilitatorInv, TypeOK
            <6>2. CASE cache[k] = "committed"
              BY <2>4, <5>2, <6>1, <6>2 DEF FacilitatorInv, ChainInv, SuccessIsOnChain, NullifiersOf
            <6>3. CASE cache[k] = "in_flight"
              <7>1. PICK o \in Requests : Holds(o, k)
                BY <6>1, <6>3 DEF FacilitatorInv, ClaimsHaveOneOwner
              <7>2. pc[o] \in Live /\ k \in KeysOf(o)
                BY <7>1 DEF Holds, Live
              <7>3. Status[o] = "open" /\ k \in Promise!Range(Bill[o])
                BY <3>1, <4>8, <7>2
              <7>4. QED
                BY <4>9, <7>3 DEF Promise!Free
            <6>4. QED
              BY <6>1, <6>2, <6>3
          <5>3. \/ ~Promise!Free(r, InputNullifiers[r])
                \/ Promise!ValuesIn(InputNullifiers[r]) \cap spent # {}
            BY <4>9, <4>12, <5>1, <5>2 DEF AllClaimable
          <5>4. Promise!Post(r, InputNullifiers[r])
            BY <4>1, <4>5, <4>6, <4>7, <4>12, <5>3 DEF Promise!Post
          <5>5. QED
            BY <4>10, <5>4
        <4>13. QED
          BY <4>11, <4>12
      <3>12. ASSUME NEW r \in Requests, NEW place \in Live, pc[r] \in Live, Goto(r, place),
                    UNCHANGED <<answer, txs, spent>>
             PROVE  Goal
        BY <3>4, <3>12 DEF Goto, FacilitatorInv, TypeOK
      <3>13. ASSUME NEW r \in Requests, Send(r)
             PROVE  Goal
        <4>1. UNCHANGED spent /\ pc[r] \in Holding
          BY <3>13 DEF Send, Holding
        <4>2. \A o \in Requests : txs'[o] = "success" <=> txs[o] = "success"
          BY <3>13 DEF Send, FacilitatorInv, ChainInv, PlacesAreConsistent, Unsent, TypeOK
        <4>3. CASE Fail(r, "pool_rejected_unknown")
          BY <3>6, <4>1, <4>2, <4>3
        <4>4. CASE GoPolling(r) /\ UNCHANGED answer
          <5>1. pc[r] \in Live /\ pc'[r] \in Live /\ \A o \in Requests \ {r} : pc'[o] = pc[o]
            BY <4>1, <4>4 DEF GoPolling, Goto, Live, Holding, FacilitatorInv, TypeOK
          <5>2. \A o \in Requests : StatusOf(o)' = StatusOf(o)
            BY <3>1, <3>2, <3>3, <4>4, <5>1
          <5>3. \A o \in Requests : pc'[o] = "idle" <=> pc[o] = "idle"
            BY <5>1 DEF Live, Holding
          <5>4. Status' = Status /\ Bill' = Bill /\ Paid' = Paid
            BY <2>1, <4>2, <5>2, <5>3
          <5>5. QED
            BY <4>1, <5>4
        <4>5. QED
          BY <3>13, <4>3, <4>4 DEF Send
      <3>14. ASSUME UNCHANGED <<pc, answer, txs, spent>>
             PROVE  Goal
        BY <3>4, <3>14
      <3>15. QED
        BY <2>2, <3>6, <3>7, <3>8, <3>9, <3>10, <3>11, <3>12, <3>13, <3>14
           DEF Next, OnChainStep, MockVerified, MockRefused, Solvent, Insolvent, ReadAccount,
               Prepare, PrepareRefused, SendError, SendAgainLater, GoPolling, RpcError, Poll,
               PollSuccess,
               PollFailed, PollNotFound, PollTimeout, AppendLog, Commits, ProofExpires, Boot,
               vars, processVars, chainVars,
               Live, Holding
    <2>5. QED
      BY <2>1, <2>3, <2>4
  <1>3. QED
    BY <1>1, <1>2, FacilitatorInvariant, PTL DEF Spec, SettlementSpec, Promise!SettlementSpec

---------------------------------------------------------------------------
(***************************************************************************)
(* What is answered, and once.                                             *)
(***************************************************************************)

\* The answers given before anything is submitted.
Refusals == {"already_spent", "insolvent", "proof_verification_failed"}

\* A refusal of settle.ts costs nothing, then or later: the request has no
\* transaction on the ledger, so its notes can be paid with again.
RefusalsCostNothing ==
  \A r \in Requests : answer[r] \in Refusals => txs[r] = "none"

\* The settlements log (settle.ts, settlementsLog.append) has one line per
\* request at most, and only of requests that are past the write.
LoggedOnce ==
  /\ \A r \in Range(settlements) : pc[r] \in {"answering", "done"}
  /\ \A i, j \in DOMAIN settlements : settlements[i] = settlements[j] => i = j

DoneIsAnswered == \A r \in Requests : pc[r] = "done" => answer[r] # "none"

AnswersInv == RefusalsCostNothing /\ LoggedOnce /\ DoneIsAnswered

\* The places of a handler in the order of the code.
PlaceOf(place) ==
  CASE place = "idle" -> 0
    [] place \in {"verifying", "snapshot"} -> 1
    [] place = "account" -> 2
    [] place = "preparing" -> 3
    [] place = "sending" -> 4
    [] place \in {"polling", "asking"} -> 5
    [] place = "appending" -> 6
    [] place = "answering" -> 7
    [] OTHER -> 8

LEMMA PlacesAreOrdered == \A place : PlaceOf(place) \in 0 .. 8 /\ PlaceOf(place) <= PlaceOf(place)
  BY DEF PlaceOf

\* A handler only moves on, crashes included, and ends with the one answer of
\* its request (settle.ts and submitPoolTransaction.ts have no way back but
\* the loop of the poll: a timeout is not a retry).
MovesOn(r) ==
  /\ PlaceOf(pc[r]) <= PlaceOf(pc'[r])
  /\ answer[r] # "none" => answer'[r] = answer[r]
  /\ pc'[r] = "done" => answer'[r] # "none"

HandlersMoveOn == [][\A r \in Requests : MovesOn(r)]_vars

\* One step of one handler, or the answer it ends with.
Waits(r) ==
  /\ PlaceOf(pc[r]) <= PlaceOf(pc'[r]) /\ pc'[r] # "done" /\ pc[r] # "done"
  /\ pc[r] = "answering" => pc'[r] = "answering"
  /\ \A o \in Requests \ {r} : pc'[o] = pc[o]
  /\ UNCHANGED answer

Ends(r) ==
  /\ PlaceOf(pc[r]) < PlaceOf(pc'[r]) /\ pc[r] # "done" /\ pc'[r] = "done"
  /\ answer[r] = "none" /\ answer'[r] # "none"
  /\ answer'[r] \in Refusals => txs'[r] = "none"
  /\ \A o \in Requests \ {r} : pc'[o] = pc[o] /\ answer'[o] = answer[o]

LEMMA FailEnds ==
  ASSUME FacilitatorInv, NEW r \in Requests, NEW reason \in Answers \ {"none"},
         Fail(r, reason), pc[r] \in Holding,
         reason \in Refusals => txs'[r] = "none"
  PROVE  Ends(r) /\ UNCHANGED settlements
  <1>1. TypeOK /\ answer[r] = "none"
    BY DEF FacilitatorInv, ChainInv, PlacesAreConsistent, Holding
  <1>2. /\ pc' = [pc EXCEPT ![r] = "done"] /\ answer' = [answer EXCEPT ![r] = reason]
        /\ UNCHANGED settlements
    BY DEF Fail, Answer, Goto
  <1>3. PlaceOf(pc[r]) < PlaceOf("done")
    BY DEF PlaceOf, Holding
  <1>4. QED
    BY <1>1, <1>2, <1>3 DEF Ends, TypeOK, Holding

LEMMA GotoWaits ==
  ASSUME FacilitatorInv, NEW r \in Requests, NEW place \in Live, Goto(r, place),
         PlaceOf(pc[r]) <= PlaceOf(place), pc[r] \notin {"answering", "done"}, UNCHANGED answer
  PROVE  Waits(r)
  <1>1. TypeOK /\ pc' = [pc EXCEPT ![r] = place] /\ place # "done"
    BY DEF FacilitatorInv, Goto, Live, Holding
  <1>2. QED
    BY <1>1 DEF Waits, TypeOK

\* Each step of a handler before its answer.
LEMMA HandlerWaits ==
  ASSUME FacilitatorInv, NEW r \in Requests,
         \/ MockVerified(r) \/ Solvent(r) \/ ReadAccount(r) \/ Prepare(r)
         \/ SendAgainLater(r) \/ Poll(r) \/ PollNotFound(r) \/ PollSuccess(r)
  PROVE  Waits(r) /\ UNCHANGED <<settlements, txs>>
  <1> USE DEF PlaceOf, Live, Holding, chainVars
  <1>1. CASE MockVerified(r)
    BY <1>1, GotoWaits DEF MockVerified, Commits
  <1>2. CASE Solvent(r)
    BY <1>2, GotoWaits DEF Solvent
  <1>3. CASE ReadAccount(r)
    BY <1>3, GotoWaits DEF ReadAccount
  <1>4. CASE Prepare(r)
    BY <1>4, GotoWaits DEF Prepare
  <1>5. CASE SendAgainLater(r)
    BY <1>5, GotoWaits DEF SendAgainLater, GoPolling
  <1>6. CASE PollSuccess(r)
    BY <1>6, GotoWaits DEF PollSuccess, Commits
  <1>7. CASE Poll(r)
    BY <1>7, GotoWaits DEF Poll
  <1>8. CASE PollNotFound(r)
    BY <1>8, GotoWaits DEF PollNotFound
  <1>9. QED
    BY <1>1, <1>2, <1>3, <1>4, <1>5, <1>6, <1>7, <1>8

\* Each of its ends but success and the refusal of a claim.
LEMMA HandlerFails ==
  ASSUME FacilitatorInv, NEW r \in Requests,
         \/ MockRefused(r) \/ Insolvent(r) \/ PrepareRefused(r) \/ SendError(r)
         \/ RpcError(r) \/ PollFailed(r) \/ PollTimeout(r)
  PROVE  Ends(r) /\ UNCHANGED <<settlements, txs>>
  <1> USE DEF Holding, Answers, Refusals, chainVars
  <1>1. pc[r] \in {"verifying", "snapshot"} => txs[r] = "none"
    BY DEF FacilitatorInv, ChainInv, PlacesAreConsistent, Unsent
  <1>2. CASE MockRefused(r)
    BY <1>1, <1>2, FailEnds DEF MockRefused
  <1>3. CASE Insolvent(r)
    BY <1>1, <1>3, FailEnds DEF Insolvent
  <1>4. CASE PrepareRefused(r)
    BY <1>4, FailEnds DEF PrepareRefused
  <1>5. CASE SendError(r)
    BY <1>5, FailEnds DEF SendError
  <1>6. CASE RpcError(r)
    BY <1>6, FailEnds DEF RpcError
  <1>7. CASE PollFailed(r)
    BY <1>7, FailEnds DEF PollFailed
  <1>8. CASE PollTimeout(r)
    BY <1>8, FailEnds DEF PollTimeout
  <1>9. QED
    BY <1>2, <1>3, <1>4, <1>5, <1>6, <1>7, <1>8

LEMMA SettleMoves ==
  ASSUME FacilitatorInv, NEW r \in Requests, Settle(r)
  PROVE  (Waits(r) \/ Ends(r)) /\ UNCHANGED <<settlements, txs>>
  <1> USE DEF chainVars
  <1>1. TypeOK /\ pc[r] = "idle" /\ answer[r] = "none" /\ txs[r] = "none"
    BY DEF Settle, FacilitatorInv, ChainInv, PlacesAreConsistent, Unsent
  <1>2. UNCHANGED <<settlements, txs>>
    BY DEF Settle
  <1>3. CASE AllClaimable(r)
    <2>1. PICK place \in {"verifying", "snapshot"} : Goto(r, place) /\ UNCHANGED answer
      BY <1>3 DEF Settle
    <2>2. QED
      BY <1>1, <1>2, <2>1, GotoWaits DEF PlaceOf, Live, Holding
  <1>4. CASE ~AllClaimable(r)
    <2>1. pc' = [pc EXCEPT ![r] = "done"] /\ answer' = [answer EXCEPT ![r] = "already_spent"]
      BY <1>4 DEF Settle, Answer, Goto
    <2>2. PlaceOf(pc[r]) < PlaceOf("done")
      BY <1>1 DEF PlaceOf
    <2>3. QED
      BY <1>1, <1>2, <2>1, <2>2 DEF Ends, TypeOK
  <1>5. QED
    BY <1>3, <1>4

\* What one handler's step comes to.
LEMMA HandlerStepKeeps ==
  ASSUME FacilitatorInv, AnswersInv, NEW r \in Requests, Waits(r) \/ Ends(r),
         UNCHANGED settlements,
         \A o \in Requests : txs'[o] = txs[o] \/ answer'[o] \notin Refusals
  PROVE  AnswersInv' /\ \A o \in Requests : MovesOn(o)
  <1>1. \A o \in Requests : pc[o] # "done" => answer[o] = "none"
    BY DEF FacilitatorInv, ChainInv, PlacesAreConsistent
  <1>2. \A o \in Requests : MovesOn(o)
    BY <1>1, PlacesAreOrdered DEF AnswersInv, DoneIsAnswered, Waits, Ends, MovesOn
  <1>3. RefusalsCostNothing'
    BY DEF AnswersInv, RefusalsCostNothing, Waits, Ends
  <1>4. LoggedOnce'
    <2>1. \A o \in Requests : pc[o] \in {"answering", "done"} => pc'[o] \in {"answering", "done"}
      BY DEF Waits, Ends
    <2>2. Range(settlements) \subseteq Requests
      BY LoggedAreRequests DEF FacilitatorInv
    <2>3. QED
      BY <2>1, <2>2 DEF AnswersInv, LoggedOnce
  <1>5. DoneIsAnswered'
    BY DEF AnswersInv, DoneIsAnswered, Waits, Ends
  <1>6. QED
    BY <1>2, <1>3, <1>4, <1>5 DEF AnswersInv

\* The log write: one more line, of a request that had none.
LEMMA AppendKeeps ==
  ASSUME FacilitatorInv, AnswersInv, NEW r \in Requests, AppendLog(r)
  PROVE  AnswersInv' /\ \A o \in Requests : MovesOn(o)
  <1>1. /\ TypeOK /\ pc[r] = "appending" /\ pc' = [pc EXCEPT ![r] = "answering"]
        /\ settlements' \in {settlements, Append(settlements, r)} /\ UNCHANGED <<answer, txs>>
    BY DEF AppendLog, Goto, chainVars, FacilitatorInv
  <1>2. Waits(r)
    BY <1>1, GotoWaits DEF AppendLog, PlaceOf, Live
  <1>3. CASE settlements' = settlements
    BY <1>1, <1>2, <1>3, HandlerStepKeeps
  <1>4. CASE settlements' = Append(settlements, r)
    <2>1. \A o \in Requests : pc[o] # "done" => answer[o] = "none"
      BY DEF FacilitatorInv, ChainInv, PlacesAreConsistent
    <2>2. \A o \in Requests : MovesOn(o)
      BY <1>2, <2>1, PlacesAreOrdered DEF AnswersInv, DoneIsAnswered, Waits, MovesOn
    <2>3. RefusalsCostNothing' /\ DoneIsAnswered'
      BY <1>1, <1>2 DEF AnswersInv, RefusalsCostNothing, DoneIsAnswered, Waits
    <2>4. PICK q \in Seq(Requests) : q = settlements
      BY <1>1 DEF TypeOK
    <2>5. /\ \A o \in Range(q) : pc[o] \in {"answering", "done"}
          /\ \A i, j \in DOMAIN q : q[i] = q[j] => i = j
      BY <2>4 DEF AnswersInv, LoggedOnce
    <2>6. \A i \in DOMAIN q : q[i] # r /\ q[i] \in Requests
      BY <1>1, <2>4, <2>5 DEF Range
    <2>7. /\ DOMAIN Append(q, r) = 1 .. Len(q) + 1 /\ DOMAIN q = 1 .. Len(q) /\ Len(q) \in Nat
          /\ \A i \in DOMAIN Append(q, r) : Append(q, r)[i] = IF i \in DOMAIN q THEN q[i] ELSE r
          /\ \A i \in DOMAIN Append(q, r) : i \notin DOMAIN q => i = Len(q) + 1
      BY <2>4
    <2>8. \A i, j \in DOMAIN Append(q, r) : Append(q, r)[i] = Append(q, r)[j] => i = j
      BY <2>5, <2>6, <2>7
    <2>9. \A i \in DOMAIN Append(q, r) : pc'[Append(q, r)[i]] \in {"answering", "done"}
      <3>1. \A i \in DOMAIN q : pc'[q[i]] \in {"answering", "done"}
        BY <1>1, <2>5, <2>6 DEF TypeOK, Range
      <3>2. pc'[r] = "answering"
        BY <1>1 DEF TypeOK
      <3>3. QED
        BY <2>7, <3>1, <3>2
    <2>10. LoggedOnce'
      BY <1>4, <2>4, <2>8, <2>9 DEF LoggedOnce, Range
    <2>11. QED
      BY <2>2, <2>3, <2>10 DEF AnswersInv
  <1>5. QED
    BY <1>1, <1>3, <1>4

\* The answer of success.
LEMMA SuccessEnds ==
  ASSUME FacilitatorInv, NEW r \in Requests, Answer200(r)
  PROVE  Ends(r) /\ UNCHANGED <<settlements, txs>>
  <1>1. /\ TypeOK /\ pc[r] = "answering" /\ answer[r] = "none"
        /\ pc' = [pc EXCEPT ![r] = "done"] /\ answer' = [answer EXCEPT ![r] = "success"]
        /\ UNCHANGED <<settlements, txs>>
    BY DEF Answer200, Answer, Goto, chainVars, FacilitatorInv, ChainInv, PlacesAreConsistent
  <1>2. QED
    BY <1>1 DEF Ends, TypeOK, PlaceOf, Refusals

\* A crash ends every handler at once.
LEMMA CrashKeeps ==
  ASSUME FacilitatorInv, AnswersInv, Crash
  PROVE  AnswersInv' /\ \A o \in Requests : MovesOn(o)
  <1>1. /\ pc' = [r \in Requests |-> IF pc[r] \in Live THEN "done" ELSE pc[r]]
        /\ answer' = [r \in Requests |-> IF pc[r] \in Live THEN "connection_lost" ELSE answer[r]]
        /\ UNCHANGED <<settlements, txs>>
    BY DEF Crash, chainVars
  <1>2. \A o \in Requests : pc[o] \in Live => answer[o] = "none"
    BY DEF FacilitatorInv, ChainInv, PlacesAreConsistent, Live, Holding
  <1>3. \A o \in Requests : pc[o] \in Live => PlaceOf(pc[o]) < PlaceOf("done")
    BY DEF PlaceOf, Live, Holding
  <1>4. \A o \in Requests : MovesOn(o)
    BY <1>1, <1>2, <1>3, PlacesAreOrdered DEF MovesOn, AnswersInv, DoneIsAnswered
  <1>5. RefusalsCostNothing' /\ DoneIsAnswered'
    BY <1>1 DEF AnswersInv, RefusalsCostNothing, DoneIsAnswered, Refusals
  <1>6. Range(settlements) \subseteq Requests
    BY LoggedAreRequests DEF FacilitatorInv
  <1>7. LoggedOnce'
    BY <1>1, <1>6 DEF AnswersInv, LoggedOnce, Live, Holding
  <1>8. QED
    BY <1>4, <1>5, <1>7 DEF AnswersInv

LEMMA AnswersStep ==
  ASSUME FacilitatorInv, AnswersInv, [Next]_vars
  PROVE  AnswersInv' /\ \A r \in Requests : MovesOn(r)
  <1>1. ASSUME NEW r \in Requests,
               \/ MockVerified(r) \/ Solvent(r) \/ ReadAccount(r) \/ Prepare(r)
               \/ SendAgainLater(r) \/ Poll(r) \/ PollNotFound(r) \/ PollSuccess(r)
        PROVE  AnswersInv' /\ \A o \in Requests : MovesOn(o)
    BY <1>1, HandlerWaits, HandlerStepKeeps
  <1>2. ASSUME NEW r \in Requests,
               \/ MockRefused(r) \/ Insolvent(r) \/ PrepareRefused(r) \/ SendError(r)
               \/ RpcError(r) \/ PollFailed(r) \/ PollTimeout(r)
        PROVE  AnswersInv' /\ \A o \in Requests : MovesOn(o)
    BY <1>2, HandlerFails, HandlerStepKeeps
  <1>3. ASSUME NEW r \in Requests, Settle(r)
        PROVE  AnswersInv' /\ \A o \in Requests : MovesOn(o)
    BY <1>3, SettleMoves, HandlerStepKeeps
  <1>4. ASSUME NEW r \in Requests, Send(r)
        PROVE  AnswersInv' /\ \A o \in Requests : MovesOn(o)
    <2>1. /\ TypeOK /\ pc[r] = "sending" /\ answer[r] = "none"
          /\ \A o \in Requests \ {r} : txs'[o] = txs[o]
      BY <1>4 DEF Send, FacilitatorInv, ChainInv, PlacesAreConsistent
    <2>2. CASE GoPolling(r) /\ UNCHANGED <<answer, settlements>>
      <3>1. Waits(r)
        BY <2>1, <2>2, GotoWaits DEF GoPolling, PlaceOf, Live, Holding
      <3>2. QED
        BY <2>1, <2>2, <3>1, HandlerStepKeeps DEF Refusals
    <2>3. CASE Fail(r, "pool_rejected_unknown")
      <3>1. Ends(r) /\ UNCHANGED settlements
        BY <2>1, <2>3, FailEnds DEF Answers, Refusals, Holding
      <3>2. answer'[r] \notin Refusals
        BY <2>1, <2>3 DEF Fail, Answer, TypeOK, Refusals
      <3>3. QED
        BY <2>1, <3>1, <3>2, HandlerStepKeeps
    <2>4. QED
      BY <1>4, <2>2, <2>3 DEF Send
  <1>5. ASSUME NEW r \in Requests, AppendLog(r) \/ Answer200(r)
        PROVE  AnswersInv' /\ \A o \in Requests : MovesOn(o)
    BY <1>5, AppendKeeps, SuccessEnds, HandlerStepKeeps
  <1>6. CASE Crash
    BY <1>6, CrashKeeps
  <1>7. ASSUME UNCHANGED <<pc, answer, settlements>>,
               \A r \in Requests : txs[r] = "none" => txs'[r] = "none"
        PROVE  AnswersInv' /\ \A o \in Requests : MovesOn(o)
    BY <1>7, PlacesAreOrdered
       DEF AnswersInv, RefusalsCostNothing, LoggedOnce, DoneIsAnswered, MovesOn
  <1>8. ASSUME NEW r \in Requests, Apply(r) \/ Expire(r) \/ ProofExpires(r)
        PROVE  AnswersInv' /\ \A o \in Requests : MovesOn(o)
    BY <1>7, <1>8 DEF Apply, Expire, ProofExpires, processVars, FacilitatorInv, TypeOK
  <1>9. CASE (\E n \in Nullifiers : SpendElsewhere(n)) \/ Boot \/ UNCHANGED vars
    BY <1>7, <1>9 DEF SpendElsewhere, Boot, vars, processVars, chainVars
  <1>10. QED
    BY <1>1, <1>2, <1>3, <1>4, <1>5, <1>6, <1>8, <1>9 DEF Next, OnChainStep

LEMMA AnswersInvariant == Spec => [](FacilitatorInv /\ AnswersInv)
  <1>1. Init => AnswersInv
    BY DEF Init, AnswersInv, RefusalsCostNothing, LoggedOnce, DoneIsAnswered, Refusals, Range
  <1>2. FacilitatorInv /\ AnswersInv /\ [Next]_vars => AnswersInv'
    BY AnswersStep
  <1>3. QED
    BY <1>1, <1>2, FacilitatorInvInit, FacilitatorInvStep, PTL DEF Spec

(***************************************************************************)
(* The refusals of settle.ts (409 already_spent, 400 insolvent, 500        *)
(* proof_verification_failed) are final: nothing of the request is on the  *)
(* ledger, now or later.                                                   *)
(***************************************************************************)
THEOREM RefusedIsUnpaid == Spec => []RefusalsCostNothing
  BY AnswersInvariant, PTL DEF AnswersInv

(***************************************************************************)
(* The settlements log repeats no request (settle.ts:131 and :184).        *)
(***************************************************************************)
THEOREM LogHasNoRepeats == Spec => []LoggedOnce
  BY AnswersInvariant, PTL DEF AnswersInv

(***************************************************************************)
(* The handler of settle.ts and submitPoolTransaction.ts never goes back:  *)
(* a submitted request is polled for, logged, done, in this order, and     *)
(* keeps its one answer.                                                   *)
(***************************************************************************)
THEOREM HandlersNeverGoBack == Spec => HandlersMoveOn
  <1>1. FacilitatorInv /\ AnswersInv /\ [Next]_vars => [\A r \in Requests : MovesOn(r)]_vars
    BY AnswersStep
  <1>2. QED
    BY <1>1, AnswersInvariant, PTL DEF Spec, HandlersMoveOn
=============================================================================
