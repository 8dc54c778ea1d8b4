# Enclave: a TLA+ model of the shielded pool and of what settles payments in it

Enclave pays for HTTP resources out of a shielded pool on Stellar. An organisation deposits
tokens into a pool contract and holds notes; its agents answer a `402 Payment Required` with a
zero-knowledge proof that spends a note, a facilitator submits the proof to the pool, and policy
contracts (ASPs) decide whose notes can be spent. This directory holds TLA+ modules of that system,
TLC runs on small instances and TLAPS proofs. Every definition that stands for code is listed with
its source lines under `map` in `PROJECT.json`; paths below are relative to `src/`.

## 1. The system

| Component | State it keeps | Operations | Module |
| --- | --- | --- | --- |
| Pool contract, `contracts/pool/src/pool.rs` | nullifier map, admin, the policy contracts consulted, maximum deposit; its token balance is in the token contract | `transact`, `update_admin`, `update_asp_membership`, `update_asp_non_membership` | `Pool` |
| Its commitment tree, `contracts/pool/src/merkle_with_history.rs` | next index, one filled subtree per level, a ring of 90 roots | `insert_two_leaves`, `is_known_root`, `get_last_root` | `CommitmentTree`, `MerkleTreeWithHistory` |
| ASP membership contract, `contracts/asp-membership` | incremental Merkle tree, admin, who may insert | `insert_leaf`, `set_admin_insert_only`, `update_admin` | `AspMembership` |
| ASP non-membership contract, `contracts/asp-non-membership` | sparse Merkle tree, node by node | `insert_leaf`, `update_leaf`, `delete_leaf`, `find_key`, `verify_non_membership` | `AspNonMembership`, `SparseTree` |
| Circuit, `circuits/src/policyTransaction.circom` | none | what a proof establishes | `Circuit` in `Pool` |
| Facilitator, `facilitator/src` | nullifier cache, settlements log, counters | `POST /settle`, boot | `Facilitator`; what clients see of it: `Settlement` |
| Agent SDK, `packages/agent` | notes loaded once, nullifiers used, fixtures | `fetch` with payment, capture of fixtures | `Agent` |
| Gate, `gate` | none | 402, 500 or pass | `GateAnswers` in `Agent` |
| Wallet sync, `app/js/state` and `app/js/stellar.js` | local copies of the leaves, trees built from them, watermarks | initialise, sync, rebuild, reset | `WalletSync` |
| Wallet notes, `app/js/state/notes-store.js`, `note-scanner.js`, `app/js/enclave/deposit.js`, `app/js/ui/transactions` | notes of all accounts, account in use, cached keys, scan watermark | log in, change account, scan, check, deposit, withdraw, clear | `Notes` |
| Trees outside the chain, `app/crates/prover/src/merkle.rs`, `sparse_merkle.rs`, `circuits/src/core/merkle.rs` | all nodes | insert, update, root, proof | `ClientTree`, `ClientSparseTree` |
| Enclave organisation, `app/js/enclave/org.js` | organisations, note tags | create, export | not modelled |

How they interact. A wallet or agent reads the roots of the three trees, makes a proof against
them, and the proof travels: to the pool directly (deposit, transfer), or to the facilitator, which
claims its nullifiers in the cache, asks the RPC node to simulate, sends the transaction and polls for
its result. The pool compares the proof's pool root with its history and the policy roots with the
ones the policy contracts return in the same transaction. Contracts share nothing but such calls,
and a Soroban transaction is all or nothing. The facilitator is one Node process: its handlers
interleave at awaits. The wallet learns everything from contract events, in windows the RPC node
retains.

What is hard. In the contracts: long sequences of legal calls (value, nullifiers, tree shape), boundaries (the
ring, the full tree, field arithmetic), and policy that changes between proof and submission. Around them:
handlers that interleave over shared nullifiers, a transaction whose fate is unknown when the deadline passes,
restarts that lose the cache, events that a wallet cannot read any more or never asks for, a sync that meets a
reset or a second rebuild, accounts and keys that change under a scan, local writes that follow an on-chain
step, agents that share notes and a fixture file. `PROJECT.json` lists these as hazards, each at its line and
with the properties that cover it.

What makes each component correct:

- pool: nothing is spent out of nothing and value is conserved; while nullifiers come reduced, nothing is
  spent twice, its balance covers the unspent notes and an admitted owner can always withdraw; nothing of a
  key the policy no longer admits is spent;
- trees: the root is the root of exactly the leaves inserted (so wallets can rebuild it), and old
  roots are honoured for exactly as long as promised;
- non-membership tree: the store holds the whole tree, its root depends on the entries alone, and
  absence of every other key can be proved;
- facilitator: a claim has one owner, "success" means a transaction of that very request went
  through, a nullifier settles once, a submitted request is answered unless a call hangs;
- wallet sync: what is missing from a store is what the RPC node did not give or the window left out, the
  watermark and the broken flag say so, the membership tree is always the contract's after some insertion, a
  rebuilt tree is the store, a sync ends;
- wallet notes: a mark is true, a received note can be spent with what was saved, what a scan
  misses below its watermark has a reason that can be named;
- trees outside the chain: the same roots as on chain, and proofs that lead to them;
- agent: a payment under way keeps its note, an error says whether money left, a captured fixture
  cannot pay a second time, and what was paid is served (it is not, section 3).

## 2. The modules

`ShieldedLedger` (abstract) is a ledger of holdings per key and balances per account: deposits,
withdrawals and internal payments conserve value, and only keys the policy admits lose any.
`Pool` refines it (`LedgerSpec`), the holdings being the sums of unspent notes.

`CommitmentTree` is the pool's tree as a list of leaves and a ring of roots. Hashes are taken as
collision free, so the root of a tree that only grows stands for its number of leaves: root `n` is
the root of the first `n` leaves, `ForeignRoot` the root of any other tree, `NoRoot` a slot never
written. `MerkleTreeWithHistory` computes the same roots hash by hash over `IncrementalTree`, as the
contract does from filled subtrees, and refines `CommitmentTree`; this is what licenses the numbers.

`Pool` extends `CommitmentTree`. Commitments are notes (amount, key, blinding), a nullifier is a
note with the leaf index it was derived from and the number of moduli added to it, a proof is its public
statement. `Circuit` is true of
the statements that have a witness. `TransactError` goes through the checks of `transact` and
`internal_transact` in the code's order; `Transact` changes state only when it returns `"None"`,
since an error rolls the whole transaction back. The policy contracts appear as the sequence of
members and the set of blocked keys of each deployed contract.

The contract keys its map of nullifiers by the U256 as it came (`is_spent`, `mark_spent`, `pool.rs:368-384`),
while the verifier takes it as an element of the field (`pool.rs:414`), and no line compares it with the
modulus. `IsSpent` and `Transact` therefore work with the number, `Circuit` with its `Residue`, and `MaxWraps`
says how many moduli a U256 has room for. What rests on one number per nullifier (`EveryInputIsFresh`,
`Solvent`, `NotesAreWithdrawable`, `LedgerSpec`) is stated under the condition `Canonical`, that every
nullifier marked so far came reduced, as all provers of the repository send them; nothing in the contract
enforces it. `ValueIsConserved`, `SpentNotesExist`, `AmountsInRange`, the roots and the policy hold without
it. The pool's own account can be a recipient, as `pool.rs:594` allows, and tokens reach it outside `transact`
(`Transfer`), so the balance is at least the value of the notes, not equal to it; `ShieldedLedger` lets
balances move likewise.

Values in the non-membership
tree are left out here: `update_leaf` changes the real root and so outdates proofs, which the model
goes on accepting, so the pool of the model accepts more. Anyone may insert members, as
`scripts/deploy.sh` configures it with `set_admin_insert_only(false)`.

`AspMembership` and `AspNonMembership` are the policy contracts in full. `SparseTree` holds the tree
values: a node is written as the tuple that is hashed, `Empty` is the zero hash. Nodes of the store
are a set beside the root because the contract reads through storage: a node removed too
early makes calls fail. `BlockedKeys` (abstract) is the map the contract promises; `AspNonMembership`
refines it (`BlockedKeysSpec`). `delete_leaf` computes the hashes of the old path from the wrong
bottom when it promotes a leaf and leaves old nodes in the store; they are harmless to lookups, and
`MaxStale` bounds how many of them a run collects.

`Facilitator` has one action per stretch of the settle handler between two awaits (so the write of the log and
the 200 are two, with crashes between them), the cache, the settlements log, the transactions the RPC node
took, the facilitator account's sequence number, the pool's nullifiers, crash and boot. A nullifier comes as a
string, and has many: the cache takes the string in lower case for its key (`cache.ts:88`), the submission and
the pool take its number (`poolTransaction.ts:126`), and hydration makes a third form of it. `Keys` are the
strings, `ValueOf` their numbers, `HexOf` what hydration writes. A claim is of a key, and only the pool tells
two keys of one number apart. A retry is a request of its own with the same proof. The network may lose an
answer, drop a transaction, or apply it after the handler gave up; owners may spend their notes elsewhere, and
proofs may go stale.

`Settlement` (abstract) is what a client of `POST /settle` may rely on, in five actions: a request is
taken on only when its strings are free and refused with 409 only for a reason, it is paid at most once
and maybe after it was told of a failure, success is answered only for what was paid. `Facilitator`
implements it (`SettlementSpec`), and `Agent` is built on it in place of the facilitator's whole state: the
agents meet every behaviour of a facilitator, crashes included, at the price of five actions. In mock mode
nothing is paid, so the mapping shows such a facilitator as idle.

`Agent` is `agent.fetch`, an action per stretch between two awaits: the first request, selection of a
note, the proof (the note is marked after it), `POST /settle`, the answer, capture of a fixture (a read
and a write of the file with others in between), the retry. Several agents share the key, the notes file
and the fixture file. An input of a proof is a note with the amount the witness claims for it, since the
nullifier is derived from both: the padding input is a note with amount zero, whatever the note is worth.
A proof for less than the note's amount is not provable (the witness claims the price and not the
amount), so notes with change end in `proof_failed`, as in the code. `GateAnswers` is `withEnclaveGate`,
which keeps no state. The prover is injected (`proverDeps`) and taken to prove what the circuit accepts.
The default one does not get that far: the witness JSON lacks public signals the circuit needs, its
non-membership proofs carry a key `'0'`, and `outPubKey` is not the circuit's `outPubkey`.

`Notes` is the wallet's notes store with the scan, the keys and the flows that write notes. An output is its
place in the pool and carries its addressee; a row keeps the owner, the key and the index it was saved with,
which may be wrong: `deposit.js:178-181` calls the index read before the submission deterministic, and another
deposit in between makes it wrong, in the model as in the code. A login is one prompt, or two in
`initializeKeypairs`; its keys are cached when it comes, whichever account is in use by then. Outputs are
stored in any order, since a sync may bring late what an earlier one left out (a cut page, a window that was
too short), and `clearAndReset` takes them all away while the scan's watermark, a variable of the module
`note-scanner.js`, stays. `passed` is history: the notes of this user that no scan of this page looks at
again, because they were stored below the watermark, tried with other keys than theirs or with none, or had
their row cleared. `checkSpentNotes` looks a nullifier up by its bytes in little-endian order, and the store
is keyed by the number, so only the places in `Mirrored` are recognised. Abstracted: nullifiers are stored at
any time, a scan reads its outputs in any order; the check of spent notes is one step, which marks any of the
notes it may recognise; one deposit or withdrawal at a time, a withdrawal of one input.

`ClientTree` and `ClientSparseTree` are the trees of the prover crate node by node, with the reference
tree and proof of the circuits crate and the template that takes a proof to a root. The sparse tree is
written over `SparseTree`, the tree values of the contract, so that "the same tree" is equality.

`WalletSync` is one browser tab: the two stores in IndexedDB with the sync metadata, the tree in memory of
each, the running `startSync` (`sync`), each running `rebuildTree` (`rebuilding`) and a running `clearAll`
(`clearing`). An action is the code between two awaits, except that the database writes of one event, and the
clears of one store, are one step. A leaf is its position, so a tree is a sequence of numbers; events other
than leaves only take room in a page (`PageRoom`). `FetchChunk` is one request with its page, `ClampStart` the
error answer that moves a start out of retention up to the oldest ledger, `FetchFails` any other error: it
keeps what earlier pages brought, leaves the watermark and goes on to the next contract, and the metadata is
saved all the same. IndexedDB runs a write only after the cursors opened before it: that is the guard
`~RebuildRuns` of the writes and of `ClearPool`. A sync counts as over when its metadata is saved; the note
scan that follows writes to none of this. Four variables are history and no action reads them except to update
them: `cut` (leaves a full page left out), `passed` (leaves older than the window of a sync), `mixed` (a tree
that is not of one rebuild and the store it read) and `undercut` (a reset that is on its way, was interrupted
by a closed tab, or met a sync); `meta.counted` is a fifth, whether the last membership sync learnt the
contract's count. The window is measured again when it is an hour old or a page asks, and assumed when that
fails (`retention-verifier.js:98`, `:147`), so every sync may take another of `Windows`, and `Retention` is
what the RPC really keeps. A gap found broken can thus be in order later, and the sync then clears the flags;
nothing is claimed of the flag but what `UnbrokenMeansAllMembers` says. A reset of the pool's store is two
steps, the store and the tree two awaits later; a contract's tree takes no leaf past its capacity.

`MCPool`, `MCTrees`, `MCNonMembership`, `MCFacilitator`, `MCAgent`, `MCClients` and `MCWalletSync` give TLC its
instances. `MCTrees` holds all trees side by side: `growing` names the one a run grows, and only a
wallet's tree grows together with the membership contract's, whose events it follows. `MCClients` holds the
agents of `MCAgent` and the wallet of `Notes` side by side, `running` naming the one that takes the
steps; the two share no state. `MCPool`
enumerates proofs a wallet can assemble from notes in the tree together with those the contract
has to refuse: old and foreign roots, old and other policy roots, spent notes, one note twice,
outputs near the modulus, data other than what the proof binds. It makes some of the contract's
checks early, to cut that enumeration short.

## 3. The runs

| Run | Question | Instance |
| --- | --- | --- |
| `pool_value` | value, nullifiers, roots and the full tree over every mix of calls | 4 calls fill a tree of depth 3, ring of 2, so the ring wraps; field of 12, amounts below 3, an account with 2 tokens; one unreduced nullifier, a surplus of one token in the pool |
| `pool_policy` | keys admitted, blocked and unblocked, contracts replaced while proofs wait | 2 keys, 2 contracts of each kind, 2 members, 1 blocked key at a time, 2 calls; keys and contracts of a kind are symmetric |
| `trees` | do all trees compute the right roots, whole stores and good proofs | pool's tree of depth 3 in pairs with a ring of 2, membership and wallet trees of depth 2, two leaf values, all filled to the end; sparse trees with 3-bit keys 0, 1, 4 (parting at the first and the last level), 2 values, absences of all 8 keys checked |
| `non_membership_update` | violation: an update to the current value | the sparse tree of the contract alone |
| `non_membership_zero` | violation: a collision leaf of value zero | as above |
| `facilitator` | interleaved settles, restarts, lost answers, and does it implement `Settlement` | a payment, the same with its nullifiers spelled another way, one with the same notes of which one is spelled like the payment's; one crash; both modes |
| `facilitator_boot` | violation: is the cache restored at boot | one payment, one crash |
| `facilitator_replay` | violation: is a repeated proof refused with 409 | a payment and its retry |
| `wallet_sync` | what a wallet has, misses and says it has | 4 ledgers, chunks of one, 2 of them retained; 2 commitments, 3 members of which one is past its page; trees of 3 leaves; windows of 1 and 2; 2 upsets |
| `wallet_pages` | violation: are all pages of a chunk read | as above |
| `clients` | what payments and scans do to notes | agents: two, one that captures with two fetches and one with fixtures; two notes of the price with and without one of zero; one restart; a note spent elsewhere. Wallet: 2 accounts, 4 outputs in 2 ledgers, one of which another device spends, 3 acts of the user |
| `agent_gate` | violation: is what was settled served | the agents of `clients` |

Why the bounds suffice. The pool's checks compare a proof with the current state, so two calls show every pair
that can conflict; four of them also turn the ring twice and fill the tree. The field is small but keeps the
code's proportions: it exceeds four amounts, as 2^254 exceeds four times 2^248, and `OutAmounts` includes the
value just below the modulus. Keys of three bits give collisions that part at once, later, and with empty
branches between, with promotion over zero, one and two levels. Three requests give each pair of a rollback
(`other` claims a key of its own and finds the second taken), two handlers at once with the same nullifiers
under different keys, and a third that interferes. The one unreduced nullifier is of the first leaf: it takes
the pool out of `Canonical` in as many states as needed for `ValueIsConserved` to mean something there.
Deadlock is not checked where the system may stop: a full pool with unchanging policy, a facilitator that has
answered everything.

In `wallet_sync`, by ledger 4 the leaves of ledger 2 have expired, so a first sync is early, late or overtaken
by expiry; a tree of three leaves is full when two stored leaves are read a second time, as a tree of depth 10
is after 512; an upset is a closed tab, a reset, a failed request, a rebuild asked for by a page or a sync
with the other window, and two of them give every pair (a reset that a closed tab interrupts, two rebuilds, a
failure in each phase, a gap that is broken for one window only). A wallet whose `initialize()` threw does
nothing more, hence no deadlock check.

In `clients`, three fetches of two agents give two at once in one process, a third in another that meets the
first's fixtures, and a restart in the middle of each. Two ledgers of two outputs are enough for a scan that
finds half a ledger, a deposit overtaken by another, and a note on each side of the watermark; three acts give
a login, a change of account and a return, a deposit and its withdrawal, or a reload between them. Outputs are
stored in any order of the ledgers, within one the first before the second (`StoredInPairs` in `MCClients`: a
page begins with a ledger), which leaves late ones on both sides of the watermark. Fetches that are over and a
full pool stop, hence no deadlock check.

Fairness is assumed in two runs. In `facilitator` (`FairSpec`): the poll loop of `submitPoolTransaction.ts:91`
goes round (weak fairness of its test, either way), and the test, whose deadline is a point in time, does not
come out the same for ever (strong fairness of `PollTimeout`); the write of the log, whose failure is caught,
and the answer after it come. Nothing makes a call to the RPC node return: `getTransaction` has no timeout,
and `SubmittedIsAnswered` says "unless one call of the poll never returns" (`"asking"` for ever). Nothing is
assumed of the calls before the poll either, nor of the ledger. In `wallet_sync` (`Fairness`): weak fairness
of the steps of a sync and of the cursor of each rebuild, which says that a request is answered, with a result
or an error, and that IndexedDB calls settle in a tab that stays open; strong fairness of the write of a
commitment, because IndexedDB serves a waiting write before cursors opened after it, so repeated rebuilds
cannot hold it off. A failing request is not among the fair steps. `SyncEnds` thus says that the loops end,
and that no state of tree and store lets a sync wait for ever. The bound `MaxCrashes` counts the crashes of a
run.

What the passing runs show: the statements of section 1, on these instances, each broken by a mutant of the
code (`mutants`). In particular `NotesAreWithdrawable` states the one exception the code has: a full tree
refuses withdrawals too, so value left in a full pool stays there. `ZeroNoteAllowsOnePayment` states a limit
of the agent: `deposit.js:137-145` makes a note of amount zero so that a proof has two distinct inputs, and
`fetch-interceptor.ts:307` takes the first of the file for every proof, so all payments but one are refused. A
file without such a note is another matter: the comment at `deposit.js:137-145` expects two equal nullifiers
then, but the witness claims amount zero for the padding (`prover.ts:282-307`), which gives it another
commitment and another nullifier, so the property says nothing of such files. `ScansMissNothing` says why a
note may be missed, and by which of the code's habits: the watermark is one for all accounts, it does not go
back when outputs come late or are reset, and a cleared row is not looked for; a new load of the page mends
all three. `PaymentsKeepTheirNote` does not say that two fetches never share a note: both may pick it before
either proof is made, and then one is refused with 409. A note stays marked in the agent when its settlement
fails. `SpentMarksAreTrue` holds although marks are set by several flows and with guessed indices; a note
whose index is wrong is never recognised as spent and cannot be spent, nor is one whose nullifier the check
looks up in the other order of its bytes recognised. `RebuiltTreeIsTheStore` leaves out the rebuilds that
something met (`mixed`), and the properties of watermark, holes and flag the resets that met a sync
(`undercut`): there the code keeps no promise.

What the violation runs show (`findings`):

- `update_leaf` with the value a key already has removes the nodes it has just stored, and every key
  below them fails with `KeyNotFound` from then on;
- a collision leaf of value zero makes `verify_non_membership` refuse the proof that `find_key`
  itself hands out;
- the hydration at boot asks for events with the topic `transact`, and the pool publishes
  `new_nullifier_event`: the cache starts empty whatever was spent;
- the event reader of the wallet asks once per chunk of 5000 ledgers for at most 100 events, so
  leaves after the hundredth event are left out of the stores although the watermark passes them;
- a payment that was settled is not served: the agent retries with the bare transaction hash, which the
  gate reads as JSON and refuses, and `agent.fetch` throws `retry_402`;
- a timeout, or a lost answer of `sendTransaction`, releases the claims of a transaction that may
  still land, so the same proof is then not answered with 409 but submitted again (the pool
  refuses it: `NullifiersSettleOnce` holds).

## 4. The proofs

Proved by TLAPS, for every value of the constants that satisfies the named assumptions:

- `TreeKnowsRecentRoots` (`PoolProofs`), from `LevelsAssumption` and `HistoryAssumption`:
  the roots accepted are exactly those of the last `ROOT_HISTORY_SIZE` trees. The property says
  which roots are in the ring but not where, so it is not inductive; `RingInv` gives each slot its
  age, the insertions since it was written, and determines its content from it. Moving on makes every
  slot one older except the one overwritten, whose age becomes zero. `KnownRootsAreRecent` then
  follows by naming the slot of the age a root must have.
- `PoolTypeCorrect`, `PoolNeverSpendsTwice`, `PoolSpendsOnlyLeaves`, `PoolAmountsInRange`,
  `PoolKnowsRecentRoots` (`PoolProofs`), with `FieldAssumption`, `AccountsAssumption` and
  `CommitmentsAssumption`: these invariants of the pool. `PoolInv` is their
  conjunction with `RingInv` and `TwoNullifiersPerCall`: that needs that exactly two leaves enter per call (the
  ring's invariant) and that the two numbers were absent and differ (the check and the circuit), and gives
  `EveryInputIsFresh` where numbers and residues are one (`CanonicalAreFresh`); spent
  notes stay in place because leaves are only appended; amounts stay in range by the circuit's range
  check, over known roots only.
- `PoolHonoursPolicy`: the action property `OnlyAdmittedKeysSpend`, from the checks of one call.
- `CallConservesValue`: in a state satisfying the invariant, the field equation a call's proof
  satisfies is the equation of integers: no combination of in-range amounts wraps.

- `FacilitatorTypeCorrect`, `FacilitatorClaimsAreExclusive`, `FacilitatorSuccessIsOnChain`,
  `FacilitatorSettlesOnce` (`FacilitatorProofs`), from `RequestsAssumption` (finitely many requests): the four
  invariants of the `facilitator` run, for any requests, any proofs and spellings and any number of crashes.
  `FacilitatorInv` adds what they rest on: a process that is down has no handler (so a boot meets no claim), a
  handler that has not sent has no transaction and no answer, a transaction that went through was the first to
  mark its numbers (the pool's check, `LandedOnce`, which no spelling gets round), the log names only such
  requests, and, until the first crash, what is settled is final in the cache, which is all that mock mode
  has. The account's sequence number is the number of transactions applied. Two more parts serve the
  refinement: mock mode and refused requests submit nothing, and the nullifiers of a request about to be
  answered success are final (`AppendingIsFinal`).
- `FacilitatorKeepsPromise`: the facilitator implements `Settlement`. Under the refinement mapping every
  step is a stutter or one abstract step: a claim or a refusal is `Post`, a transaction applied is `Pay`,
  the 200 `AnswerSuccess`, a failure or a crash `AnswerFailed`. The refusal is where the invariant
  works: an entry of the cache that stands in the way is held by an open request or spent in the pool.
- `RefusedIsUnpaid`, `LogHasNoRepeats`, `HandlersNeverGoBack` (`FacilitatorProofs`), from the same assumption:
  what a request may be told. A refusal (`already_spent`, `insolvent`, `proof_verification_failed`) comes before
  anything is submitted and is final, so it costs nothing then or later; the settlements log names a request
  once, over crashes; a handler moves through the places of the code in one direction, keeps its one answer
  and is never done without it. The last is the safety part of `SubmittedIsAnswered`: an answer can fail to come
  only because a handler stays where it is, not because it goes round. `AnswersInv` strengthens
  the first two with `DoneIsAnswered`; each action is shown to be one handler that waits (`Waits`), one that ends
  (`Ends`), or a crash.

- `PoolConservesValue`, `PoolIsSolvent`, `PoolNotesAreWithdrawable`, `PoolRefinesLedger` (`PoolProofs`), with
  `KeysAssumption` and `BlindingsAssumption` besides. The first is of every state: the two numbers a call
  marks are new to the map, so `Released` grows by their amounts, `Inserted` by those of the two leaves, and
  `CallConservesValue` relates the four to the tokens that moved. The others are under `Canonical`, and since
  the map only grows, what is canonical after a step was so before it (`CanonicalBefore`). The value of the
  unspent notes is followed as a sum, over all leaves, of what each still holds: marking a nullifier takes its
  note's amount off that sum, also when the note is a zero padding that was never inserted. A note, of any
  amount, can be withdrawn because solvency bounds it by a balance the token contract holds, and because its
  owner finds a padding whose nullifier is unused: a tree holds fewer notes than there are blindings
  (`BlindingsAssumption`). For the refinement the sums are split by key.
- `AgentTypes`, `OutcomesAreTold`, `CapturesArePaid`, `OnePaymentBesideZero`, `NotesAreKept` (`AgentProofs`),
  from `AgentAssumption`: for any number of agents, fetches, restarts and any notes file. `AgentInv` says
  for each stage of a fetch what its request's status is in `Settlement`, which only that fetch changes up
  to its answer, and that no nullifier is in two payments.
- `NotesPayOnce`, `CapturesNeverPay` (`AgentProofs`): what follows for the agents' money. Payments made with
  proofs take a note of the file each, although restarts forget the marks and two fetches may pick the same
  note, since the note's nullifier is in its bill. And an agent in fixture mode that finds an entry that
  capture mode left does not pay with it: that `CapturedFixturesAreSpent` is true of the file does not say so
  yet, because an agent replays what it read at its start and a fetch answers for the bill it posted.
  `CapturesInv` carries the fact from the file to what is about to be written, to what each agent has loaded,
  and to the bill of a fetch under way, which holds a spent nullifier from before its post (`HitsTell`), so
  `Pay` is closed to it and success with it.
- `AgentsKeepToSettlement`, `SettlementIsHonest` (`AgentProofs`): the other half of the contract between agents and
  facilitator. `FacilitatorKeepsPromise` says that the facilitator implements `Settlement`; every step of the
  agents is one that `Settlement` lets a client take, or none of its variables; and for any clients, agents or
  not, `Settlement` gives `AnswersAreTrue`: success means paid, an idle or refused request costs nothing, no
  nullifier is paid with twice.
- `NotesTypes`, `MarksAreTrue`, `ReceivedIsSpendable`, `NothingIsMissed` (`NotesProofs`), from
  `NotesAssumption`. In `NotesInv`, `ScanTells` ties what a scan is about to save to its key, `JobTells` the
  place a deposit or a spend found to the chain, and `NothingIsLost` says that a stored note that has no row and
  was not passed by is still `Ahead`: not below the watermark, and not below a running scan's top unless the scan
  has it to do. A note stored late is behind one of the two and passed by, or ahead of both.
- `ClientsAreBoth`, `ClientsTypes`, `ClientsAreSafe` (`NotesProofs`): the agents and the wallet side by side,
  the system of the `clients` run. Each component keeps its own specification, since a step of one leaves the
  variables of the other alone, so every safety property of that run holds of the composition, for every value
  of the constants.
- `WalletTypes`, `MembershipIsPrefix`, `HolesWereLost`, `WatermarkCovers`, `UnbrokenIsComplete`,
  `RebuildGivesTheStore` (`WalletSyncProofs`), from `ReaderAssumption`: for any chain, windows and retention
  (neither has to be the larger), chunk, page and tree, over any number of tabs, syncs, resets, rebuilds and
  failures. `SyncInv` turns on three notions. A leaf is `Accounted` for when it is stored or out of reach (cut
  from a page, expired, or older than a window a sync took), and stays so, because what expires does not come
  back. A store is `Sound` while no reset took leaves from under a sync; without that, nothing is said of it
  until the next reset is over. And `PassedTells` ties the position of the reader to the store: every leaf
  before it is accounted for or on the page in hand. The watermark and the flags are then promises about two
  records, the metadata saved and the metadata the running sync will save (`MetaTells`), which is why a
  failure in one contract's phase cannot spoil the other's. `RebuildTells` is the tree put together with what
  the running rebuild has left.
- `LosslessPoolTree` (`WalletSyncProofs`): what the pool tree is worth to the wallet. While every leaf out of
  reach was stored in time and no reset was cut short (`NothingIsLost`), the tree a rebuild leaves is the
  contract's tree after some insertion, each leaf in its place, and holds every leaf up to the saved
  watermark. It joins the store without holes, the honest watermark and the rebuilt tree, none of which says
  it alone.
- `SyncNeverGoesBack` (`WalletSyncProofs`): the safety part of `SyncEnds`. What is left of a sync is its
  phases, the ledgers still to read, and the leaves on the page and in its rebuild, compared in this order.
  Each is a natural number (`LeftIsCounted`); every step of the sync makes the whole smaller, and nothing else
  in the tab or on the chain makes it larger (`SyncGetsOn`), though ledgers close and the start is moved up
  meanwhile. What remains to TLC is that the fair steps are enabled until the sync is over.

`InductionTheorems` holds what these rest on: induction over the subsets of a finite set and the least
element of a set of numbers, each stated with a set (of the subsets that have the property) where the
library has an operator parameter, and with them the laws of `SumFunctionOnSet`: order does not matter,
one element more adds its value, a sum by classes is the sum of the classes' sums.

- `TypeCorrect`, `RootDependsOnEntries`, `ContractIsAMap` (`AspNonMembershipProofs`), from
  `BitsAssumption` and `SmtAssumption`: for keys of any number of bits and any sequence of inserts,
  updates and deletes. `T(S, i)` is the tree of a set `S` of entries below level `i`; the inductive
  invariant `TreeInv` says that the entries are a map and the root is `T(Entries, 0)`. Two trees are the same
  only if their entries are (`TreesTellEntries`, by downward induction over the levels), and so are trees of
  different levels (`TreesTellLevels`): that is what a hash without collisions gives. `FindCases` tells
  what `find_key` ends at (the key, another key on its way, an empty branch), `ClimbIs` what rebuilding
  a path over other entries gives, and `InsertBuilds`, `UpdateBuilds` and `DeleteBuilds` show for each
  layout, the chain of empty branches down to where two keys part and the promotion of a sibling
  leaf included, that the new root is the tree of the new entries. The refinement to
  `BlockedKeys` then only reads the entries as a map.
- `StoreStaysComplete`, `AbsencesStayProvable`: the store keeps every node under the root, and a proof handed
  out by `find_key` is accepted. `ForeignNodes` says that a node an operation removes is on the key's old path
  and in no other branch, so what it removes is gone from the new tree (`OldNodesGo`, `LostNodesGo`). Both are
  of `Spec`, with no restriction on the admin, and say exactly what the code gives. The first is a law of
  steps: from a whole store a call leads to a whole store if and only if it is not `SameUpdate`, the update of
  a key to the value it has (`SameUpdateLoses` is one direction, `TreeStep` and `SameEntries` the other). The
  second is of every state with a whole store and no entry of value 0. The runs `non_membership_update` and
  `non_membership_zero` show what happens in the others; `trees` leaves such updates out.

- `ProverKeepsTheTree` (`AspNonMembershipProofs`): the same of the prover's sparse tree, in `TreesSpec`. Its
  inductive invariant `ClientInv` says that the root is `T(E, 0)` of some map `E` and that `db` has its
  nodes; `InsertBuilds` and `UpdateBuilds` are stated of a search in any such tree, so they serve both.
  Here nothing is removed, so no restriction on updates is needed. `FoundAreEntries` reads `E` back from
  what `find` returns, and `PaddingIsCut` shows that the empty branches `get_proof` adds are the ones cut
  off before a proof is climbed, since the last sibling above a path's end is never empty.

- `RootsHoldMembers`, `RingRefinesTree`, `WalletKeepsTheTree` (`TreesProofs`), from `TreesAssumption` (depths
  of 1 to 32, as the contracts enforce; an inserted leaf is not the empty one): the trees that only grow.
  All are compared with one tree, whose node `j` of level `l` over the leaves `w` is `Node(w, l, j)`; a
  node depends on the leaves under it only (`SameLeaves`). The inductive invariant of an incremental tree is
  `Holds`: where the path of the next leaf goes right, the subtree kept is the left sibling. `CarryIs`
  shows that the loop then meets the nodes of the new leaf's path, right siblings being empty, and
  `FilledHolds` that what it stores is right for the leaf after. One pair of lemmas serves the
  membership contract (one leaf, from level 0) and the pool (two, from level 1). For the refinement the
  leaves are carried beside the state (`TreeIs(s)`): the newest root tells them (`LeavesOfRoot`), and an older
  root tells their number because no inserted leaf is empty (`RootsTellSizes`). For the wallet,
  `KeepsNodesOf` says that it stores all nodes of the leaves it has seen: an insertion changes the path
  of the new leaf (`NewPathIs`) and no node beside it (`OthersStay`). The sides it puts into a proof are the
  bits of the place (`SidesAre`), so the circuit climbs the same path (`CircuitRootIs`).

Only model-checked: liveness, `SubmittedIsAnswered` and `SyncEnds`. A proof from fairness needs ENABLED, which the
provers do not treat. Their safety parts are proved, as said above (`HandlersNeverGoBack`, `SyncNeverGoesBack`):
neither can fail by going in circles. That the fair action is enabled until the end is what the runs add.

## 5. Not modelled, and why

Cryptography (Poseidon2, Groth16, note encryption, key derivation): assumed collision free and
sound; a proof is its statement. Fees and the expiry of contract storage entries: they are tended
by hand (`RUNBOOK.md`). `/verify`, `/health`, `/settlements` and `/supported` change no state.
The 400 answers of `/settle` precede any state. Two settles that read the same sequence number make
one of them fail, which the model shows; the wording of errors is reduced to their kind, and errors
thrown by `prepareTransaction` are never `SubmitError`s, so they are all `pool_rejected_unknown`.
`/verify` decides nothing that `/settle` relies on; the gate takes its answer, and `Agent` leaves that
answer open. Creation of an organisation (`org.js`) inserts a leaf on chain and then stores it, once and by
hand; registry, note tags and export copy data between stores. Transfers and the other forms save
outputs the way deposits do; import and deletion of single notes, and the list of notes a page shows,
are left out of `Notes`.

Most of the repository's Rust lines are outside any model: tables of Poseidon2 constants (`poseidon2`,
`soroban-utils/src/constants.rs`), the build of the circuits (`circuits/build.rs`), key and proof
encodings, command-line tools and tests. They compute one value from one input and keep no state; what they
stand for is the hash without collisions and the predicate `Circuit`. The state machines of the system are
the contracts, the TypeScript services and the browser's JavaScript, and those are modelled.

User interface, demos, landing page, the treasury stub, tools and scripts hold no protocol.

## 6. Plan

Done: the pool and its tree, the policy contracts, the facilitator and what it promises, the agents and the
gate, the wallet's sync, its notes and deposits, the trees outside the chain.

Left, in this order:

1. `Notes` on the stores of `WalletSync`, with transfers, several inputs, and the page's list of notes.
2. Creation of an organisation, with a tab closed between the leaf on chain and the local write.
