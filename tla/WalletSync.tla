----------------------------- MODULE WalletSync -----------------------------
(***************************************************************************)
(* The wallet's copy of the pool's commitments and of the ASP membership   *)
(* leaves: sync-controller.js, pool-store.js and asp-membership-store.js   *)
(* over the event reader of stellar.js, in one browser tab.  The leaf of   *)
(* index i is the number i + 1.                                            *)
(*                                                                         *)
(* JavaScript switches at an await, so an action is the code between two   *)
(* awaits; the writes of one event (leaf, encrypted output) count as one.  *)
(* The other events a pool page carries (nullifiers, public keys) only     *)
(* take room in the page.                                                  *)
(***************************************************************************)
EXTENDS Naturals, FiniteSets, FiniteSetsExt, Functions, Sequences

CONSTANTS
  Windows,      \* what the wallet may take for the RPC's retention, in ledgers
  Retention,    \* ledgers whose events the RPC really keeps
  ChunkSize,    \* CHUNK_SIZE, ledgers asked for at a time
  PageRoom,     \* leaf events in a full page, beside a contract's other events
  TreeCapacity  \* leaves a MerkleTree holds, 2^TREE_DEPTH, which "must match
                \*   circuit and contract deployments" (state/utils.js)

ASSUME ReaderAssumption ==
  /\ Windows \cup {Retention, ChunkSize, TreeCapacity} \subseteq Nat \ {0}
  /\ PageRoom \in [{"pool", "membership"} -> Nat \ {0}]

VARIABLES
  ledger,       \* the latest closed ledger
  log,          \* per contract, the ledger of each leaf's event
  stored,       \* IndexedDB: pool_leaves, asp_membership_leaves
  meta,         \* IndexedDB: sync_metadata
  wallet,       \* "closed", "ready", or "aborted": initialize() threw
  tree,         \* merkleTree of each store, the leaves in order
  sync,         \* the run of startSync, if there is one
  rebuilding,   \* leaves each running rebuildTree still has to insert
  clearing,     \* what a running clearAll clears next, if there is one
  cut,          \* history: leaves left out of a full page, till they are stored
  passed,       \* history: leaves a sync's window left out, till they are stored
  mixed,        \* history: the tree is not of one rebuild and the store it read
  undercut      \* history: clearAll is "underway", or was left there by a
                \* closed tab; or it "met" a running sync

chainVars == <<ledger, log>>
dbVars == <<stored, meta>>
syncVars == <<sync, rebuilding>>
tabVars == <<wallet, tree, syncVars, clearing>>
history == <<cut, passed, mixed, undercut>>
vars == <<chainVars, dbVars, tabVars, history>>

Stores == {"pool", "membership"}
Leaves(s) == DOMAIN log[s]
Oldest == IF ledger > Retention THEN ledger - Retention + 1 ELSE 1

\* MerkleTree.insert, which throws when the tree is full.
HasRoom(s) == Len(tree[s]) < TreeCapacity
Insert(s, leaf) == tree' = [tree EXCEPT ![s] = Append(@, leaf)]
Put(s, leaf) ==
  /\ stored' = [stored EXCEPT ![s] = @ \cup {leaf}]
  /\ cut' = [cut EXCEPT ![s] = @ \ {leaf}]
  /\ passed' = [passed EXCEPT ![s] = @ \ {leaf}]

\* Leaves in the order of their index, as an IndexedDB cursor reads them.
InOrder(leaves) ==
  CHOOSE seq \in [1..Cardinality(leaves) -> leaves] :
    Range(seq) = leaves /\ \A i, j \in DOMAIN seq : i < j => seq[i] < seq[j]

\* createDefaultMetadata.  "counted" is history: the last membership sync
\* could compare its count with the contract's.
NoMeta == [last |-> [s \in Stores |-> 0], broken |-> [s \in Stores |-> FALSE],
           counted |-> FALSE]

NoSync == [phase |-> "idle", from |-> 0, start |-> 0, latest |-> 0,
           page |-> <<>>, skip |-> 0, meta |-> NoMeta]

NoRebuild == [r \in {"sync", "ui"} |-> <<>>]
RebuildRuns == rebuilding # NoRebuild

Init ==
  /\ ledger = 1
  /\ log = [s \in Stores |-> <<>>]
  /\ stored = [s \in Stores |-> {}]
  /\ meta = NoMeta
  /\ wallet = "closed"
  /\ tree = [s \in Stores |-> <<>>]
  /\ sync = NoSync
  /\ rebuilding = NoRebuild
  /\ clearing = "none"
  /\ cut = [s \in Stores |-> {}]
  /\ passed = [s \in Stores |-> {}]
  /\ mixed = FALSE
  /\ undercut = "no"

-----------------------------------------------------------------------------
\* A ledger closes: each pool transaction in it added two leaves, each
\* insert_leaf of the membership contract's admin one, as long as they fit.
CloseLedger(commitments, members) ==
  LET new == [pool |-> commitments, membership |-> members]
  IN  /\ \A s \in Stores : Len(log[s]) + new[s] <= TreeCapacity
      /\ ledger' = ledger + 1
      /\ log' = [s \in Stores |-> log[s] \o [i \in 1..new[s] |-> ledger + 1]]
      /\ UNCHANGED <<dbVars, tabVars, history>>

\* The events of a contract in a range of ledgers, in order; one request
\* returns the first pageSize of them, with PageRoom[s] leaves.
Events(s, first, last) == InOrder({n \in Leaves(s) : log[s][n] \in first..last})
Page(s, events) == SubSeq(events, 1, Min({PageRoom[s], Len(events)}))
Beyond(s, events) == Range(events) \ Range(Page(s, events))

-----------------------------------------------------------------------------
\* initialize(): the pool tree takes the leaves as they come, the membership
\* store gives up at the first hole and initialize() throws.
Contiguous(leaves) == leaves = 1..Cardinality(leaves)
BeforeHole(leaves) == {n \in leaves : 1..n \subseteq leaves}

OpenTab ==
  /\ wallet = "closed"
  /\ wallet' = IF Contiguous(stored["membership"]) THEN "ready" ELSE "aborted"
  /\ tree' = [pool |-> InOrder(stored["pool"]),
              membership |-> InOrder(BeforeHole(stored["membership"]))]
  /\ mixed' = FALSE
  /\ UNCHANGED <<chainVars, dbVars, syncVars, clearing, cut, passed, undercut>>

CloseTab ==
  /\ wallet # "closed"
  /\ wallet' = "closed"
  /\ tree' = [s \in Stores |-> <<>>]
  /\ sync' = NoSync
  /\ rebuilding' = NoRebuild
  /\ clearing' = "none"
  /\ mixed' = FALSE
  /\ UNCHANGED <<chainVars, dbVars, cut, passed, undercut>>

\* clearAll(): the pool store, then the membership store, then the metadata,
\* whether or not a sync is running.  A store is cleared once the cursors
\* over it are through.  The membership tree is reset with its store; the
\* pool's comes two more clears later, and what happens meanwhile is lost to it.
ClearStore(s) ==
  /\ stored' = [stored EXCEPT ![s] = {}]
  /\ cut' = [cut EXCEPT ![s] = {}]
  /\ passed' = [passed EXCEPT ![s] = {}]
  /\ undercut' = IF sync # NoSync THEN "met"
                 ELSE IF clearing = "none" THEN "underway" ELSE undercut
  /\ UNCHANGED <<chainVars, meta, wallet, syncVars>>

ResetTree(s) == tree' = [tree EXCEPT ![s] = <<>>]

ClearPool ==
  /\ wallet # "closed" /\ clearing = "none" /\ ~RebuildRuns
  /\ ClearStore("pool")
  /\ clearing' = "pool tree"
  /\ mixed' = TRUE
  /\ UNCHANGED tree

ResetPoolTree ==
  /\ clearing = "pool tree"
  /\ ResetTree("pool")
  /\ clearing' = "membership"
  /\ mixed' = (stored["pool"] # {} \/ RebuildRuns)
  /\ UNCHANGED <<chainVars, dbVars, wallet, syncVars, cut, passed, undercut>>

ClearMembership ==
  /\ clearing = "membership"
  /\ ClearStore("membership")
  /\ ResetTree("membership")
  /\ clearing' = "metadata"
  /\ UNCHANGED mixed

ClearMetadata ==
  /\ clearing = "metadata"
  /\ meta' = NoMeta
  /\ clearing' = "none"
  /\ undercut' = IF sync = NoSync /\ undercut = "underway" THEN "no" ELSE "met"
  /\ UNCHANGED <<chainVars, stored, wallet, tree, syncVars, cut, passed, mixed>>

\* Mutant: the leaves are inserted on top of what the tree holds.
StartRebuildOnTop(r) ==
  /\ UNCHANGED tree
  /\ rebuilding' = [rebuilding EXCEPT ![r] = InOrder(stored["pool"])]
  /\ mixed' = RebuildRuns

\* rebuildTree: an empty tree, then the stored leaves from a cursor.  Both
\* rebuilds insert into the module's one tree.
StartRebuild(r) ==
  /\ tree' = [tree EXCEPT !["pool"] = <<>>]
  /\ rebuilding' = [rebuilding EXCEPT ![r] = InOrder(stored["pool"])]
  /\ mixed' = RebuildRuns

RebuildStep(r) ==
  /\ rebuilding[r] # <<>> /\ HasRoom("pool")
  /\ Insert("pool", Head(rebuilding[r]))
  /\ rebuilding' = [rebuilding EXCEPT ![r] = Tail(@)]
  /\ UNCHANGED <<chainVars, dbVars, wallet, sync, clearing, history>>

\* Two rebuilds at once can fill the tree: the one that finds it full is
\* rejected, and a sync's rebuild takes the sync with it.
RebuildFails(r) ==
  /\ rebuilding[r] # <<>> /\ ~HasRoom("pool")
  /\ rebuilding' = [rebuilding EXCEPT ![r] = <<>>]
  /\ sync' = IF r = "sync" THEN NoSync ELSE sync
  /\ UNCHANGED <<chainVars, dbVars, wallet, tree, clearing, history>>

\* rebuildPoolTree(), which the pages call after startSync returned, also
\* when it returned at once because another sync is running.
RebuildPoolTree ==
  /\ wallet = "ready" /\ rebuilding["ui"] = <<>>
  /\ StartRebuild("ui")
  /\ UNCHANGED <<chainVars, dbVars, wallet, sync, clearing, cut, passed, undercut>>

-----------------------------------------------------------------------------
\* checkSyncGap: the larger of the two watermarks against the window w.  The
\* window is detected again when it is an hour old or on demand, and is 24
\* hours when that fails: another sync may find another one.
GapIsBroken(m, w) ==
  LET last == Max({m.last[s] : s \in Stores})
  IN  last # 0 /\ ledger > last + w

SyncIsBroken(w) ==
  /\ wallet = "ready" /\ sync.phase = "idle"
  /\ GapIsBroken(meta, w)
  /\ meta' = [meta EXCEPT !.broken = [s \in Stores |-> TRUE]]
  /\ UNCHANGED <<chainVars, stored, tabVars, history>>

\* Every sync reads the whole window again, whatever the watermarks say.
FirstLedger(w) == IF ledger > w THEN ledger - w + 1 ELSE 1
Before(s, first) == {n \in Leaves(s) \ stored[s] : log[s][n] < first}

StartSync(w) ==
  /\ wallet = "ready" /\ sync.phase = "idle"
  /\ ~GapIsBroken(meta, w)
  /\ sync' = [phase |-> "pool", from |-> FirstLedger(w), start |-> FirstLedger(w),
              latest |-> ledger, page |-> <<>>, skip |-> 0, meta |-> meta]
  /\ passed' = [s \in Stores |-> passed[s] \cup Before(s, FirstLedger(w))]
  /\ UNCHANGED <<chainVars, dbVars, wallet, tree, rebuilding, clearing, cut, mixed,
                 undercut>>

\* A phase of startSync and the one after it.
Moved(phase) == [sync EXCEPT !.phase = phase, !.page = <<>>, !.skip = 0,
                              !.start = sync.from]
AfterFailure == Moved(IF sync.phase = "pool" THEN "membership" ELSE "save")

Fetching(s) == sync.phase = s /\ sync.page = <<>>
Asking(s) == Fetching(s) /\ sync.start <= sync.latest

\* Mutant: one ledger too low, which the RPC refuses as well.
ClampedTooLow == Oldest - 1

\* The start of the range slid out of the RPC's retention: go on from the
\* oldest ledger it has.
Clamped == Oldest
ClampStart(s) ==
  /\ Asking(s) /\ sync.start < Oldest
  /\ sync' = [sync EXCEPT !.start = Clamped]
  /\ UNCHANGED <<chainVars, dbVars, wallet, tree, rebuilding, clearing, history>>

\* One request per chunk: what a full page leaves out is not asked for again.
ChunkEnd == Min({sync.latest, sync.start + ChunkSize - 1})
NextChunk == ChunkEnd + 1

FetchChunk(s) ==
  LET events == Events(s, sync.start, ChunkEnd)
  IN  /\ Asking(s) /\ sync.start >= Oldest
      /\ sync' = [sync EXCEPT !.page = Page(s, events), !.start = NextChunk,
                              !.skip = IF s = "membership" THEN Len(tree[s]) ELSE 0]
      /\ cut' = [cut EXCEPT ![s] = @ \cup (Beyond(s, events) \ stored[s])]
      /\ UNCHANGED <<chainVars, dbVars, wallet, tree, rebuilding, clearing, passed,
                     mixed, undercut>>

\* Mutant: a chunk whose request fails is passed over.
FetchPassesOver(s) ==
  /\ Asking(s)
  /\ sync' = [sync EXCEPT !.start = NextChunk]
  /\ UNCHANGED <<chainVars, dbVars, wallet, tree, rebuilding, clearing, history>>

\* A request fails: the stores keep what earlier pages brought, the
\* watermark stays, and the sync goes on with the next contract.
FetchFails(s) ==
  /\ Asking(s)
  /\ sync' = AfterFailure
  /\ UNCHANGED <<chainVars, dbVars, wallet, tree, rebuilding, clearing, history>>

-----------------------------------------------------------------------------
\* processNewCommitment: store under the index, insert at the end, again
\* for a leaf that was read before; a full tree fails the fetch.
ProcessNewCommitment ==
  LET leaf == Head(sync.page)
  IN  /\ sync.phase = "pool" /\ sync.page # <<>> /\ ~RebuildRuns
      /\ Put("pool", leaf)
      /\ IF HasRoom("pool")
         THEN Insert("pool", leaf) /\ sync' = [sync EXCEPT !.page = Tail(@)]
         ELSE UNCHANGED tree /\ sync' = AfterFailure
      /\ mixed' = TRUE
      /\ UNCHANGED <<chainVars, meta, wallet, rebuilding, clearing, undercut>>

\* Mutants: where the next sync would start; the ledger that is latest now.
WatermarkIsNextStart == sync.start
WatermarkIsNow == ledger

\* All pages of a contract are read: its watermark is the ledger that was
\* the latest when the sync began.
Watermark == sync.latest
Fetched(s, phase) ==
  /\ Fetching(s) /\ sync.start > sync.latest
  /\ sync' = [Moved(phase) EXCEPT !.meta.last[s] = Watermark,
                                  !.meta.broken[s] = FALSE]

PoolFetched ==
  /\ Fetched("pool", "rebuild")
  /\ StartRebuild("sync")
  /\ UNCHANGED <<chainVars, dbVars, wallet, clearing, cut, passed, undercut>>

Rebuilt ==
  /\ sync.phase = "rebuild" /\ rebuilding["sync"] = <<>>
  /\ sync' = Moved("membership")
  /\ UNCHANGED <<chainVars, dbVars, wallet, tree, rebuilding, clearing, history>>

\* asp-membership-store: processEvents skips what the tree had when the page
\* came, and processLeafAdded stores the leaf before it throws at a hole.
NextLeaf == Len(tree["membership"]) + 1
\* Mutant: no order check.
TakesAnyLeaf(n) == HasRoom("membership")

TakesLeaf(n) == n = NextLeaf /\ HasRoom("membership")

ProcessLeafAdded ==
  LET leaf == Head(sync.page)
      done == [sync EXCEPT !.page = Tail(@)]
  IN  /\ sync.phase = "membership" /\ sync.page # <<>>
      /\ IF leaf <= sync.skip
         THEN UNCHANGED <<stored, cut, passed, tree>> /\ sync' = done
         ELSE /\ Put("membership", leaf)
              /\ IF TakesLeaf(leaf)
                 THEN Insert("membership", leaf) /\ sync' = done
                 ELSE UNCHANGED tree /\ sync' = AfterFailure
      /\ UNCHANGED <<chainVars, meta, wallet, rebuilding, clearing, mixed, undercut>>

MembershipFetched ==
  /\ Fetched("membership", "count")
  /\ UNCHANGED <<chainVars, dbVars, wallet, tree, rebuilding, clearing, history>>

\* Mutant: the next index taken for the last one.
MoreLeavesAreMissing == Cardinality(stored["membership"]) + 1 < Len(log["membership"])

\* The stored leaves are counted against the contract's next index.
LeavesAreMissing == Cardinality(stored["membership"]) < Len(log["membership"])

CountMembers ==
  /\ sync.phase = "count"
  /\ \/ sync' = [Moved("save") EXCEPT !.meta.broken["membership"] = LeavesAreMissing,
                                      !.meta.counted = TRUE]
     \/ sync' = [Moved("save") EXCEPT !.meta.counted = FALSE]
  /\ UNCHANGED <<chainVars, dbVars, wallet, tree, rebuilding, clearing, history>>

\* Saved and reported complete, also when a fetch failed.
SaveMetadata ==
  /\ sync.phase = "save"
  /\ meta' = sync.meta
  /\ sync' = NoSync
  /\ UNCHANGED <<chainVars, stored, wallet, tree, rebuilding, clearing, history>>

-----------------------------------------------------------------------------
SyncStep ==
  \/ \E s \in Stores : ClampStart(s) \/ FetchChunk(s)
  \/ ProcessNewCommitment
  \/ PoolFetched
  \/ Rebuilt
  \/ ProcessLeafAdded
  \/ MembershipFetched
  \/ CountMembers
  \/ SaveMetadata

WalletNext ==
  \/ OpenTab
  \/ CloseTab
  \/ ClearPool
  \/ ResetPoolTree
  \/ ClearMembership
  \/ ClearMetadata
  \/ RebuildPoolTree
  \/ \E r \in {"sync", "ui"} : RebuildStep(r) \/ RebuildFails(r)
  \/ \E w \in Windows : SyncIsBroken(w) \/ StartSync(w)
  \/ SyncStep
  \/ \E s \in Stores : FetchFails(s)

Next == WalletNext \/ \E txs, m \in Nat : CloseLedger(2 * txs, m)

Spec == Init /\ [][Next]_vars

\* What the tab promises while it stays open: a promise of IndexedDB or of
\* the RPC settles, with a result or an error, and a write waits only for the
\* cursors that were opened before it.
Fairness ==
  /\ WF_vars(SyncStep)
  /\ SF_vars(ProcessNewCommitment)
  /\ \A r \in {"sync", "ui"} : WF_vars(RebuildStep(r) \/ RebuildFails(r))

-----------------------------------------------------------------------------
\* The types of the wallet's databases, trees and sync run.
TypeOK ==
  /\ \A s \in Stores : /\ stored[s] \subseteq Leaves(s)
                       /\ cut[s] \cup passed[s] \subseteq Leaves(s)
                       /\ Range(tree[s]) \subseteq Leaves(s)
                       /\ meta.last[s] <= ledger
  /\ wallet \in {"closed", "ready", "aborted"}
  /\ sync.phase \in {"idle", "pool", "rebuild", "membership", "count", "save"}
  /\ wallet # "ready" => sync = NoSync /\ rebuilding = NoRebuild
  /\ sync.phase # "idle" => sync.latest <= ledger

\* The RPC no longer has the leaf's event, left it out of a full page, or it
\* was older than the window some sync took.
Unreachable(s, n) == log[s][n] < Oldest \/ n \in cut[s] \/ n \in passed[s]

\* The membership tree, whose root and paths go into proofs, is at every
\* moment the contract's tree after some insertion: whatever pages were cut,
\* fetches failed, tabs closed or stores reset, and whatever a sync reads
\* twice (asp-membership-store.js, processEvents and init).
MembershipTreeIsPrefix ==
  /\ Len(tree["membership"]) <= Len(log["membership"])
  /\ \A i \in DOMAIN tree["membership"] : tree["membership"][i] = i

\* A hole in a store is a leaf the RPC did not give: failures, crashes and
\* interrupted syncs leave none (fetchAllContractEvents, the two stores).
HolesAreLosses ==
  \A s \in Stores : \A j \in stored[s] : \A i \in 1..j :
    i \notin stored[s] => Unreachable(s, i) \/ undercut # "no"

\* A saved watermark covers what is below it: a pool leaf at or under it is
\* stored, unless the RPC did not give it (sync-controller.js, startSync).
WatermarkIsHonest ==
  \A n \in Leaves("pool") :
    log["pool"][n] <= meta.last["pool"] /\ n \notin stored["pool"]
      => Unreachable("pool", n) \/ undercut # "no"

\* syncBroken of the membership store means what getSyncStatus shows: unless
\* it is set, every leaf up to the watermark is stored, the cut and the
\* expired ones too (sync-controller.js, the count against nextIndex).
UnbrokenMeansAllMembers ==
  meta.counted /\ ~meta.broken["membership"] /\ undercut = "no" =>
    {n \in Leaves("membership") : log["membership"][n] <= meta.last["membership"]}
      \subseteq stored["membership"]

\* The pool tree is the stored leaves in order after a rebuild that no other
\* rebuild, insertion or clear met, and on the way there (pool-store.js,
\* rebuildTree).
RebuiltTreeIsTheStore ==
  wallet = "ready" /\ ~mixed =>
    tree["pool"] \o rebuilding["sync"] \o rebuilding["ui"] = InOrder(stored["pool"])

\* startSync ends, so isSyncing is reset: chunks, the clamp to the oldest
\* ledger and the rebuild all come to an end while ledgers close.
SyncEnds == sync.phase # "idle" ~> sync.phase = "idle"

\* "Handles cursor-based pagination to retrieve events beyond a single page"
\* (stellar.js, fetchAllContractEvents): no event is left behind.
PagesAreFollowed == \A s \in Stores : cut[s] = {}
============================================================================
