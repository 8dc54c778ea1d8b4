-------------------------- MODULE WalletSyncProofs --------------------------
(***************************************************************************)
(* The wallet's copy of the events, proved for every chain, retention,     *)
(* chunk and page size, over any number of tabs, syncs, resets, rebuilds   *)
(* and failures: what is missing was not to be had, and the flags and the  *)
(* watermark say so.                                                       *)
(***************************************************************************)
EXTENDS WalletSync, InductionTheorems, SequenceTheorems

Metas == [last : [Stores -> Nat], broken : [Stores -> BOOLEAN], counted : BOOLEAN]
Syncs == [phase : {"idle", "pool", "rebuild", "membership", "count", "save"},
          from : Nat, start : Nat, latest : Nat, page : Seq(Nat), skip : Nat, meta : Metas]

Running == sync # NoSync

Stages == {"none", "pool tree", "membership", "metadata"}

\* The chain, the databases and the tab.
ChainTyped ==
  /\ ledger \in Nat \ {0}
  /\ log \in [Stores -> Seq(Nat)]
  /\ \A s \in Stores :
       /\ Len(log[s]) <= TreeCapacity
       /\ \A n \in Leaves(s) : log[s][n] \in 1 .. ledger
       /\ \A i, j \in Leaves(s) : i < j => log[s][i] <= log[s][j]

DataTyped ==
  /\ stored \in [Stores -> SUBSET Nat] /\ cut \in [Stores -> SUBSET Nat]
  /\ passed \in [Stores -> SUBSET Nat]
  /\ \A s \in Stores : /\ stored[s] \subseteq Leaves(s) /\ cut[s] \subseteq Leaves(s)
                       /\ passed[s] \subseteq Leaves(s)
  /\ meta \in Metas /\ \A s \in Stores : meta.last[s] <= ledger

TabTyped ==
  /\ tree \in [Stores -> Seq(Nat)] /\ rebuilding \in [{"sync", "ui"} -> Seq(Nat)]
  /\ Range(tree["pool"]) \subseteq Leaves("pool")
  /\ \A r \in {"sync", "ui"} : Range(rebuilding[r]) \subseteq Leaves("pool")
  /\ wallet \in {"closed", "ready", "aborted"} /\ clearing \in Stages
  /\ wallet # "ready" => sync = NoSync /\ rebuilding = NoRebuild
  /\ mixed \in BOOLEAN /\ undercut \in {"no", "underway", "met"}
  /\ clearing # "none" => undercut # "no"

\* A sync reads ledgers that were closed when it began, a page at a time, in
\* order, from the first ledger of the window or a later one.
SyncTells ==
  /\ sync \in Syncs
  /\ sync.phase = "idle" => sync = NoSync
  /\ \A s \in Stores : sync.meta.last[s] <= ledger
  /\ sync.start <= ledger + 1
  /\ Running => sync.latest <= ledger /\ sync.from <= ledger

PageTells ==
  /\ sync.page # << >> => sync.phase \in Stores
  /\ \A i \in DOMAIN sync.page :
       /\ sync.page[i] \in Leaves(sync.phase)
       /\ log[sync.phase][sync.page[i]] < sync.start
       /\ \A j \in DOMAIN sync.page : i < j => sync.page[i] < sync.page[j]

\* The membership tree is an initial segment of the contract's leaves.
MembersTell ==
  \A i \in DOMAIN tree["membership"] :
    tree["membership"][i] = i /\ i \in stored["membership"]

\* A store that no clearAll took from under a sync, now or before its last
\* clearing.
Sound(s) ==
  \/ undercut = "no"
  \/ undercut = "underway" /\ clearing = "metadata"
  \/ undercut = "underway" /\ clearing \in {"pool tree", "membership"} /\ s = "pool"

\* The leaf is stored, or the RPC did not give it or gives it no more.
Accounted(s, n) == n \in stored[s] \/ Unreachable(s, n)

NoHoles(s) ==
  Sound(s) => \A j \in stored[s], i \in Leaves(s) : i < j => Accounted(s, i)

\* What a sync has read is stored, on the page or out of reach, and so is
\* what came before its range.
PassedTells(s) ==
  Sound(s) =>
    /\ \A n \in Leaves(s) : log[s][n] < sync.from => Accounted(s, n)
    /\ sync.phase = s => \A n \in Leaves(s) :
         log[s][n] < sync.start => Accounted(s, n) \/ n \in Range(sync.page)
    /\ sync.phase = s /\ s = "membership" => 1 .. sync.skip \subseteq stored[s]

\* What watermark and flags promise, as saved and as about to be saved.
Honest(m) ==
  \A n \in Leaves("pool") : log["pool"][n] <= m.last["pool"] => Accounted("pool", n)

Complete(m) ==
  m.counted /\ ~m.broken["membership"] =>
    \A n \in Leaves("membership") :
      log["membership"][n] <= m.last["membership"] => n \in stored["membership"]

MetaTells ==
  undercut = "no" =>
    /\ Honest(meta) /\ Complete(meta)
    /\ Running => Honest(sync.meta)
    /\ Running /\ sync.phase # "count" => Complete(sync.meta)

\* A rebuild under way that nothing met, and its end.
RebuildTells ==
  wallet = "ready" /\ ~mixed =>
    /\ tree["pool"] \o rebuilding["sync"] \o rebuilding["ui"] = InOrder(stored["pool"])
    /\ rebuilding["sync"] = << >> \/ rebuilding["ui"] = << >>

SyncInv ==
  /\ ChainTyped /\ DataTyped /\ TabTyped /\ SyncTells /\ PageTells /\ MembersTell
  /\ \A s \in Stores : NoHoles(s) /\ PassedTells(s)
  /\ MetaTells /\ RebuildTells

---------------------------------------------------------------------------
(***************************************************************************)
(* Leaves in order.                                                        *)
(***************************************************************************)

Ascends(seq, S) ==
  /\ seq \in [1 .. Cardinality(S) -> S] /\ Range(seq) = S
  /\ \A i, j \in DOMAIN seq : i < j => seq[i] < seq[j]

\* A set of leaves can be put in order: the least first, then the rest.
LEMMA LeastFirst ==
  ASSUME NEW T, IsFiniteSet(T), T \subseteq Nat, NEW m \in T, \A n \in T : m <= n,
         NEW rest, Ascends(rest, T \ {m})
  PROVE  \E seq : Ascends(seq, T)
  <1> DEFINE k == Cardinality(T \ {m})
             seq == [i \in 1 .. k + 1 |-> IF i = 1 THEN m ELSE rest[i - 1]]
  <1>1. k \in Nat /\ Cardinality(T) = k + 1
    <2>1. IsFiniteSet(T \ {m}) /\ Cardinality(T \ {m}) = Cardinality(T) - 1
      BY FS_RemoveElement
    <2>2. Cardinality(T) \in Nat /\ Cardinality(T \ {m}) \in Nat
      BY <2>1, FS_CardinalityType
    <2>3. QED
      BY <2>1, <2>2
  <1>2. rest \in [1 .. k -> T \ {m}] /\ DOMAIN rest = 1 .. k
    BY DEF Ascends
  <1>3. \A i \in 1 .. k + 1 : i # 1 => i - 1 \in 1 .. k
    BY <1>1
  <1>4. seq \in [1 .. k + 1 -> T]
    <2>1. \A i \in 1 .. k + 1 : (IF i = 1 THEN m ELSE rest[i - 1]) \in T
      BY <1>2, <1>3
    <2>2. QED
      BY <2>1
  <1>5. \A i, j \in 1 .. k + 1 : i < j => seq[i] < seq[j]
    <2> SUFFICES ASSUME NEW i \in 1 .. k + 1, NEW j \in 1 .. k + 1, i < j
                 PROVE  seq[i] < seq[j]
      OBVIOUS
    <2>1. j # 1 /\ j - 1 \in 1 .. k /\ seq[j] = rest[j - 1]
      BY <1>1, <1>3
    <2>2. CASE i = 1
      <3>1. seq[i] = m
        BY <2>2
      <3>2. rest[j - 1] \in T \ {m}
        BY <1>2, <2>1
      <3> HIDE DEF seq
      <3>3. m <= seq[j] /\ m # seq[j] /\ m \in Nat /\ seq[j] \in Nat
        BY <2>1, <3>2
      <3>4. QED
        BY <3>1, <3>3
    <2>3. CASE i # 1
      <3>1. i - 1 \in 1 .. k /\ seq[i] = rest[i - 1] /\ i - 1 < j - 1
        BY <1>1, <1>3, <2>3
      <3>2. QED
        BY <1>2, <2>1, <3>1 DEF Ascends
    <2>4. QED
      BY <2>2, <2>3
  <1>6. Range(seq) = T
    <2>1. Range(seq) \subseteq T
      BY <1>4 DEF Range
    <2>2. ASSUME NEW n \in T PROVE \E i \in 1 .. k + 1 : seq[i] = n
      <3>1. CASE n = m
        <4>1. 1 \in 1 .. k + 1 /\ seq[1] = m
          BY <1>1
        <4>2. QED
          BY <3>1, <4>1
      <3>2. CASE n # m
        <4>1. PICK i \in 1 .. k : rest[i] = n
          BY <1>2, <3>2 DEF Ascends, Range
        <4>2. i + 1 \in 1 .. k + 1 /\ i + 1 # 1 /\ (i + 1) - 1 = i
          BY <1>1
        <4>3. seq[i + 1] = n
          BY <4>1, <4>2
        <4>4. QED
          BY <4>2, <4>3
      <3>3. QED
        BY <3>1, <3>2
    <2> HIDE DEF seq
    <2>3. DOMAIN seq = 1 .. k + 1
      BY <1>4
    <2>4. QED
      BY <2>1, <2>2, <2>3 DEF Range
  <1> HIDE DEF seq, k
  <1>7. Ascends(seq, T)
    BY <1>1, <1>4, <1>5, <1>6 DEF Ascends
  <1>8. QED
    BY <1>7

LEMMA OrderExists ==
  ASSUME NEW S, IsFiniteSet(S), S \subseteq Nat
  PROVE  \E seq : Ascends(seq, S)
  <1> DEFINE Ordered == {T \in SUBSET S : \E seq : Ascends(seq, T)}
  <1>1. ASSUME NEW T \in SUBSET S, \A U \in SUBSET T : U # T => U \in Ordered
        PROVE  T \in Ordered
    <2>1. CASE T = {}
      <3>1. Cardinality(T) = 0 /\ << >> \in [1 .. 0 -> {}] /\ Range(<< >>) = {}
        BY <2>1, FS_EmptySet DEF Range
      <3>2. Ascends(<< >>, T)
        BY <2>1, <3>1 DEF Ascends
      <3>3. QED
        BY <3>2
    <2>2. CASE T # {}
      <3>1. PICK m \in T : \A n \in T : m <= n
        BY <2>2, LeastNumber
      <3>2. PICK rest : Ascends(rest, T \ {m})
        BY <1>1
      <3>3. IsFiniteSet(T)
        BY FS_Subset
      <3>4. \E seq : Ascends(seq, T)
        BY <3>1, <3>2, <3>3, LeastFirst
      <3>5. QED
        BY <3>4
    <2>3. QED
      BY <2>1, <2>2
  <1> HIDE DEF Ordered
  <1>2. S \in Ordered
    BY <1>1, SubsetInduction
  <1>3. QED
    BY <1>2 DEF Ordered

LEMMA InOrderAscends ==
  ASSUME NEW S, IsFiniteSet(S), S \subseteq Nat
  PROVE  Ascends(InOrder(S), S) /\ InOrder(S) \in Seq(S) /\ Cardinality(S) \in Nat
  <1>1. PICK seq : Ascends(seq, S)
    BY OrderExists
  <1>2. \E q \in [1 .. Cardinality(S) -> S] :
          Range(q) = S /\ \A i, j \in DOMAIN q : i < j => q[i] < q[j]
    BY <1>1 DEF Ascends
  <1>3. Ascends(InOrder(S), S)
    BY <1>2 DEF InOrder, Ascends
  <1>4. Cardinality(S) \in Nat
    BY FS_CardinalityType
  <1>5. QED
    BY <1>3, <1>4 DEF Ascends

\* The leaves of an initial segment are in their places.
LEMMA InitialInOrder ==
  ASSUME NEW S, IsFiniteSet(S), S \subseteq Nat \ {0}, \A n \in S : 1 .. n \subseteq S
  PROVE  \A i \in DOMAIN InOrder(S) : InOrder(S)[i] = i
  <1>1. /\ Ascends(InOrder(S), S) /\ Cardinality(S) \in Nat
    <2>1. S \subseteq Nat
      OBVIOUS
    <2>2. QED
      BY <2>1, InOrderAscends
  <1>2. PICK q : q = InOrder(S)
    OBVIOUS
  <1>3. PICK c \in Nat : c = Cardinality(S)
    BY <1>1
  <1>4. /\ DOMAIN q = 1 .. c /\ Range(q) = S
        /\ \A i \in 1 .. c : q[i] \in S
        /\ \A i, j \in 1 .. c : i < j => q[i] < q[j]
    BY <1>1, <1>2, <1>3 DEF Ascends
  <1>5. \A i \in 1 .. c : q[i] \in Nat /\ q[i] >= 1
    <2>1. \A n \in S : n \in Nat /\ n >= 1
      OBVIOUS
    <2>2. QED
      BY <1>4, <2>1
  <1>6. SUFFICES ASSUME {i \in 1 .. c : q[i] # i} # {} PROVE FALSE
    BY <1>2, <1>4
  <1>7. PICK i \in 1 .. c : q[i] # i /\ \A j \in 1 .. c : q[j] # j => i <= j
    <2>1. {k \in 1 .. c : q[k] # k} \subseteq Nat
      OBVIOUS
    <2>2. PICK k \in {k \in 1 .. c : q[k] # k} :
            \A m \in {m \in 1 .. c : q[m] # m} : k <= m
      BY <1>6, <2>1, LeastNumber
    <2>3. QED
      BY <2>2
  <1>8. q[i] > i
    <2>1. CASE i = 1
      BY <1>5, <1>7, <2>1
    <2>2. CASE i # 1
      <3>1. i - 1 \in 1 .. c /\ i - 1 < i
        BY <2>2
      <3>2. q[i - 1] = i - 1 /\ q[i - 1] < q[i]
        BY <1>4, <1>7, <3>1
      <3>3. QED
        BY <1>5, <1>7, <3>2
    <2>3. QED
      BY <2>1, <2>2
  <1>9. i \in S
    <2>1. i \in 1 .. q[i]
      BY <1>5, <1>8
    <2>2. q[i] \in S
      BY <1>4
    <2>3. QED
      BY <2>1, <2>2
  <1>10. PICK k \in 1 .. c : q[k] = i
    BY <1>4, <1>9 DEF Range
  <1>11. CASE k < i
    BY <1>7, <1>10, <1>11
  <1>12. CASE k = i
    BY <1>7, <1>10, <1>12
  <1>13. CASE k > i
    <2>1. q[i] < q[k]
      BY <1>4, <1>13
    <2>2. QED
      BY <1>5, <1>8, <1>10, <2>1
  <1>14. QED
    BY <1>11, <1>12, <1>13

---------------------------------------------------------------------------
(***************************************************************************)
(* What every step keeps.                                                  *)
(***************************************************************************)

\* A leaf stays accounted for while the stores only grow: the RPC forgets,
\* it does not remember.
LEMMA AccountedKept ==
  ASSUME UNCHANGED chainVars,
         \A s \in Stores : /\ stored[s] \subseteq stored'[s]
                           /\ cut[s] \subseteq cut'[s] \cup stored'[s]
                           /\ passed[s] \subseteq passed'[s] \cup stored'[s]
  PROVE  \A s \in Stores : \A n : Accounted(s, n) => Accounted(s, n)'
  BY DEF Accounted, Unreachable, Oldest, chainVars

\* What is appended comes after what was there.
LEMMA AppendedAfter ==
  ASSUME NEW old \in Seq(Nat), NEW k \in Nat, NEW v \in Nat, NEW now,
         now = old \o [i \in 1 .. k |-> v]
  PROVE  /\ now \in Seq(Nat) /\ Len(now) = Len(old) + k /\ Len(old) \in Nat
         /\ DOMAIN now = 1 .. (Len(old) + k) /\ DOMAIN old = 1 .. Len(old)
         /\ \A i \in 1 .. Len(old) : now[i] = old[i]
         /\ \A i \in 1 .. (Len(old) + k) : ~(i <= Len(old)) => now[i] = v
  <1>1. PICK add : add = [i \in 1 .. k |-> v]
    OBVIOUS
  <1>2. add \in Seq(Nat) /\ Len(add) = k /\ \A i \in 1 .. k : add[i] = v
    BY <1>1
  <1>3. PICK l \in Nat : l = Len(old)
    OBVIOUS
  <1>4. /\ now \in Seq(Nat) /\ Len(now) = l + k
        /\ \A i \in 1 .. l + k : now[i] = IF i <= l THEN old[i] ELSE add[i - l]
    BY <1>1, <1>2, <1>3, ConcatProperties
  <1>5. DOMAIN now = 1 .. l + k /\ DOMAIN old = 1 .. l
    BY <1>3, <1>4
  <1>6. \A i \in 1 .. l : now[i] = old[i]
    BY <1>4
  <1>7. \A i \in 1 .. l + k : ~(i <= l) => now[i] = v
    <2> SUFFICES ASSUME NEW i \in 1 .. l + k, ~(i <= l) PROVE now[i] = v
      OBVIOUS
    <2>1. i - l \in 1 .. k
      OBVIOUS
    <2>2. QED
      BY <1>2, <1>4, <2>1
  <1>8. QED
    BY <1>3, <1>4, <1>5, <1>6, <1>7

\* A ledger closes: old leaves keep their ledger, new ones get this one.
LEMMA ChainGrows ==
  ASSUME ChainTyped, NEW commitments \in Nat, NEW members \in Nat,
         CloseLedger(commitments, members)
  PROVE  /\ ledger' = ledger + 1 /\ ChainTyped'
         /\ \A s \in Stores :
              /\ Leaves(s) \subseteq Leaves(s)'
              /\ \A n \in Leaves(s) : log'[s][n] = log[s][n]
              /\ \A n \in Leaves(s)' : n \notin Leaves(s) => log'[s][n] = ledger + 1
  <1> DEFINE new == [pool |-> commitments, membership |-> members]
  <1>1. /\ ledger' = ledger + 1 /\ ledger \in Nat \ {0}
        /\ log' = [s \in Stores |-> log[s] \o [i \in 1..new[s] |-> ledger + 1]]
        /\ \A s \in Stores : Len(log[s]) + new[s] <= TreeCapacity
    BY DEF CloseLedger, ChainTyped
  <1>2. ASSUME NEW s \in Stores
        PROVE  /\ log'[s] \in Seq(Nat) /\ Len(log'[s]) <= TreeCapacity
               /\ Leaves(s) \subseteq Leaves(s)'
               /\ \A n \in Leaves(s) : log'[s][n] = log[s][n]
               /\ \A n \in Leaves(s)' : n \notin Leaves(s) => log'[s][n] = ledger + 1
               /\ \A n \in Leaves(s)' : log'[s][n] \in 1 .. ledger'
               /\ \A i, j \in Leaves(s)' : i < j => log'[s][i] <= log'[s][j]
    <2>1. PICK k \in Nat : k = new[s]
      BY DEF Stores
    <2>2. PICK v \in Nat : v = ledger + 1
      BY <1>1
    <2>3. PICK old \in Seq(Nat) : old = log[s]
      BY DEF ChainTyped
    <2>4. PICK now : now = log'[s]
      OBVIOUS
    <2> HIDE DEF new
    <2>5. now = old \o [i \in 1 .. k |-> v] /\ Len(old) + k <= TreeCapacity
      BY <1>1, <2>1, <2>2, <2>3, <2>4
    <2>6. PICK l \in Nat : l = Len(old)
      OBVIOUS
    <2>7. /\ now \in Seq(Nat) /\ Len(now) = l + k /\ l + k <= TreeCapacity
          /\ DOMAIN now = 1 .. (l + k) /\ DOMAIN old = 1 .. l
          /\ \A i \in 1 .. l : now[i] = old[i]
          /\ \A i \in 1 .. (l + k) : ~(i <= l) => now[i] = v
      BY <2>5, <2>6, AppendedAfter
    <2>8. Leaves(s) = 1 .. l /\ Leaves(s)' = 1 .. (l + k)
      BY <2>3, <2>4, <2>7 DEF Leaves
    <2>9. 1 .. l \subseteq 1 .. (l + k) /\ \A n \in 1 .. (l + k) : n \notin 1 .. l => ~(n <= l)
      OBVIOUS
    <2>10. \A n \in 1 .. l : old[n] \in Nat /\ 1 <= old[n] /\ old[n] < v
      <3>1. \A n \in 1 .. l : old[n] \in 1 .. ledger
        BY <2>3, <2>8 DEF ChainTyped
      <3>2. QED
        BY <1>1, <2>2, <3>1
    <2>11. \A n \in 1 .. (l + k) : now[n] \in 1 .. v
      <3> SUFFICES ASSUME NEW n \in 1 .. (l + k) PROVE now[n] \in 1 .. v
        OBVIOUS
      <3>1. CASE n <= l
        <4>1. n \in 1 .. l
          BY <3>1
        <4>2. now[n] = old[n] /\ old[n] \in Nat /\ 1 <= old[n] /\ old[n] < v
          BY <2>7, <2>10, <4>1
        <4>3. QED
          BY <4>2
      <3>2. CASE ~(n <= l)
        BY <1>1, <2>2, <2>7, <3>2
      <3>3. QED
        BY <3>1, <3>2
    <2>12. ASSUME NEW i \in 1 .. (l + k), NEW j \in 1 .. (l + k), i < j
           PROVE  now[i] <= now[j]
      <3>1. CASE j <= l
        <4>1. i \in 1 .. l /\ j \in 1 .. l
          BY <2>12, <3>1
        <4>2. old[i] <= old[j]
          BY <2>3, <2>8, <2>12, <4>1 DEF ChainTyped
        <4>3. QED
          BY <2>7, <4>1, <4>2
      <3>2. CASE ~(j <= l)
        BY <2>7, <2>11, <3>2
      <3>3. QED
        BY <3>1, <3>2
    <2>13. v = ledger'
      BY <1>1, <2>2
    <2>14. QED
      BY <2>2, <2>3, <2>4, <2>7, <2>8, <2>9, <2>11, <2>12, <2>13
  <1> HIDE DEF new
  <1>3. log' \in [Stores -> Seq(Nat)]
    <2>1. DOMAIN log' = Stores /\ log' = [s \in Stores |-> log'[s]]
      BY <1>1
    <2>2. QED
      BY <1>2, <2>1
  <1>4. ledger' \in Nat \ {0}
    BY <1>1
  <1>5. ChainTyped'
    BY <1>2, <1>3, <1>4 DEF ChainTyped
  <1>6. QED
    BY <1>1, <1>2, <1>5

LEMMA AccountedLater ==
  ASSUME ChainTyped, NEW commitments \in Nat, NEW members \in Nat,
         CloseLedger(commitments, members)
  PROVE  \A s \in Stores : \A n \in Leaves(s) : Accounted(s, n) => Accounted(s, n)'
  <1>1. /\ ledger' = ledger + 1 /\ ledger \in Nat
        /\ UNCHANGED <<stored, cut, passed>>
    BY DEF CloseLedger, ChainTyped, dbVars, history
  <1>2. Retention \in Nat
    BY ReaderAssumption
  <1>3. Oldest <= Oldest' /\ Oldest \in Nat /\ Oldest' \in Nat
    BY <1>1, <1>2 DEF Oldest
  <1>4. \A s \in Stores : \A n \in Leaves(s) : log'[s][n] = log[s][n]
    BY ChainGrows
  <1>5. ASSUME NEW s \in Stores, NEW n \in Leaves(s), Accounted(s, n)
        PROVE  Accounted(s, n)'
    <2>1. stored' = stored /\ cut' = cut /\ passed' = passed
      BY <1>1
    <2>2. log'[s][n] = log[s][n] /\ log[s][n] \in Nat
      BY <1>1, <1>4 DEF ChainTyped
    <2>3. log[s][n] < Oldest => log'[s][n] < Oldest'
      BY <1>3, <2>2
    <2>4. QED
      BY <1>5, <2>1, <2>3 DEF Accounted, Unreachable
  <1>6. QED
    BY <1>5

\* Promises outlast any growth of the stores.
LEMMA PromisesKept ==
  ASSUME UNCHANGED log, stored["membership"] \subseteq stored'["membership"],
         \A s \in Stores : \A n : Accounted(s, n) => Accounted(s, n)',
         NEW m
  PROVE  (Honest(m) => Honest(m)') /\ (Complete(m) => Complete(m)')
  BY DEF Honest, Complete, Leaves, Stores

\* A sync at the first ledger of its range has nothing to tell yet.
LEMMA RestartTells ==
  ASSUME sync'.page = << >>, sync'.start = sync'.from, sync'.skip = 0,
         \A s \in Stores : Sound(s)' =>
           \A n \in Leaves(s)' : log'[s][n] < sync'.from => Accounted(s, n)'
  PROVE  PageTells' /\ \A s \in Stores : PassedTells(s)'
  <1>1. PageTells'
    BY DEF PageTells
  <1>2. 1 .. sync'.skip = {}
    OBVIOUS
  <1>3. ASSUME NEW s \in Stores PROVE PassedTells(s)'
    BY <1>2 DEF PassedTells
  <1>4. QED
    BY <1>1, <1>3

---------------------------------------------------------------------------
(***************************************************************************)
(* The chain.                                                              *)
(***************************************************************************)

LEMMA LedgerCloses ==
  ASSUME SyncInv, NEW commitments \in Nat, NEW members \in Nat,
         CloseLedger(commitments, members)
  PROVE  SyncInv'
  <1>1. /\ ChainTyped /\ DataTyped /\ TabTyped /\ SyncTells /\ PageTells /\ MembersTell
        /\ \A s \in Stores : NoHoles(s) /\ PassedTells(s)
        /\ MetaTells /\ RebuildTells
    BY DEF SyncInv
  <1>2. /\ UNCHANGED <<stored, meta, wallet, tree, sync, rebuilding, clearing, cut, passed, mixed, undercut>>
    BY DEF CloseLedger, dbVars, tabVars, syncVars, history
  <1>3. /\ ledger' = ledger + 1 /\ ChainTyped'
        /\ \A s \in Stores :
             /\ Leaves(s) \subseteq Leaves(s)'
             /\ \A n \in Leaves(s) : log'[s][n] = log[s][n]
             /\ \A n \in Leaves(s)' : n \notin Leaves(s) => log'[s][n] = ledger + 1
    BY <1>1, ChainGrows
  <1>4. \A s \in Stores : \A n \in Leaves(s) : Accounted(s, n) => Accounted(s, n)'
    BY <1>1, AccountedLater
  <1>5. ledger \in Nat /\ sync \in Syncs /\ meta \in Metas /\ sync.meta \in Metas
    BY <1>1 DEF ChainTyped, SyncTells, DataTyped, Syncs
  <1>6. DataTyped'
    <2>1. \A s \in Stores : meta.last[s] \in Nat /\ meta.last[s] <= ledger
      BY <1>1 DEF DataTyped, Metas
    <2>2. \A s \in Stores : meta.last[s] <= ledger + 1
      BY <1>5, <2>1
    <2>3. QED
      BY <1>1, <1>2, <1>3, <2>2 DEF DataTyped
  <1>7. TabTyped'
    BY <1>1, <1>2, <1>3 DEF TabTyped, Stores
  <1>8. SyncTells'
    <2>1. \A s \in Stores : sync.meta.last[s] \in Nat /\ sync.meta.last[s] <= ledger
      BY <1>1, <1>5 DEF SyncTells, Metas
    <2>2. \A s \in Stores : sync.meta.last[s] <= ledger + 1
      BY <1>5, <2>1
    <2>3. sync.start \in Nat /\ sync.latest \in Nat /\ sync.from \in Nat
      BY <1>5 DEF Syncs
    <2>4. /\ sync.start <= ledger + 1 + 1
          /\ Running => sync.latest <= ledger + 1 /\ sync.from <= ledger + 1
      BY <1>1, <1>4, <1>5, <2>3 DEF SyncTells
    <2>5. QED
      BY <1>1, <1>2, <1>3, <2>2, <2>4 DEF SyncTells, Running
  <1>9. PageTells'
    BY <1>1, <1>2, <1>3 DEF PageTells
  <1>10. MembersTell'
    BY <1>1, <1>2 DEF MembersTell
  <1>11. ASSUME NEW s \in Stores PROVE NoHoles(s)' /\ PassedTells(s)'
    <2>1. stored[s] \subseteq Leaves(s) /\ Leaves(s) = 1 .. Len(log[s]) /\ Len(log[s]) \in Nat
          /\ Leaves(s)' \subseteq Nat \ {0}
      BY <1>1, <1>3 DEF DataTyped, ChainTyped, Leaves
    <2>2. Sound(s)' <=> Sound(s)
      BY <1>2 DEF Sound
    <2>3. NoHoles(s)'
      <3> SUFFICES ASSUME Sound(s), NEW j \in stored[s], NEW i \in Leaves(s)', i < j
                   PROVE  Accounted(s, i)'
        BY <1>2, <2>2 DEF NoHoles
      <3>1. i \in Leaves(s)
        BY <2>1
      <3>2. QED
        BY <1>1, <1>4, <3>1 DEF NoHoles
    <2>4. PassedTells(s)'
      <3>1. /\ sync.start <= ledger + 1 /\ sync.start \in Nat
            /\ sync.from <= ledger + 1 /\ sync.from \in Nat
        <4>1. sync.start <= ledger + 1 /\ sync.start \in Nat /\ sync.from \in Nat
          BY <1>1, <1>5 DEF SyncTells, Syncs
        <4>2. CASE Running
          BY <1>1, <1>5, <4>1, <4>2 DEF SyncTells
        <4>3. CASE ~Running
          <5>1. sync.from = 0
            BY <4>3 DEF Running, NoSync
          <5>2. QED
            BY <1>5, <4>1, <5>1
        <4>4. QED
          BY <4>2, <4>3
      <3>2. ASSUME NEW n \in Leaves(s)', NEW bound \in Nat, bound <= ledger + 1,
                   log'[s][n] < bound
            PROVE  n \in Leaves(s) /\ log[s][n] < bound
        <4>1. log'[s][n] # ledger + 1
          BY <1>5, <3>2
        <4>2. QED
          BY <1>3, <3>2, <4>1
      <3>3. \A n \in Leaves(s)' : log'[s][n] < sync.from => n \in Leaves(s) /\ log[s][n] < sync.from
        BY <3>1, <3>2
      <3>4. \A n \in Leaves(s)' : log'[s][n] < sync.start => n \in Leaves(s) /\ log[s][n] < sync.start
        BY <3>1, <3>2
      <3>5. PassedTells(s)
        BY <1>1
      <3>6. QED
        BY <1>2, <1>4, <2>2, <3>3, <3>4, <3>5 DEF PassedTells
    <2>5. QED
      BY <2>3, <2>4
  <1>12. MetaTells'
    <2>1. ASSUME NEW m \in Metas, \A s \in Stores : m.last[s] <= ledger
          PROVE  (Honest(m) => Honest(m)') /\ (Complete(m) => Complete(m)')
      <3>1. \A s \in Stores : \A n \in Leaves(s)' : log'[s][n] <= m.last[s] =>
              n \in Leaves(s) /\ log[s][n] <= m.last[s]
        <4> SUFFICES ASSUME NEW s \in Stores, NEW n \in Leaves(s)', log'[s][n] <= m.last[s]
                     PROVE  n \in Leaves(s) /\ log[s][n] <= m.last[s]
          OBVIOUS
        <4>1. m.last[s] \in Nat /\ m.last[s] <= ledger
          BY <2>1 DEF Metas
        <4>2. log'[s][n] # ledger + 1
          BY <1>5, <4>1
        <4>3. QED
          BY <1>3, <4>2
      <3>2. Honest(m) => Honest(m)'
        BY <1>4, <3>1 DEF Honest, Stores
      <3>3. Complete(m) => Complete(m)'
        BY <1>2, <3>1 DEF Complete, Stores
      <3>4. QED
        BY <3>2, <3>3
    <2>2. (Honest(meta) => Honest(meta)') /\ (Complete(meta) => Complete(meta)')
      <3>1. \A s \in Stores : meta.last[s] <= ledger
        BY <1>1 DEF DataTyped
      <3>2. QED
        BY <1>2, <1>5, <2>1, <3>1 DEF Honest, Complete
    <2>3. (Honest(sync.meta) => Honest(sync.meta)') /\ (Complete(sync.meta) => Complete(sync.meta)')
      <3>1. \A s \in Stores : sync.meta.last[s] <= ledger
        BY <1>1 DEF SyncTells
      <3>2. QED
        BY <1>2, <1>5, <2>1, <3>1 DEF Honest, Complete
    <2>4. QED
      BY <1>1, <1>2, <2>2, <2>3 DEF MetaTells, Running
  <1>13. RebuildTells'
    BY <1>1, <1>2 DEF RebuildTells
  <1>14. QED
    BY <1>3, <1>6, <1>7, <1>8, <1>9, <1>10, <1>11, <1>12, <1>13 DEF SyncInv

---------------------------------------------------------------------------
(***************************************************************************)
(* Steps that move the sync alone.                                         *)
(***************************************************************************)

\* Enough for such a step: where the sync now is, and what it will save.
LEMMA SyncMoves ==
  ASSUME SyncInv,
         UNCHANGED <<chainVars, dbVars, wallet, tree, rebuilding, clearing, history>>,
         wallet = "ready",
         SyncTells', PageTells', \A s \in Stores : PassedTells(s)',
         undercut = "no" /\ Running' =>
           Honest(sync.meta)' /\ (sync'.phase # "count" => Complete(sync.meta)')
  PROVE  SyncInv'
  <1> USE DEF chainVars, dbVars, history
  <1>1. /\ ChainTyped /\ DataTyped /\ TabTyped /\ MembersTell /\ MetaTells /\ RebuildTells
        /\ \A s \in Stores : NoHoles(s)
    BY DEF SyncInv
  <1>2. \A s \in Stores : \A n : Accounted(s, n) => Accounted(s, n)'
    BY AccountedKept DEF Stores
  <1>3. ChainTyped'
    BY <1>1 DEF ChainTyped, Leaves
  <1>4. DataTyped'
    BY <1>1 DEF DataTyped, Leaves
  <1>5. TabTyped'
    BY <1>1 DEF TabTyped, Leaves
  <1>6. MembersTell'
    BY <1>1 DEF MembersTell
  <1>7. \A s \in Stores : NoHoles(s)'
    BY <1>1, <1>2 DEF NoHoles, Sound, Leaves
  <1>8. MetaTells'
    <2>1. (Honest(meta) => Honest(meta)') /\ (Complete(meta) => Complete(meta)')
      BY <1>2 DEF Honest, Complete, Leaves, Stores
    <2>2. QED
      BY <1>1, <2>1 DEF MetaTells, Running
  <1>9. RebuildTells'
    BY <1>1 DEF RebuildTells
  <1>10. QED
    BY <1>3, <1>4, <1>5, <1>6, <1>7, <1>8, <1>9 DEF SyncInv

\* A sync runs in an open tab, over ledgers that are closed.
LEMMA WhileRunning ==
  ASSUME SyncInv, sync.phase # "idle"
  PROVE  /\ Running /\ wallet = "ready"
         /\ sync \in Syncs /\ sync.meta \in Metas /\ ledger \in Nat \ {0}
         /\ sync.latest <= ledger /\ sync.from <= ledger /\ sync.start <= ledger + 1
         /\ \A s \in Stores : sync.meta.last[s] <= ledger
  <1>1. SyncTells /\ TabTyped /\ ChainTyped
    BY DEF SyncInv
  <1>2. Running /\ wallet = "ready"
    BY <1>1 DEF Running, NoSync, TabTyped
  <1>3. ledger \in Nat \ {0}
    BY <1>1 DEF ChainTyped
  <1>4. QED
    BY <1>1, <1>2, <1>3 DEF SyncTells, Running, Syncs

\* A sync begins: what its window leaves out is passed.
LEMMA Starts ==
  ASSUME SyncInv, NEW w \in Windows, StartSync(w)
  PROVE  SyncInv'
  <1>1. PICK first : first = FirstLedger(w)
    OBVIOUS
  <1>2. /\ wallet = "ready" /\ sync.phase = "idle"
        /\ sync' = [phase |-> "pool", from |-> first, start |-> first,
                    latest |-> ledger, page |-> <<>>, skip |-> 0, meta |-> meta]
        /\ passed' = [s \in Stores |-> passed[s] \cup Before(s, first)]
        /\ UNCHANGED <<ledger, log, stored, meta, wallet, tree, rebuilding, clearing, cut, mixed,
                       undercut>>
    BY <1>1 DEF StartSync, chainVars, dbVars
  <1>3. /\ ChainTyped /\ DataTyped /\ TabTyped /\ MembersTell /\ MetaTells /\ RebuildTells
        /\ \A s \in Stores : NoHoles(s)
    BY DEF SyncInv
  <1>4. ledger \in Nat \ {0} /\ w \in Nat \ {0}
    BY <1>3, ReaderAssumption DEF ChainTyped
  <1>5. first \in Nat /\ first <= ledger
    BY <1>1, <1>4 DEF FirstLedger
  <1>6. ChainTyped' /\ \A s \in Stores : Leaves(s)' = Leaves(s)
    BY <1>2, <1>3 DEF ChainTyped, Leaves
  <1>7. /\ passed' \in [Stores -> SUBSET Nat]
        /\ \A s \in Stores : /\ passed'[s] = passed[s] \cup Before(s, first)
                             /\ passed'[s] \subseteq Leaves(s)
    <2>1. \A s \in Stores : Before(s, first) \subseteq Leaves(s) /\ Leaves(s) \subseteq Nat
      BY <1>3 DEF Before, Leaves, ChainTyped
    <2>2. QED
      BY <1>2, <1>3, <2>1 DEF DataTyped
  <1>8. \A s \in Stores : \A n : Accounted(s, n) => Accounted(s, n)'
    BY <1>2, <1>7, AccountedKept DEF chainVars
  <1>9. DataTyped'
    BY <1>2, <1>3, <1>6, <1>7 DEF DataTyped
  <1>10. TabTyped'
    BY <1>2, <1>3, <1>6 DEF TabTyped, Stores
  <1>11. sync' \in Syncs /\ sync'.phase = "pool" /\ sync'.page = << >> /\ sync'.skip = 0
         /\ sync'.start = first /\ sync'.from = first /\ sync'.latest = ledger /\ sync'.meta = meta
    BY <1>2, <1>3, <1>4, <1>5 DEF Syncs, DataTyped
  <1>12. SyncTells'
    <2>1. \A s \in Stores : sync'.meta.last[s] <= ledger
      BY <1>3, <1>11 DEF DataTyped
    <2>2. first <= ledger + 1 /\ ledger <= ledger
      BY <1>4, <1>5
    <2>3. QED
      BY <1>2, <1>5, <1>11, <2>1, <2>2 DEF SyncTells
  <1>13. PageTells' /\ \A s \in Stores : PassedTells(s)'
    <2>1. \A s \in Stores : \A n \in Leaves(s) :
            log[s][n] < first => n \in stored[s] \/ n \in Before(s, first)
      BY DEF Before
    <2>2. \A s \in Stores : \A n \in Leaves(s)' : log'[s][n] < first => Accounted(s, n)'
      BY <1>2, <1>6, <1>7, <2>1 DEF Accounted, Unreachable
    <2>3. QED
      BY <1>11, <2>2, RestartTells
  <1>14. MembersTell' /\ RebuildTells'
    BY <1>2, <1>3 DEF MembersTell, RebuildTells
  <1>15. \A s \in Stores : NoHoles(s)'
    BY <1>2, <1>3, <1>6, <1>8 DEF NoHoles, Sound
  <1>16. MetaTells'
    <2>1. \A m : (Honest(m) => Honest(m)') /\ (Complete(m) => Complete(m)')
      BY <1>2, <1>8, PromisesKept
    <2>2. undercut = "no" => Honest(meta)' /\ Complete(meta)'
      BY <1>2, <1>3, <2>1 DEF MetaTells, Honest, Complete
    <2>3. undercut = "no" => Honest(sync.meta)' /\ Complete(sync.meta)'
      BY <1>2, <1>11, <2>2 DEF Honest, Complete
    <2>4. QED
      BY <1>2, <2>2, <2>3 DEF MetaTells
  <1>17. QED
    BY <1>6, <1>9, <1>10, <1>12, <1>13, <1>14, <1>15, <1>16 DEF SyncInv

\* The next phase begins at the first ledger of the range.
LEMMA MovesOn ==
  ASSUME SyncInv, sync.phase # "idle", UNCHANGED <<chainVars, clearing, undercut>>,
         \A s \in Stores : \A n : Accounted(s, n) => Accounted(s, n)',
         NEW p \in {"rebuild", "membership", "count", "save"},
         NEW m \in Metas, \A s \in Stores : m.last[s] <= ledger,
         sync' = [Moved(p) EXCEPT !.meta = m]
  PROVE  /\ SyncTells' /\ PageTells' /\ \A s \in Stores : PassedTells(s)'
         /\ sync'.phase = p /\ sync'.meta = m /\ Running'
  <1>1. /\ Running /\ sync \in Syncs /\ ledger \in Nat \ {0} /\ ledger' = ledger /\ log' = log
        /\ sync.latest <= ledger /\ sync.from <= ledger
    BY WhileRunning DEF chainVars
  <1>2. /\ sync' \in Syncs /\ sync'.phase = p /\ sync'.meta = m /\ sync'.page = << >>
        /\ sync'.skip = 0 /\ sync'.start = sync.from /\ sync'.from = sync.from
        /\ sync'.latest = sync.latest
    <2>1. PICK q \in Syncs : q = sync
      BY <1>1
    <2>2. sync' = [phase |-> p, from |-> q.from, start |-> q.from, latest |-> q.latest,
                   page |-> << >>, skip |-> 0, meta |-> m]
      BY <2>1 DEF Syncs, Moved
    <2>3. q.from \in Nat /\ q.latest \in Nat /\ << >> \in Seq(Nat)
      BY <2>1 DEF Syncs
    <2>4. p \in {"idle", "pool", "rebuild", "membership", "count", "save"}
      OBVIOUS
    <2>5. PICK r : r = sync'
      OBVIOUS
    <2>6. r \in Syncs
      BY <2>2, <2>3, <2>4, <2>5 DEF Syncs
    <2>7. sync' \in Syncs
      BY <2>5, <2>6
    <2>8. /\ r.phase = p /\ r.meta = m /\ r.page = << >> /\ r.skip = 0
          /\ r.start = q.from /\ r.from = q.from /\ r.latest = q.latest
      BY <2>2, <2>5
    <2>9. QED
      BY <2>1, <2>5, <2>7, <2>8
  <1>3. \A s \in Stores : Sound(s)' =>
          \A n \in Leaves(s)' : log'[s][n] < sync'.from => Accounted(s, n)'
    <2>1. \A s \in Stores : PassedTells(s) /\ (Sound(s)' => Sound(s))
      BY DEF SyncInv, Sound
    <2>2. QED
      BY <1>1, <1>2, <2>1 DEF PassedTells, Leaves
  <1>4. sync'.start <= ledger + 1 /\ sync'.phase # "idle" /\ sync' # NoSync
    <2>1. sync.from \in Nat
      BY <1>1 DEF Syncs
    <2>2. sync.from <= ledger + 1
      BY <1>1, <2>1
    <2>3. QED
      BY <1>2, <2>2 DEF NoSync
  <1>5. SyncTells'
    BY <1>1, <1>2, <1>4 DEF SyncTells
  <1>6. PageTells' /\ \A s \in Stores : PassedTells(s)'
    BY <1>1, <1>2, <1>3, RestartTells
  <1>7. QED
    BY <1>2, <1>4, <1>5, <1>6 DEF Running

\* A phase that only moves on keeps what the sync will save.
LEMMA KeepsPromises ==
  ASSUME SyncInv, sync.phase # "idle",
         UNCHANGED <<chainVars, dbVars, wallet, tree, rebuilding, clearing, history>>,
         NEW p \in {"rebuild", "membership", "count", "save"},
         NEW m \in Metas, \A s \in Stores : m.last[s] <= ledger,
         sync' = [Moved(p) EXCEPT !.meta = m],
         undercut = "no" => Honest(m) /\ (p # "count" => Complete(m))
  PROVE  SyncInv'
  <1>1. wallet = "ready"
    BY WhileRunning
  <1>2. UNCHANGED <<ledger, log, stored, cut, passed, undercut, clearing>> /\ UNCHANGED chainVars
    BY DEF chainVars, dbVars, history
  <1>3. \A s \in Stores : \A n : Accounted(s, n) => Accounted(s, n)'
    BY <1>2, AccountedKept
  <1>4. /\ SyncTells' /\ PageTells' /\ \A s \in Stores : PassedTells(s)'
        /\ sync'.phase = p /\ sync'.meta = m
    BY <1>2, <1>3, MovesOn
  <1>5. undercut = "no" => Honest(sync.meta)' /\ (sync'.phase # "count" => Complete(sync.meta)')
    <2>1. \A n : Accounted("pool", n) => Accounted("pool", n)'
      BY <1>3 DEF Stores
    <2>2. QED
      BY <1>2, <1>4, <2>1 DEF Honest, Complete, Leaves
  <1>6. QED
    BY <1>1, <1>4, <1>5, SyncMoves

LEMMA FetchFailing ==
  ASSUME SyncInv, NEW s \in Stores, FetchFails(s)
  PROVE  SyncInv'
  <1>1. /\ sync.phase = s /\ sync.phase # "idle" /\ sync.phase # "count" /\ sync' = AfterFailure
        /\ UNCHANGED <<chainVars, dbVars, wallet, tree, rebuilding, clearing, history>>
    BY DEF FetchFails, Asking, Fetching, Stores
  <1>2. /\ Running /\ sync \in Syncs /\ sync.meta \in Metas
        /\ \A t \in Stores : sync.meta.last[t] <= ledger
    BY <1>1, WhileRunning
  <1>3. PICK p \in {"rebuild", "membership", "count", "save"} :
          p # "count" /\ sync' = [Moved(p) EXCEPT !.meta = sync.meta]
    BY <1>1, <1>2 DEF AfterFailure, Moved, Syncs
  <1>4. undercut = "no" => Honest(sync.meta) /\ Complete(sync.meta)
    BY <1>1, <1>2 DEF SyncInv, MetaTells
  <1>5. QED
    BY <1>1, <1>2, <1>3, <1>4, KeepsPromises

LEMMA RebuildDone ==
  ASSUME SyncInv, Rebuilt
  PROVE  SyncInv'
  <1>1. /\ sync.phase = "rebuild" /\ sync.phase # "idle" /\ sync' = Moved("membership")
        /\ UNCHANGED <<chainVars, dbVars, wallet, tree, rebuilding, clearing, history>>
    BY DEF Rebuilt
  <1>2. /\ Running /\ sync \in Syncs /\ sync.meta \in Metas
        /\ \A t \in Stores : sync.meta.last[t] <= ledger
    BY <1>1, WhileRunning
  <1>3. sync' = [Moved("membership") EXCEPT !.meta = sync.meta]
    BY <1>1, <1>2 DEF Moved, Syncs
  <1>4. undercut = "no" => Honest(sync.meta) /\ Complete(sync.meta)
    BY <1>1, <1>2 DEF SyncInv, MetaTells
  <1>5. QED
    BY <1>1, <1>2, <1>3, <1>4, KeepsPromises

\* All pages of a contract are read: what the sync will now save about it.
LEMMA NewWatermark ==
  ASSUME SyncInv, NEW s \in Stores, NEW p \in {"rebuild", "count"}, Fetched(s, p)
  PROVE  \E m \in Metas :
           /\ sync' = [Moved(p) EXCEPT !.meta = m]
           /\ m.last[s] = sync.latest /\ ~m.broken[s] /\ m.counted = sync.meta.counted
           /\ \A t \in Stores : t # s =>
                m.last[t] = sync.meta.last[t] /\ m.broken[t] = sync.meta.broken[t]
           /\ \A t \in Stores : m.last[t] <= ledger
  <1>1. /\ sync.phase = s /\ sync.phase # "idle" /\ sync.page = << >> /\ sync.start > sync.latest
        /\ sync' = [Moved(p) EXCEPT !.meta.last[s] = sync.latest, !.meta.broken[s] = FALSE]
    BY DEF Fetched, Fetching, Watermark, Stores
  <1>2. /\ sync \in Syncs /\ sync.meta \in Metas /\ sync.latest <= ledger
        /\ \A t \in Stores : sync.meta.last[t] <= ledger
    BY <1>1, WhileRunning
  <1>3. PICK old \in Metas : old = sync.meta
    BY <1>2
  <1>4. PICK latest \in Nat : latest = sync.latest
    BY <1>2 DEF Syncs
  <1>5. PICK m : m = [old EXCEPT !.last[s] = latest, !.broken[s] = FALSE]
    OBVIOUS
  <1>6. m \in Metas
    BY <1>5 DEF Metas
  <1>7. /\ m.last[s] = latest /\ ~m.broken[s] /\ m.counted = old.counted
        /\ \A t \in Stores : t # s => m.last[t] = old.last[t] /\ m.broken[t] = old.broken[t]
    BY <1>5 DEF Metas
  <1>8. sync' = [Moved(p) EXCEPT !.meta = m]
    <2>1. PICK q \in Syncs : q = sync
      BY <1>2
    <2>2. PICK r : r = Moved(p)
      OBVIOUS
    <2>3. r = [phase |-> p, from |-> q.from, start |-> q.from, latest |-> q.latest,
               page |-> << >>, skip |-> 0, meta |-> old]
      BY <1>3, <2>1, <2>2 DEF Syncs, Moved
    <2>4. [r EXCEPT !.meta.last[s] = latest, !.meta.broken[s] = FALSE] = [r EXCEPT !.meta = m]
      BY <1>5, <2>3 DEF Metas
    <2>5. QED
      BY <1>1, <1>4, <2>2, <2>4
  <1>9. \A t \in Stores : m.last[t] <= ledger
    BY <1>2, <1>3, <1>4, <1>7
  <1>10. QED
    BY <1>3, <1>4, <1>6, <1>7, <1>8, <1>9

\* Then every leaf up to that watermark is accounted for.
LEMMA AllFetched ==
  ASSUME SyncInv, NEW s \in Stores, sync.phase = s, sync.page = << >>,
         sync.start > sync.latest, undercut = "no"
  PROVE  \A n \in Leaves(s) : log[s][n] <= sync.latest => Accounted(s, n)
  <1>1. /\ sync \in Syncs /\ ledger \in Nat /\ ChainTyped /\ PassedTells(s) /\ Sound(s)
    BY WhileRunning DEF SyncInv, Stores, Sound
  <1>2. Range(sync.page) = {}
    BY DEF Range
  <1>3. sync.start \in Nat /\ sync.latest \in Nat
    BY <1>1 DEF Syncs
  <1>4. \A n \in Leaves(s) : log[s][n] \in Nat
    BY <1>1 DEF ChainTyped
  <1>5. \A n \in Leaves(s) : log[s][n] <= sync.latest => log[s][n] < sync.start
    BY <1>3, <1>4
  <1>6. QED
    BY <1>1, <1>2, <1>5 DEF PassedTells

LEMMA MembershipDone ==
  ASSUME SyncInv, MembershipFetched
  PROVE  SyncInv'
  <1>1. /\ Fetched("membership", "count") /\ sync.phase = "membership" /\ sync.phase # "idle"
        /\ UNCHANGED <<chainVars, dbVars, wallet, tree, rebuilding, clearing, history>>
    BY DEF MembershipFetched, Fetched, Fetching
  <1>2. PICK m \in Metas :
          /\ sync' = [Moved("count") EXCEPT !.meta = m]
          /\ \A t \in Stores : t # "membership" => m.last[t] = sync.meta.last[t]
          /\ \A t \in Stores : m.last[t] <= ledger
    BY <1>1, NewWatermark DEF Stores
  <1>3. m.last["pool"] = sync.meta.last["pool"]
    BY <1>2 DEF Stores
  <1>4. undercut = "no" => Honest(m)
    <2>1. undercut = "no" => Honest(sync.meta)
      BY <1>1, WhileRunning DEF SyncInv, MetaTells
    <2>2. QED
      BY <1>3, <2>1 DEF Honest
  <1>5. QED
    BY <1>1, <1>2, <1>4, KeepsPromises

\* As many stored leaves as the contract has: then they are all.
LEMMA CountTells ==
  ASSUME SyncInv, ~LeavesAreMissing
  PROVE  stored["membership"] = Leaves("membership")
  <1>1. /\ stored["membership"] \subseteq Leaves("membership")
        /\ log["membership"] \in Seq(Nat)
    BY DEF SyncInv, DataTyped, ChainTyped, Stores
  <1>2. PICK l \in Nat : l = Len(log["membership"]) /\ Leaves("membership") = 1 .. l
    BY <1>1 DEF Leaves
  <1>3. IsFiniteSet(1 .. l) /\ Cardinality(1 .. l) = l
    BY FS_Interval
  <1>4. Cardinality(stored["membership"]) \in Nat /\ Cardinality(stored["membership"]) <= l
        /\ (Cardinality(stored["membership"]) = l => stored["membership"] = 1 .. l)
    BY <1>1, <1>2, <1>3, FS_Subset, FS_CardinalityType
  <1>5. QED
    BY <1>2, <1>4 DEF LeavesAreMissing

LEMMA MembersCounted ==
  ASSUME SyncInv, CountMembers
  PROVE  SyncInv'
  <1>1. /\ sync.phase = "count" /\ sync.phase # "idle"
        /\ UNCHANGED <<chainVars, dbVars, wallet, tree, rebuilding, clearing, history>>
        /\ \/ sync' = [Moved("save") EXCEPT !.meta.broken["membership"] = LeavesAreMissing,
                                            !.meta.counted = TRUE]
           \/ sync' = [Moved("save") EXCEPT !.meta.counted = FALSE]
    BY DEF CountMembers
  <1>2. /\ sync \in Syncs /\ sync.meta \in Metas
        /\ \A t \in Stores : sync.meta.last[t] <= ledger
    BY <1>1, WhileRunning
  <1>3. PICK q \in Syncs : q = sync
    BY <1>2
  <1>4. PICK old \in Metas : old = sync.meta
    BY <1>2
  <1>5. PICK r : r = Moved("save")
    OBVIOUS
  <1>6. r = [phase |-> "save", from |-> q.from, start |-> q.from, latest |-> q.latest,
             page |-> << >>, skip |-> 0, meta |-> old]
    BY <1>3, <1>4, <1>5 DEF Syncs, Moved
  <1>7. PICK missing \in BOOLEAN : missing = LeavesAreMissing
    <2>1. PICK stock : stock = Cardinality(stored["membership"])
      OBVIOUS
    <2>2. PICK next : next = Len(log["membership"])
      OBVIOUS
    <2>3. (stock < next) \in BOOLEAN
      OBVIOUS
    <2>4. QED
      BY <2>1, <2>2, <2>3 DEF LeavesAreMissing
  <1>8. PICK counted \in BOOLEAN, broken \in BOOLEAN :
          /\ sync' = [r EXCEPT !.meta = [old EXCEPT !.broken["membership"] = broken,
                                                    !.counted = counted]]
          /\ counted => broken = missing
    <2>1. CASE sync' = [Moved("save") EXCEPT !.meta.broken["membership"] = LeavesAreMissing,
                                            !.meta.counted = TRUE]
      <3>1. sync' = [r EXCEPT !.meta.broken["membership"] = missing, !.meta.counted = TRUE]
        BY <1>5, <1>7, <2>1
      <3>2. sync' = [r EXCEPT !.meta = [old EXCEPT !.broken["membership"] = missing,
                                                   !.counted = TRUE]]
        BY <1>6, <3>1 DEF Metas
      <3>3. QED
        BY <3>2
    <2>2. CASE sync' = [Moved("save") EXCEPT !.meta.counted = FALSE]
      <3>1. sync' = [r EXCEPT !.meta.counted = FALSE]
        BY <1>5, <2>2
      <3>2. /\ old.broken["membership"] \in BOOLEAN
            /\ [old.broken EXCEPT !["membership"] = old.broken["membership"]] = old.broken
        BY DEF Metas, Stores
      <3>3. [old EXCEPT !.counted = FALSE]
              = [old EXCEPT !.broken["membership"] = old.broken["membership"], !.counted = FALSE]
        BY <3>2 DEF Metas
      <3>4. sync' = [r EXCEPT !.meta = [old EXCEPT !.counted = FALSE]]
        BY <1>6, <3>1 DEF Metas
      <3>5. QED
        BY <3>2, <3>3, <3>4
    <2>3. QED
      BY <1>1, <2>1, <2>2
  <1>9. PICK m : m = [old EXCEPT !.broken["membership"] = broken, !.counted = counted]
    OBVIOUS
  <1>10. m \in Metas
    BY <1>9 DEF Metas
  <1>11. /\ m.last = old.last /\ m.broken["pool"] = old.broken["pool"]
         /\ m.broken["membership"] = broken /\ m.counted = counted
    BY <1>9 DEF Metas, Stores
  <1>12. undercut = "no" => Honest(m) /\ Complete(m)
    <2>1. undercut = "no" => Honest(old)
      BY <1>1, <1>4, WhileRunning DEF SyncInv, MetaTells
    <2>2. Honest(old) => Honest(m)
      BY <1>11 DEF Honest
    <2>3. Complete(m)
      <3>1. counted /\ ~broken => stored["membership"] = Leaves("membership")
        BY <1>7, <1>8, CountTells
      <3>2. QED
        BY <1>11, <3>1 DEF Complete
    <2>4. QED
      BY <2>1, <2>2, <2>3
  <1>13. sync' = [Moved("save") EXCEPT !.meta = m]
    BY <1>5, <1>8, <1>9
  <1>14. \A t \in Stores : m.last[t] <= ledger
    BY <1>2, <1>4, <1>11
  <1>15. QED
    BY <1>1, <1>10, <1>12, <1>13, <1>14, KeepsPromises

LEMMA StartClamped ==
  ASSUME SyncInv, NEW s \in Stores, ClampStart(s)
  PROVE  SyncInv'
  <1>1. /\ sync.phase = s /\ sync.phase # "idle" /\ sync.phase # "count" /\ sync.page = << >>
        /\ sync' = [sync EXCEPT !.start = Oldest]
        /\ UNCHANGED <<chainVars, dbVars, wallet, tree, rebuilding, clearing, history>>
    BY DEF ClampStart, Asking, Fetching, Clamped, Stores
  <1>2. /\ Running /\ wallet = "ready"
        /\ sync \in Syncs /\ sync.meta \in Metas /\ ledger \in Nat \ {0}
        /\ sync.latest <= ledger /\ sync.from <= ledger
        /\ \A t \in Stores : sync.meta.last[t] <= ledger
    BY <1>1, WhileRunning
  <1>3. UNCHANGED <<ledger, log, stored, cut, passed, undercut, clearing>>
    BY <1>1 DEF chainVars, dbVars, history
  <1>4. Oldest \in Nat /\ Oldest <= ledger + 1
    BY <1>2, ReaderAssumption DEF Oldest
  <1>5. /\ sync' \in Syncs /\ sync'.phase = s /\ sync'.meta = sync.meta /\ sync'.page = << >>
        /\ sync'.skip = sync.skip /\ sync'.start = Oldest /\ sync'.from = sync.from
        /\ sync'.latest = sync.latest
    BY <1>1, <1>2, <1>4 DEF Syncs
  <1>6. SyncTells'
    BY <1>1, <1>2, <1>3, <1>4, <1>5 DEF SyncTells
  <1>7. PageTells'
    BY <1>5 DEF PageTells
  <1>8. \A t \in Stores : \A n : Accounted(t, n) => Accounted(t, n)'
    BY <1>1, <1>3, AccountedKept
  <1>9. ASSUME NEW t \in Stores PROVE PassedTells(t)'
    <2>1. SUFFICES ASSUME Sound(t)' PROVE PassedTells(t)'
      BY DEF PassedTells
    <2>2. PassedTells(t) /\ Sound(t)
      BY <1>3, <2>1 DEF SyncInv, Sound
    <2>3. \A n \in Leaves(t)' : log'[t][n] < sync'.from => Accounted(t, n)'
      BY <1>3, <1>5, <1>8, <2>2 DEF PassedTells, Leaves
    <2>4. \A n \in Leaves(t)' : log'[t][n] < sync'.start => Accounted(t, n)'
      BY <1>3, <1>5 DEF Accounted, Unreachable, Oldest
    <2>5. sync'.phase = t /\ t = "membership" => 1 .. sync'.skip \subseteq stored'[t]
      BY <1>1, <1>3, <1>5, <2>2 DEF PassedTells
    <2>6. QED
      BY <2>3, <2>4, <2>5 DEF PassedTells
  <1>10. undercut = "no" => Honest(sync.meta)' /\ Complete(sync.meta)'
    <2>1. undercut = "no" => Honest(sync.meta) /\ Complete(sync.meta)
      BY <1>1, <1>2 DEF SyncInv, MetaTells
    <2>2. QED
      BY <1>3, <1>5, <1>8, <2>1 DEF Honest, Complete, Leaves, Stores
  <1>11. QED
    BY <1>1, <1>2, <1>5, <1>6, <1>7, <1>9, <1>10, SyncMoves

---------------------------------------------------------------------------
(***************************************************************************)
(* The watermarks and flags, the tab and clearAll.                         *)
(***************************************************************************)

\* Without a sync there is nothing to tell of one.
LEMMA NothingRuns ==
  ASSUME sync' = NoSync, ChainTyped'
  PROVE  /\ SyncTells' /\ PageTells' /\ ~Running'
         /\ \A s \in Stores : PassedTells(s)'
  <1>1. NoMeta \in Metas /\ \A s \in Stores : NoMeta.last[s] = 0
    BY DEF NoMeta, Metas
  <1>2. NoSync \in Syncs
    BY <1>1 DEF NoSync, Syncs
  <1>3. /\ NoSync.phase = "idle" /\ NoSync.meta = NoMeta /\ NoSync.start = 0
        /\ NoSync.page = << >>
    BY DEF NoSync
  <1>4. SyncTells'
    <2> USE DEF ChainTyped
    <2>1. \A s \in Stores : sync'.meta.last[s] <= ledger'
      BY <1>1, <1>3
    <2>2. sync'.start <= ledger' + 1
      <3>1. sync'.start = 0
        BY <1>3
      <3>2. PICK l \in Nat : l = ledger'
        OBVIOUS
      <3>3. 0 <= l + 1
        OBVIOUS
      <3>4. QED
        BY <3>1, <3>2, <3>3
    <2>3. QED
      BY <1>2, <2>1, <2>2 DEF SyncTells, Running
  <1>5. PageTells' /\ ~Running'
    BY <1>3 DEF PageTells, Running
  <1>6. ASSUME NEW s \in Stores PROVE PassedTells(s)'
    <2>1. sync'.from = 0 /\ sync'.phase # s
      BY DEF NoSync, Stores
    <2>2. \A n \in Leaves(s)' : ~(log'[s][n] < 0)
      BY DEF ChainTyped
    <2>3. QED
      BY <2>1, <2>2 DEF PassedTells
  <1>7. QED
    BY <1>4, <1>5, <1>6

\* The stores, the chain and the tree are as they were.
LEMMA DataKept ==
  ASSUME SyncInv, UNCHANGED <<chainVars, stored, cut, passed, undercut, clearing>>,
         UNCHANGED tree \/ tree' = [s \in Stores |-> << >>]
  PROVE  /\ ChainTyped' /\ MembersTell' /\ \A s \in Stores : NoHoles(s)'
         /\ \A s \in Stores : \A n : Accounted(s, n) => Accounted(s, n)'
         /\ \A s \in Stores : Leaves(s)' = Leaves(s)
         /\ \A m : (Honest(m) => Honest(m)') /\ (Complete(m) => Complete(m)')
         /\ ledger' = ledger /\ ledger \in Nat
  <1>1. ChainTyped /\ MembersTell /\ \A s \in Stores : NoHoles(s)
    BY DEF SyncInv
  <1>2. UNCHANGED <<ledger, log>>
    BY DEF chainVars
  <1>3. ChainTyped' /\ \A s \in Stores : Leaves(s)' = Leaves(s)
    BY <1>1, <1>2 DEF ChainTyped, Leaves
  <1>4. \A s \in Stores : \A n : Accounted(s, n) => Accounted(s, n)'
    BY AccountedKept
  <1>5. \A s \in Stores : NoHoles(s)'
    BY <1>1, <1>3, <1>4 DEF NoHoles, Sound
  <1>6. MembersTell'
    <2>1. CASE UNCHANGED tree
      BY <1>1, <2>1 DEF MembersTell
    <2>2. CASE tree' = [s \in Stores |-> << >>]
      BY <2>2 DEF MembersTell, Stores
    <2>3. QED
      BY <2>1, <2>2
  <1>7. \A m : (Honest(m) => Honest(m)') /\ (Complete(m) => Complete(m)')
    BY <1>2, <1>4, PromisesKept
  <1>8. QED
    BY <1>1, <1>2, <1>3, <1>4, <1>5, <1>6, <1>7 DEF ChainTyped

LEMMA GapFound ==
  ASSUME SyncInv, NEW w \in Windows, SyncIsBroken(w)
  PROVE  SyncInv'
  <1>1. /\ wallet = "ready" /\ sync.phase = "idle"
        /\ meta' = [meta EXCEPT !.broken = [s \in Stores |-> TRUE]]
        /\ UNCHANGED <<ledger, log, stored, wallet, tree, sync, rebuilding, clearing, cut, passed, mixed,
                       undercut>>
    BY DEF SyncIsBroken, chainVars, tabVars, syncVars, history
  <1>2. /\ DataTyped /\ TabTyped /\ MetaTells /\ RebuildTells /\ sync = NoSync
    BY <1>1 DEF SyncInv, SyncTells
  <1>3. /\ ChainTyped' /\ MembersTell' /\ \A s \in Stores : NoHoles(s)'
        /\ \A s \in Stores : Leaves(s)' = Leaves(s)
        /\ \A m : (Honest(m) => Honest(m)') /\ (Complete(m) => Complete(m)')
        /\ ledger' = ledger /\ ledger \in Nat
    BY <1>1, DataKept DEF chainVars
  <1>4. /\ SyncTells' /\ PageTells' /\ ~Running'
        /\ \A s \in Stores : PassedTells(s)'
    BY <1>1, <1>2, <1>3, NothingRuns
  <1>5. meta' \in Metas /\ meta'.last = meta.last /\ meta'.broken = [s \in Stores |-> TRUE]
    BY <1>1, <1>2 DEF DataTyped, Metas
  <1>6. DataTyped'
    BY <1>1, <1>2, <1>3, <1>5 DEF DataTyped
  <1>7. TabTyped'
    BY <1>1, <1>2, <1>3 DEF TabTyped, Stores
  <1>8. MetaTells'
    <2>1. undercut = "no" => Honest(meta)
      BY <1>2 DEF MetaTells
    <2>2. Honest(meta) => Honest(meta)'
      BY <1>3, <1>5 DEF Honest
    <2>3. Complete(meta)'
      BY <1>5 DEF Complete, Stores
    <2>4. QED
      BY <1>1, <1>4, <2>1, <2>2, <2>3 DEF MetaTells
  <1>9. RebuildTells'
    BY <1>1, <1>2 DEF RebuildTells
  <1>10. QED
    BY <1>3, <1>4, <1>6, <1>7, <1>8, <1>9 DEF SyncInv

LEMMA MetadataSaved ==
  ASSUME SyncInv, SaveMetadata
  PROVE  SyncInv'
  <1>1. /\ sync.phase = "save" /\ meta' = sync.meta /\ sync' = NoSync
        /\ UNCHANGED <<ledger, log, stored, wallet, tree, rebuilding, clearing, cut, passed, mixed, undercut>>
    BY DEF SaveMetadata, chainVars, history
  <1>2. /\ DataTyped /\ TabTyped /\ MetaTells /\ RebuildTells /\ SyncTells
    BY DEF SyncInv
  <1>3. /\ ChainTyped' /\ MembersTell' /\ \A s \in Stores : NoHoles(s)'
        /\ \A s \in Stores : Leaves(s)' = Leaves(s)
        /\ \A m : (Honest(m) => Honest(m)') /\ (Complete(m) => Complete(m)')
        /\ ledger' = ledger /\ ledger \in Nat
    BY <1>1, DataKept DEF chainVars
  <1>4. /\ SyncTells' /\ PageTells' /\ ~Running'
        /\ \A s \in Stores : PassedTells(s)'
    BY <1>1, <1>3, NothingRuns
  <1>5. /\ Running /\ sync.meta \in Metas /\ \A s \in Stores : sync.meta.last[s] <= ledger
        /\ wallet = "ready"
    BY <1>1, WhileRunning
  <1>6. DataTyped'
    BY <1>1, <1>2, <1>3, <1>5 DEF DataTyped
  <1>7. TabTyped'
    BY <1>1, <1>2, <1>3, <1>5 DEF TabTyped, Stores
  <1>8. MetaTells'
    <2>1. undercut = "no" => Honest(sync.meta) /\ Complete(sync.meta)
      BY <1>1, <1>2, <1>5 DEF MetaTells
    <2>2. undercut = "no" => Honest(meta)' /\ Complete(meta)'
      BY <1>1, <1>3, <2>1 DEF Honest, Complete
    <2>3. QED
      BY <1>1, <1>4, <2>2 DEF MetaTells
  <1>9. RebuildTells'
    BY <1>1, <1>2 DEF RebuildTells
  <1>10. QED
    BY <1>3, <1>4, <1>6, <1>7, <1>8, <1>9 DEF SyncInv

LEMMA TabCloses ==
  ASSUME SyncInv, CloseTab
  PROVE  SyncInv'
  <1>1. /\ wallet' = "closed" /\ sync' = NoSync /\ rebuilding' = NoRebuild /\ clearing' = "none"
        /\ tree' = [s \in Stores |-> << >>] /\ mixed' = FALSE
        /\ UNCHANGED <<ledger, log, stored, meta, cut, passed, undercut>>
    BY DEF CloseTab, chainVars, dbVars
  <1>2. /\ ChainTyped /\ DataTyped /\ TabTyped /\ MetaTells
        /\ \A s \in Stores : NoHoles(s)
    BY DEF SyncInv
  <1>3. ChainTyped' /\ \A s \in Stores : Leaves(s)' = Leaves(s)
    BY <1>1, <1>2 DEF ChainTyped, Leaves
  <1>4. /\ SyncTells' /\ PageTells' /\ ~Running'
        /\ \A s \in Stores : PassedTells(s)'
    BY <1>3, <1>1, NothingRuns DEF ChainTyped
  <1>5. \A s \in Stores : \A n : Accounted(s, n) => Accounted(s, n)'
    BY <1>1, AccountedKept DEF chainVars
  <1>6. DataTyped'
    BY <1>1, <1>2, <1>3 DEF DataTyped
  <1>7. TabTyped'
    <2>1. tree' \in [Stores -> Seq(Nat)] /\ Range(tree'["pool"]) = {}
      BY <1>1 DEF Range, Stores
    <2>2. rebuilding' \in [{"sync", "ui"} -> Seq(Nat)]
          /\ \A r \in {"sync", "ui"} : Range(rebuilding'[r]) = {}
      BY <1>1 DEF NoRebuild, Range
    <2>3. QED
      BY <1>1, <1>2, <2>1, <2>2 DEF TabTyped, Stages
  <1>8. MembersTell'
    BY <1>1 DEF MembersTell, Stores
  <1>9. \A s \in Stores : NoHoles(s)'
    <2>1. \A s \in Stores : Sound(s)' => Sound(s)
      BY <1>1 DEF Sound
    <2>2. QED
      BY <1>1, <1>2, <1>3, <1>5, <2>1 DEF NoHoles
  <1>10. MetaTells'
    <2>1. (Honest(meta) => Honest(meta)') /\ (Complete(meta) => Complete(meta)')
      BY <1>1, <1>3, <1>5 DEF Honest, Complete, Stores
    <2>2. QED
      BY <1>1, <1>2, <1>4, <2>1 DEF MetaTells
  <1>11. RebuildTells'
    BY <1>1 DEF RebuildTells
  <1>12. QED
    BY <1>3, <1>4, <1>6, <1>7, <1>8, <1>9, <1>10, <1>11 DEF SyncInv

LEMMA NothingInOrder == InOrder({}) = << >>
  <1>1. PICK q : q = InOrder({})
    OBVIOUS
  <1>2. IsFiniteSet({}) /\ Cardinality({}) = 0
    BY FS_EmptySet
  <1>3. Ascends(q, {}) /\ q \in Seq({})
    BY <1>1, <1>2, InOrderAscends
  <1>4. DOMAIN q = 1 .. 0
    BY <1>2, <1>3 DEF Ascends
  <1>5. Len(q) = 0
    BY <1>3, <1>4
  <1>6. q = << >>
    BY <1>3, <1>5, EmptySeq
  <1>7. QED
    BY <1>1, <1>6

\* A store loses its leaves; the chain, the sync and the metadata stay.
LEMMA StoreCleared ==
  ASSUME SyncInv, NEW s \in Stores, ClearStore(s),
         IF s = "pool" THEN UNCHANGED tree ELSE tree' = [tree EXCEPT ![s] = << >>],
         clearing' \in Stages \ {"none"}, undercut' \in {"underway", "met"},
         undercut' = "underway" => sync = NoSync /\ \A t \in Stores \ {s} : Sound(t)' => Sound(t),
         mixed' \in BOOLEAN, RebuildTells'
  PROVE  SyncInv'
  <1>1. /\ stored' = [stored EXCEPT ![s] = {}] /\ cut' = [cut EXCEPT ![s] = {}]
        /\ passed' = [passed EXCEPT ![s] = {}]
        /\ UNCHANGED <<ledger, log, meta, wallet, sync, rebuilding>>
    BY DEF ClearStore, chainVars, syncVars
  <1>2. /\ ChainTyped /\ DataTyped /\ TabTyped /\ SyncTells /\ PageTells /\ MembersTell
        /\ \A t \in Stores : NoHoles(t)
    BY DEF SyncInv
  <1>3. ChainTyped' /\ \A t \in Stores : Leaves(t)' = Leaves(t)
    BY <1>1, <1>2 DEF ChainTyped, Leaves
  <1>4. /\ stored'[s] = {} /\ cut'[s] = {} /\ passed'[s] = {}
        /\ \A t \in Stores : t # s =>
             stored'[t] = stored[t] /\ cut'[t] = cut[t] /\ passed'[t] = passed[t]
    BY <1>1, <1>2 DEF DataTyped
  <1>5. /\ tree' \in [Stores -> Seq(Nat)] /\ tree'["pool"] = tree["pool"]
        /\ tree'["membership"] = IF s = "pool" THEN tree["membership"] ELSE << >>
    <2>1. tree \in [Stores -> Seq(Nat)]
      BY <1>2 DEF TabTyped
    <2>2. CASE s = "pool"
      BY <2>1, <2>2
    <2>3. CASE s = "membership"
      <3>1. PICK e : e = << >>
        OBVIOUS
      <3>2. e \in Seq(Nat)
        BY <3>1
      <3>3. tree' = [tree EXCEPT !["membership"] = e]
        BY <2>3, <3>1
      <3>4. QED
        BY <2>1, <2>3, <3>2, <3>3, <3>1 DEF Stores
    <2>4. QED
      BY <2>2, <2>3 DEF Stores
  <1>6. DataTyped'
    <2>1. /\ stored' \in [Stores -> SUBSET Nat] /\ cut' \in [Stores -> SUBSET Nat]
          /\ passed' \in [Stores -> SUBSET Nat]
      BY <1>1, <1>2 DEF DataTyped
    <2>2. QED
      BY <1>1, <1>2, <1>3, <1>4, <2>1 DEF DataTyped
  <1>7. TabTyped'
    BY <1>1, <1>2, <1>3, <1>5 DEF TabTyped, Stores
  <1>8. SyncTells' /\ PageTells'
    BY <1>1, <1>2 DEF SyncTells, PageTells, Running, Leaves
  <1>9. MembersTell'
    <2>1. CASE s = "membership"
      BY <1>5, <2>1 DEF MembersTell
    <2>2. CASE s = "pool"
      BY <1>2, <1>4, <1>5, <2>2 DEF MembersTell, Stores
    <2>3. QED
      BY <2>1, <2>2 DEF Stores
  <1>10. ASSUME NEW t \in Stores PROVE NoHoles(t)' /\ PassedTells(t)'
    <2>1. PassedTells(t)'
      <3>1. SUFFICES ASSUME sync' = NoSync PROVE PassedTells(t)'
        BY <1>1 DEF PassedTells, Sound
      <3>2. QED
        BY <1>3, <3>1, NothingRuns
    <2>2. CASE t = s
      BY <1>4, <2>1, <2>2 DEF NoHoles
    <2>3. CASE t # s
      <3>1. \A n : Accounted(t, n) => Accounted(t, n)'
        BY <1>1, <1>4, <2>3 DEF Accounted, Unreachable, Oldest
      <3>2. Sound(t)' => Sound(t)
        BY <2>3 DEF Sound
      <3>3. QED
        BY <1>2, <1>3, <1>4, <2>1, <2>3, <3>1, <3>2 DEF NoHoles
    <2>4. QED
      BY <2>2, <2>3
  <1>11. MetaTells'
    BY DEF MetaTells
  <1>12. QED
    BY <1>3, <1>6, <1>7, <1>8, <1>9, <1>10, <1>11 DEF SyncInv

LEMMA PoolCleared ==
  ASSUME SyncInv, ClearPool
  PROVE  SyncInv'
  <1>1. /\ clearing = "none" /\ ClearStore("pool") /\ UNCHANGED tree
        /\ clearing' = "pool tree" /\ mixed' = TRUE
        /\ undercut' = IF sync # NoSync THEN "met" ELSE "underway"
    BY DEF ClearPool, ClearStore
  <1>2. \A t \in Stores \ {"pool"} : ~Sound(t)'
    BY <1>1 DEF Sound
  <1>3. RebuildTells'
    BY <1>1 DEF RebuildTells
  <1>4. QED
    BY <1>1, <1>2, <1>3, StoreCleared DEF Stores, Stages

LEMMA MembershipCleared ==
  ASSUME SyncInv, ClearMembership
  PROVE  SyncInv'
  <1>1. /\ clearing = "membership" /\ ClearStore("membership") /\ clearing' = "metadata"
        /\ tree' = [tree EXCEPT !["membership"] = << >>]
        /\ undercut' = IF sync # NoSync THEN "met" ELSE undercut
        /\ mixed' = mixed
    BY DEF ClearMembership, ClearStore, ResetTree
  <1>2. TabTyped /\ DataTyped /\ RebuildTells
    BY DEF SyncInv
  <1>3. undercut \in {"underway", "met"} /\ mixed \in BOOLEAN
    BY <1>1, <1>2 DEF TabTyped
  <1>4. undercut' = "underway" => \A t \in Stores \ {"membership"} : Sound(t)
    BY <1>1 DEF Sound, Stores
  <1>5. RebuildTells'
    BY <1>1, <1>2 DEF RebuildTells, ClearStore, TabTyped, DataTyped, Stores, syncVars
  <1>6. QED
    BY <1>1, <1>3, <1>4, <1>5, StoreCleared DEF Stores, Stages

LEMMA MetadataCleared ==
  ASSUME SyncInv, ClearMetadata
  PROVE  SyncInv'
  <1>1. /\ clearing = "metadata" /\ meta' = NoMeta /\ clearing' = "none"
        /\ undercut' = IF sync = NoSync /\ undercut = "underway" THEN "no" ELSE "met"
        /\ UNCHANGED <<ledger, log, stored, wallet, tree, sync, rebuilding, cut, passed, mixed>>
    BY DEF ClearMetadata, chainVars, syncVars
  <1>2. /\ ChainTyped /\ DataTyped /\ TabTyped /\ SyncTells /\ PageTells /\ MembersTell
        /\ RebuildTells
        /\ \A t \in Stores : NoHoles(t) /\ PassedTells(t)
    BY DEF SyncInv
  <1>3. ChainTyped' /\ \A t \in Stores : Leaves(t)' = Leaves(t)
    BY <1>1, <1>2 DEF ChainTyped, Leaves
  <1>4. NoMeta \in Metas /\ ~NoMeta.counted
        /\ \A s \in Stores : NoMeta.last[s] = 0
    BY DEF NoMeta, Metas, Stores
  <1>5. DataTyped'
    <2>1. \A s \in Stores : NoMeta.last[s] <= ledger
      BY <1>2, <1>4 DEF ChainTyped
    <2>2. QED
      BY <1>1, <1>2, <1>3, <1>4, <2>1 DEF DataTyped
  <1>6. TabTyped'
    BY <1>1, <1>2, <1>3 DEF TabTyped, Stores, Stages
  <1>7. SyncTells' /\ PageTells' /\ MembersTell' /\ RebuildTells'
    BY <1>1, <1>2 DEF SyncTells, PageTells, Running, MembersTell,
                      RebuildTells, Leaves
  <1>9. \A s \in Stores : \A n : Accounted(s, n) => Accounted(s, n)'
    BY <1>1, AccountedKept DEF chainVars
  <1>10. ASSUME NEW t \in Stores PROVE NoHoles(t)' /\ PassedTells(t)'
    <2>1. Sound(t)' => Sound(t) /\ sync = NoSync
      BY <1>1 DEF Sound
    <2>2. NoHoles(t)'
      BY <1>1, <1>2, <1>3, <1>9, <2>1 DEF NoHoles
    <2>3. PassedTells(t)'
      <3>1. SUFFICES ASSUME sync' = NoSync PROVE PassedTells(t)'
        BY <1>1, <2>1 DEF PassedTells
      <3>2. QED
        BY <1>3, <3>1, NothingRuns
    <2>4. QED
      BY <2>2, <2>3
  <1>11. MetaTells'
    <2>1. undercut' = "no" => ~Running'
      BY <1>1 DEF Running
    <2>2. ASSUME NEW n \in Leaves("pool")' PROVE ~(log'["pool"][n] <= meta'.last["pool"])
      <3>1. log'["pool"][n] \in 1 .. ledger' /\ ledger' \in Nat
        BY <1>3 DEF ChainTyped, Stores
      <3>2. meta'.last["pool"] = 0
        BY <1>1, <1>4 DEF Stores
      <3>3. QED
        BY <3>1, <3>2
    <2>3. Honest(meta)' /\ Complete(meta)'
      BY <1>1, <1>4, <2>2 DEF Honest, Complete
    <2>4. QED
      BY <2>1, <2>3 DEF MetaTells
  <1>12. QED
    BY <1>3, <1>5, <1>6, <1>7, <1>10, <1>11 DEF SyncInv

---------------------------------------------------------------------------
(***************************************************************************)
(* The trees.                                                              *)
(***************************************************************************)

LEMMA RangeOfTail ==
  ASSUME NEW q \in Seq(Nat), q # << >>
  PROVE  /\ Head(q) \in Nat /\ Tail(q) \in Seq(Nat)
         /\ Range(q) = {Head(q)} \cup Range(Tail(q))
         /\ \A i \in DOMAIN Tail(q) : i \in Nat \ {0} /\ i + 1 \in DOMAIN q /\ Tail(q)[i] = q[i + 1]
         /\ 1 \in DOMAIN q /\ Head(q) = q[1]
  <1>1. PICK l \in Nat : l = Len(q) /\ DOMAIN q = 1 .. l
    BY LenProperties
  <1>2. l # 0
    BY <1>1, EmptySeq
  <1>3. /\ Head(q) \in Nat /\ Tail(q) \in Seq(Nat)
    BY HeadTailProperties
  <1>4. Len(Tail(q)) = l - 1 /\ \A i \in 1 .. l - 1 : Tail(q)[i] = q[i + 1]
    BY <1>1, <1>2, HeadTailProperties
  <1>5. DOMAIN Tail(q) = 1 .. l - 1
    BY <1>3, <1>4
  <1>6. 1 \in 1 .. l /\ Head(q) = q[1]
    BY <1>2
  <1>7. ASSUME NEW i \in 1 .. l, i # 1 PROVE i - 1 \in 1 .. l - 1 /\ q[i] = Tail(q)[i - 1]
    <2>1. i - 1 \in 1 .. l - 1 /\ (i - 1) + 1 = i
      BY <1>7
    <2>2. QED
      BY <1>4, <2>1
  <1>8. \A i \in 1 .. l - 1 : i \in Nat \ {0} /\ i + 1 \in 1 .. l
    OBVIOUS
  <1>9. Range(q) = {q[i] : i \in 1 .. l} /\ Range(Tail(q)) = {Tail(q)[i] : i \in 1 .. l - 1}
    BY <1>1, <1>5 DEF Range
  <1>10. Range(q) \subseteq {Head(q)} \cup Range(Tail(q))
    <2> SUFFICES ASSUME NEW n \in Range(q), n # Head(q) PROVE n \in Range(Tail(q))
      OBVIOUS
    <2>1. PICK i \in 1 .. l : n = q[i]
      BY <1>9
    <2>2. i # 1
      BY <1>6, <2>1
    <2>3. i - 1 \in 1 .. l - 1 /\ n = Tail(q)[i - 1]
      BY <1>7, <2>1, <2>2
    <2>4. QED
      BY <1>9, <2>3
  <1>11. {Head(q)} \cup Range(Tail(q)) \subseteq Range(q)
    BY <1>4, <1>6, <1>8, <1>9
  <1>12. QED
    BY <1>1, <1>3, <1>4, <1>5, <1>6, <1>8, <1>10, <1>11

LEMMA RangeOfAppend ==
  ASSUME NEW q \in Seq(Nat), NEW e \in Nat
  PROVE  /\ Append(q, e) \in Seq(Nat) /\ Range(Append(q, e)) = Range(q) \cup {e}
         /\ Len(Append(q, e)) = Len(q) + 1 /\ Len(q) \in Nat
         /\ DOMAIN Append(q, e) = 1 .. Len(q) + 1 /\ DOMAIN q = 1 .. Len(q)
         /\ \A i \in DOMAIN Append(q, e) :
              Append(q, e)[i] = IF i \in DOMAIN q THEN q[i] ELSE e
         /\ \A i \in DOMAIN Append(q, e) : i \notin DOMAIN q => i = Len(q) + 1
  <1>1. PICK l \in Nat : l = Len(q) /\ DOMAIN q = 1 .. l
    BY LenProperties
  <1>2. PICK r : r = Append(q, e)
    OBVIOUS
  <1>3. /\ r \in Seq(Nat) /\ Len(r) = l + 1
        /\ \A i \in 1 .. l : r[i] = q[i]
        /\ r[l + 1] = e
    BY <1>1, <1>2, AppendProperties
  <1>4. DOMAIN r = 1 .. l + 1
    BY <1>3
  <1>5. \A i \in 1 .. l + 1 : (i \notin 1 .. l => i = l + 1) /\ r[i] = IF i \in 1 .. l THEN q[i] ELSE e
    BY <1>3
  <1>6. 1 .. l \subseteq 1 .. l + 1 /\ l + 1 \in 1 .. l + 1
    OBVIOUS
  <1>7. Range(r) = {r[i] : i \in 1 .. l + 1} /\ Range(q) = {q[i] : i \in 1 .. l}
    BY <1>1, <1>4 DEF Range
  <1>8. Range(r) = Range(q) \cup {e}
    BY <1>3, <1>5, <1>6, <1>7
  <1>9. QED
    BY <1>1, <1>2, <1>3, <1>4, <1>5, <1>8

LEMMA JoinedInAnyOrder ==
  ASSUME NEW a \in Seq(Nat), NEW b \in Seq(Nat), NEW c \in Seq(Nat)
  PROVE  (a \o b) \o c = a \o (b \o c)
  BY ConcatAssociative

\* Moving the head from one sequence to the end of the one before it.
LEMMA HeadMoves ==
  ASSUME NEW t \in Seq(Nat), NEW a \in Seq(Nat), a # << >>
  PROVE  t \o a = Append(t, Head(a)) \o Tail(a)
  <1>1. Head(a) \in Nat /\ Tail(a) \in Seq(Nat) /\ a = <<Head(a)>> \o Tail(a)
    <2>1. PICK l \in Nat : l = Len(a)
      OBVIOUS
    <2>2. PICK h \in Nat : h = Head(a)
      BY RangeOfTail
    <2>3. PICK r \in Seq(Nat) : r = Tail(a)
      BY RangeOfTail
    <2>4. a[1] = h /\ Len(r) = l - 1 /\ l # 0 /\ \A i \in 1 .. l - 1 : r[i] = a[i + 1]
      BY <2>1, <2>2, <2>3, RangeOfTail, HeadTailProperties, EmptySeq
    <2>5. <<h>> \in Seq(Nat) /\ Len(<<h>>) = 1 /\ <<h>>[1] = h
      OBVIOUS
    <2>6. PICK c : c = <<h>> \o r
      OBVIOUS
    <2>7. /\ c \in Seq(Nat) /\ Len(c) = l
          /\ \A i \in 1 .. l : c[i] = IF i <= 1 THEN <<h>>[i] ELSE r[i - 1]
      BY <2>4, <2>5, <2>6, ConcatProperties
    <2>8. ASSUME NEW i \in 1 .. l PROVE a[i] = c[i]
      <3>1. CASE i = 1
        BY <2>4, <2>5, <2>7, <3>1
      <3>2. CASE i # 1
        <4>1. i - 1 \in 1 .. l - 1 /\ (i - 1) + 1 = i /\ ~(i <= 1)
          BY <3>2
        <4>2. QED
          BY <2>4, <2>7, <4>1
      <3>3. QED
        BY <3>1, <3>2
    <2>9. a = c
      BY <2>1, <2>7, <2>8, SeqEqual
    <2>10. QED
      BY <2>2, <2>3, <2>6, <2>9
  <1>2. <<Head(a)>> \in Seq(Nat) /\ Append(t, Head(a)) = t \o <<Head(a)>>
    BY <1>1, AppendIsConcat
  <1>3. (t \o <<Head(a)>>) \o Tail(a) = t \o (<<Head(a)>> \o Tail(a))
    <2>1. PICK u \in Seq(Nat), w \in Seq(Nat) : u = <<Head(a)>> /\ w = Tail(a)
      BY <1>1, <1>2
    <2>2. (t \o u) \o w = t \o (u \o w)
      BY JoinedInAnyOrder, Zenon
    <2>3. QED
      BY <2>1, <2>2, Zenon
  <1>4. t \o (<<Head(a)>> \o Tail(a)) = t \o a
    BY <1>1
  <1>5. QED
    BY <1>2, <1>3, <1>4

\* The stored leaves can be put in order, and fit a tree.
LEMMA StoredInOrder ==
  ASSUME SyncInv, NEW s \in Stores
  PROVE  /\ IsFiniteSet(stored[s]) /\ stored[s] \subseteq Nat \ {0}
         /\ InOrder(stored[s]) \in Seq(Nat) /\ Range(InOrder(stored[s])) = stored[s]
         /\ Len(InOrder(stored[s])) <= TreeCapacity
         /\ stored[s] \subseteq Leaves(s)
  <1>1. /\ stored[s] \subseteq Leaves(s) /\ log[s] \in Seq(Nat) /\ Len(log[s]) <= TreeCapacity
    BY DEF SyncInv, DataTyped, ChainTyped
  <1>2. PICK l \in Nat : l = Len(log[s]) /\ Leaves(s) = 1 .. l
    BY <1>1 DEF Leaves
  <1>3. PICK S : S = stored[s]
    OBVIOUS
  <1>4. IsFiniteSet(1 .. l) /\ Cardinality(1 .. l) = l
    BY FS_Interval
  <1>5. IsFiniteSet(S) /\ Cardinality(S) \in Nat /\ Cardinality(S) <= l
    BY <1>1, <1>2, <1>3, <1>4, FS_Subset, FS_CardinalityType
  <1>6. S \subseteq 1 .. l /\ S \subseteq Nat \ {0} /\ S \subseteq Nat
    BY <1>1, <1>2, <1>3
  <1>7. PICK q : q = InOrder(S)
    OBVIOUS
  <1>8. Ascends(q, S) /\ q \in Seq(S)
    BY <1>5, <1>6, <1>7, InOrderAscends
  <1>9. q \in Seq(Nat) /\ Range(q) = S /\ Len(q) = Cardinality(S)
    <2>1. q \in Seq(Nat) /\ Len(q) \in Nat /\ DOMAIN q = 1 .. Len(q)
      <3>1. Len(q) \in Nat /\ q \in [1 .. Len(q) -> S]
        BY <1>8
      <3>2. q \in [1 .. Len(q) -> Nat]
        BY <1>6, <3>1
      <3>3. QED
        BY <3>1, <3>2
    <2>2. DOMAIN q = 1 .. Cardinality(S) /\ Range(q) = S
      BY <1>8 DEF Ascends
    <2>3. PICK c \in Nat : c = Cardinality(S)
      BY <1>5
    <2>4. PICK k \in Nat : k = Len(q)
      BY <2>1
    <2>5. k = c
      <3>1. 1 .. k = 1 .. c
        BY <2>1, <2>2, <2>3, <2>4
      <3>2. (k >= 1 => k \in 1 .. c) /\ (c >= 1 => c \in 1 .. k)
        BY <3>1
      <3>3. QED
        BY <3>2
    <2>6. QED
      BY <2>1, <2>2, <2>3, <2>4, <2>5
  <1>10. TreeCapacity \in Nat
    BY ReaderAssumption
  <1>11. QED
    BY <1>1, <1>2, <1>3, <1>5, <1>6, <1>7, <1>9, <1>10

LEMMA TabOpens ==
  ASSUME SyncInv, OpenTab
  PROVE  SyncInv'
  <1>1. /\ wallet = "closed" /\ wallet' \in {"ready", "aborted"} /\ mixed' = FALSE
        /\ tree' = [pool |-> InOrder(stored["pool"]),
                    membership |-> InOrder(BeforeHole(stored["membership"]))]
        /\ UNCHANGED <<ledger, log, stored, meta, sync, rebuilding, clearing, cut, passed, undercut>>
    BY DEF OpenTab, chainVars, dbVars, syncVars
  <1>2. /\ ChainTyped /\ DataTyped /\ TabTyped /\ SyncTells /\ PageTells /\ MembersTell
        /\ RebuildTells /\ MetaTells
        /\ \A t \in Stores : NoHoles(t) /\ PassedTells(t)
    BY DEF SyncInv
  <1>3. sync = NoSync /\ rebuilding = NoRebuild
    BY <1>1, <1>2 DEF TabTyped
  <1>4. ChainTyped' /\ \A t \in Stores : Leaves(t)' = Leaves(t)
    BY <1>1, <1>2 DEF ChainTyped, Leaves
  <1>5. PICK q : q = InOrder(stored["pool"])
    OBVIOUS
  <1>6. q \in Seq(Nat) /\ Range(q) \subseteq Leaves("pool")
    BY <1>5, StoredInOrder DEF Stores
  <1>7. PICK S : S = BeforeHole(stored["membership"])
    OBVIOUS
  <1>8. /\ IsFiniteSet(S) /\ S \subseteq Nat \ {0} /\ S \subseteq Nat
        /\ S \subseteq stored["membership"] /\ \A n \in S : 1 .. n \subseteq S
    <2>1. IsFiniteSet(stored["membership"]) /\ stored["membership"] \subseteq Nat \ {0}
      BY StoredInOrder DEF Stores
    <2>2. S = {n \in stored["membership"] : 1 .. n \subseteq stored["membership"]}
      BY <1>7 DEF BeforeHole
    <2>3. S \subseteq stored["membership"] /\ S \subseteq Nat \ {0} /\ S \subseteq Nat
      BY <2>1, <2>2
    <2>4. ASSUME NEW n \in S, NEW k \in 1 .. n PROVE k \in S
      <3>1. n \in Nat /\ k \in Nat /\ 1 .. k \subseteq 1 .. n
        BY <2>3
      <3>2. QED
        BY <2>2, <3>1
    <2>5. QED
      BY <2>1, <2>3, <2>4, FS_Subset
  <1>9. PICK r : r = InOrder(S)
    OBVIOUS
  <1>10. /\ r \in Seq(Nat) /\ \A i \in DOMAIN r : r[i] = i /\ r[i] \in S
    <2>1. Ascends(r, S) /\ r \in Seq(S)
      BY <1>8, <1>9, InOrderAscends
    <2>2. \A i \in DOMAIN r : r[i] = i
      BY <1>8, <1>9, InitialInOrder
    <2>3. \A i \in DOMAIN r : r[i] \in S
      BY <2>1
    <2>4. QED
      BY <1>8, <2>1, <2>2, <2>3
  <1>11. /\ tree' \in [Stores -> Seq(Nat)] /\ tree'["pool"] = q /\ tree'["membership"] = r
    BY <1>1, <1>5, <1>6, <1>7, <1>9, <1>10 DEF Stores
  <1>12. DataTyped'
    BY <1>1, <1>2, <1>4 DEF DataTyped
  <1>13. TabTyped'
    BY <1>1, <1>2, <1>3, <1>4, <1>6, <1>11 DEF TabTyped, Stores
  <1>14. SyncTells' /\ PageTells'
    BY <1>1, <1>2 DEF SyncTells, PageTells, Running, Leaves
  <1>15. MembersTell'
    BY <1>1, <1>8, <1>10, <1>11 DEF MembersTell
  <1>16. \A t \in Stores : \A n : Accounted(t, n) => Accounted(t, n)'
    BY <1>1, AccountedKept DEF chainVars
  <1>17. \A t \in Stores : NoHoles(t)' /\ PassedTells(t)'
    <2>1. \A t \in Stores : NoHoles(t)'
      BY <1>1, <1>2, <1>4, <1>16 DEF NoHoles, Sound
    <2>2. \A t \in Stores : PassedTells(t)'
      BY <1>1, <1>3, <1>4, NothingRuns
    <2>3. QED
      BY <2>1, <2>2
  <1>18. MetaTells'
    <2>1. (Honest(meta) => Honest(meta)') /\ (Complete(meta) => Complete(meta)')
      BY <1>1, <1>4, <1>16 DEF Honest, Complete, Stores
    <2>2. QED
      BY <1>1, <1>2, <1>3, <2>1 DEF MetaTells, Running
  <1>19. RebuildTells'
    <2>1. rebuilding'["sync"] = << >> /\ rebuilding'["ui"] = << >> /\ stored' = stored
      BY <1>1, <1>3 DEF NoRebuild
    <2>2. q \o << >> \o << >> = q
      BY <1>6, ConcatEmptySeq
    <2>3. QED
      BY <1>5, <1>11, <2>1, <2>2 DEF RebuildTells
  <1>20. QED
    BY <1>4, <1>12, <1>13, <1>14, <1>15, <1>17, <1>18, <1>19 DEF SyncInv

\* A sync that stands still.
LEMMA SyncStands ==
  ASSUME SyncInv, UNCHANGED <<chainVars, dbVars, sync, clearing, cut, passed, undercut>>
  PROVE  /\ SyncTells' /\ PageTells' /\ MetaTells'
         /\ \A s \in Stores : PassedTells(s)'
  <1>1. UNCHANGED <<ledger, log, stored, meta, sync, clearing, cut, passed, undercut>>
    BY DEF chainVars, dbVars
  <1>2. /\ SyncTells /\ PageTells /\ MetaTells
        /\ \A t \in Stores : PassedTells(t)
    BY DEF SyncInv
  <1>3. \A t \in Stores : \A n : Accounted(t, n) => Accounted(t, n)'
    BY <1>1, AccountedKept
  <1>4. SyncTells' /\ PageTells'
    BY <1>1, <1>2 DEF SyncTells, PageTells, Running, Leaves
  <1>5. \A t \in Stores : PassedTells(t)'
    BY <1>1, <1>2, <1>3 DEF PassedTells, Sound, Leaves
  <1>6. MetaTells'
    <2>1. \A m : (Honest(m) => Honest(m)') /\ (Complete(m) => Complete(m)')
      BY <1>1, <1>3, PromisesKept
    <2>2. /\ (Honest(meta) => Honest(meta)') /\ (Complete(meta) => Complete(meta)')
          /\ (Honest(sync.meta) => Honest(sync.meta)')
          /\ (Complete(sync.meta) => Complete(sync.meta)')
      BY <1>1, <2>1 DEF Honest, Complete
    <2>3. QED
      BY <1>1, <1>2, <2>2 DEF MetaTells, Running
  <1>7. QED
    BY <1>4, <1>5, <1>6

\* The pool tree and the rebuilds change under a sync that is accounted for.
LEMMA PoolTreeMoves ==
  ASSUME SyncInv, UNCHANGED <<chainVars, dbVars, wallet, clearing, cut, passed, undercut>>,
         wallet = "ready", mixed' \in BOOLEAN,
         NEW q \in Seq(Nat), Range(q) \subseteq Leaves("pool"), tree' = [tree EXCEPT !["pool"] = q],
         rebuilding' \in [{"sync", "ui"} -> Seq(Nat)],
         \A r \in {"sync", "ui"} : Range(rebuilding'[r]) \subseteq Leaves("pool"),
         SyncTells', PageTells', MetaTells',
         \A s \in Stores : PassedTells(s)', RebuildTells'
  PROVE  SyncInv'
  <1>1. UNCHANGED <<ledger, log, stored, meta, wallet, clearing, cut, passed, undercut>>
    BY DEF chainVars, dbVars
  <1>2. /\ ChainTyped /\ DataTyped /\ TabTyped /\ MembersTell /\ \A t \in Stores : NoHoles(t)
    BY DEF SyncInv
  <1>3. ChainTyped' /\ \A t \in Stores : Leaves(t)' = Leaves(t)
    BY <1>1, <1>2 DEF ChainTyped, Leaves
  <1>4. DataTyped'
    BY <1>1, <1>2, <1>3 DEF DataTyped
  <1>5. /\ tree' \in [Stores -> Seq(Nat)] /\ tree'["pool"] = q
        /\ tree'["membership"] = tree["membership"]
    BY <1>2 DEF TabTyped, Stores
  <1>6. TabTyped'
    BY <1>1, <1>2, <1>3, <1>5 DEF TabTyped, Stores
  <1>7. MembersTell'
    BY <1>1, <1>2, <1>5 DEF MembersTell
  <1>8. \A t \in Stores : NoHoles(t)'
    <2>1. \A t \in Stores : \A n : Accounted(t, n) => Accounted(t, n)'
      BY <1>1, AccountedKept
    <2>2. QED
      BY <1>1, <1>2, <1>3, <2>1 DEF NoHoles, Sound
  <1>9. QED
    BY <1>3, <1>4, <1>6, <1>7, <1>8 DEF SyncInv

\* The pool's tree is reset, some time after its store was cleared.
LEMMA PoolTreeReset ==
  ASSUME SyncInv, ResetPoolTree
  PROVE  SyncInv'
  <1>1. /\ clearing = "pool tree" /\ clearing' = "membership"
        /\ tree' = [tree EXCEPT !["pool"] = << >>]
        /\ mixed' = (stored["pool"] # {} \/ RebuildRuns)
        /\ UNCHANGED <<ledger, log, stored, meta, wallet, sync, rebuilding, cut, passed, undercut>>
    BY DEF ResetPoolTree, ResetTree, chainVars, dbVars, syncVars
  <1>2. /\ ChainTyped /\ DataTyped /\ TabTyped /\ SyncTells /\ PageTells /\ MembersTell
        /\ MetaTells /\ \A t \in Stores : NoHoles(t) /\ PassedTells(t)
    BY DEF SyncInv
  <1>3. ChainTyped' /\ \A t \in Stores : Leaves(t)' = Leaves(t)
    BY <1>1, <1>2 DEF ChainTyped, Leaves
  <1>4. \A t \in Stores : \A n : Accounted(t, n) => Accounted(t, n)'
    BY <1>1, AccountedKept DEF chainVars
  <1>5. \A t \in Stores : Sound(t)' => Sound(t)
    BY <1>1 DEF Sound
  <1>6. DataTyped'
    BY <1>1, <1>2, <1>3 DEF DataTyped
  <1>7. /\ tree' \in [Stores -> Seq(Nat)] /\ tree'["pool"] = << >>
        /\ tree'["membership"] = tree["membership"] /\ Range(<< >>) = {}
    <2>1. tree \in [Stores -> Seq(Nat)]
      BY <1>2 DEF TabTyped
    <2>2. Range(<< >>) = {}
      BY DEF Range
    <2>3. PICK e : e = << >>
      OBVIOUS
    <2>4. e \in Seq(Nat)
      BY <2>3
    <2>5. tree' = [tree EXCEPT !["pool"] = e]
      BY <1>1, <2>3
    <2>6. QED
      BY <2>1, <2>2, <2>3, <2>4, <2>5 DEF Stores
  <1>8. mixed' \in BOOLEAN
    BY <1>1 DEF RebuildRuns
  <1>9. TabTyped'
    <2>1. Leaves("pool")' = Leaves("pool") /\ Range(tree'["pool"]) \subseteq Leaves("pool")
      BY <1>3, <1>7 DEF Stores
    <2>2. clearing' \in Stages /\ clearing' # "none" /\ undercut # "no"
      BY <1>1, <1>2 DEF TabTyped, Stages
    <2>3. QED
      BY <1>1, <1>2, <1>7, <1>8, <2>1, <2>2 DEF TabTyped
  <1>10. SyncTells' /\ PageTells' /\ MembersTell'
    BY <1>1, <1>2, <1>7 DEF SyncTells, PageTells, MembersTell, Running, Leaves
  <1>11. \A t \in Stores : NoHoles(t)' /\ PassedTells(t)'
    <2>1. \A t \in Stores : NoHoles(t)'
      BY <1>1, <1>2, <1>3, <1>4, <1>5 DEF NoHoles
    <2>2. \A t \in Stores : PassedTells(t)'
      BY <1>1, <1>2, <1>3, <1>4, <1>5 DEF PassedTells
    <2>3. QED
      BY <2>1, <2>2
  <1>12. MetaTells'
    <2>1. \A m : (Honest(m) => Honest(m)') /\ (Complete(m) => Complete(m)')
      BY <1>1, <1>4, PromisesKept
    <2>2. /\ (Honest(meta) => Honest(meta)') /\ (Complete(meta) => Complete(meta)')
          /\ (Honest(sync.meta) => Honest(sync.meta)')
          /\ (Complete(sync.meta) => Complete(sync.meta)')
      BY <1>1, <2>1 DEF Honest, Complete
    <2>3. QED
      BY <1>1, <1>2, <2>2 DEF MetaTells, Running
  <1>13. RebuildTells'
    <2>1. SUFFICES ASSUME ~mixed' PROVE RebuildTells'
      BY DEF RebuildTells
    <2>2. stored'["pool"] = {} /\ rebuilding'["sync"] = << >> /\ rebuilding'["ui"] = << >>
      BY <1>1, <2>1 DEF RebuildRuns, NoRebuild
    <2>3. << >> \o << >> \o << >> = << >>
      OBVIOUS
    <2>4. QED
      BY <1>7, <2>2, <2>3, NothingInOrder DEF RebuildTells
  <1>14. QED
    BY <1>3, <1>6, <1>9, <1>10, <1>11, <1>12, <1>13 DEF SyncInv

\* A rebuild begins on an empty tree with the stored leaves.
LEMMA RebuildBegins ==
  ASSUME SyncInv, NEW r \in {"sync", "ui"}, StartRebuild(r), UNCHANGED <<stored, wallet>>
  PROVE  /\ tree' = [tree EXCEPT !["pool"] = << >>] /\ << >> \in Seq(Nat)
         /\ Range(<< >>) \subseteq Leaves("pool")
         /\ rebuilding' \in [{"sync", "ui"} -> Seq(Nat)]
         /\ \A t \in {"sync", "ui"} : Range(rebuilding'[t]) \subseteq Leaves("pool")
         /\ mixed' \in BOOLEAN /\ RebuildTells'
  <1>1. /\ tree' = [tree EXCEPT !["pool"] = <<>>]
        /\ rebuilding' = [rebuilding EXCEPT ![r] = InOrder(stored["pool"])]
        /\ mixed' = RebuildRuns
    BY DEF StartRebuild
  <1>2. PICK q : q = InOrder(stored["pool"])
    OBVIOUS
  <1>3. q \in Seq(Nat) /\ Range(q) \subseteq Leaves("pool")
    BY <1>2, StoredInOrder DEF Stores
  <1>4. TabTyped
    BY DEF SyncInv
  <1>5. /\ rebuilding' \in [{"sync", "ui"} -> Seq(Nat)] /\ rebuilding'[r] = q
        /\ \A t \in {"sync", "ui"} : t # r => rebuilding'[t] = rebuilding[t]
    BY <1>1, <1>2, <1>3, <1>4 DEF TabTyped
  <1>6. \A t \in {"sync", "ui"} : Range(rebuilding'[t]) \subseteq Leaves("pool")
    BY <1>3, <1>4, <1>5 DEF TabTyped
  <1>7. RebuildTells'
    <2> SUFFICES ASSUME ~mixed'
                 PROVE  /\ tree'["pool"] \o rebuilding'["sync"] \o rebuilding'["ui"] = q
                        /\ rebuilding'["sync"] = << >> \/ rebuilding'["ui"] = << >>
      BY <1>2 DEF RebuildTells
    <2>1. \A t \in {"sync", "ui"} : t # r => rebuilding'[t] = << >>
      BY <1>1, <1>5 DEF RebuildRuns, NoRebuild
    <2>2. tree'["pool"] = << >>
      BY <1>1, <1>4 DEF TabTyped, Stores
    <2>3. << >> \o q \o << >> = q /\ << >> \o << >> \o q = q
      BY <1>3, ConcatEmptySeq
    <2>4. CASE r = "sync"
      BY <1>5, <2>1, <2>2, <2>3, <2>4
    <2>5. CASE r = "ui"
      BY <1>5, <2>1, <2>2, <2>3, <2>5
    <2>6. QED
      BY <2>4, <2>5
  <1>8. mixed' \in BOOLEAN
    BY <1>1 DEF RebuildRuns
  <1>9. QED
    BY <1>1, <1>5, <1>6, <1>7, <1>8 DEF Range

LEMMA RebuildAsked ==
  ASSUME SyncInv, RebuildPoolTree
  PROVE  SyncInv'
  <1>1. /\ wallet = "ready" /\ StartRebuild("ui")
        /\ UNCHANGED <<chainVars, dbVars, wallet, sync, clearing, cut, passed, undercut>>
    BY DEF RebuildPoolTree
  <1>2. UNCHANGED <<stored, wallet>>
    BY <1>1 DEF dbVars
  <1>3. /\ tree' = [tree EXCEPT !["pool"] = << >>] /\ << >> \in Seq(Nat)
        /\ Range(<< >>) \subseteq Leaves("pool")
        /\ rebuilding' \in [{"sync", "ui"} -> Seq(Nat)]
        /\ \A t \in {"sync", "ui"} : Range(rebuilding'[t]) \subseteq Leaves("pool")
        /\ mixed' \in BOOLEAN /\ RebuildTells'
    BY <1>1, <1>2, RebuildBegins
  <1>4. /\ SyncTells' /\ PageTells' /\ MetaTells'
        /\ \A s \in Stores : PassedTells(s)'
    BY <1>1, SyncStands
  <1>5. QED
    BY <1>1, <1>3, <1>4, PoolTreeMoves

LEMMA PoolDone ==
  ASSUME SyncInv, PoolFetched
  PROVE  SyncInv'
  <1>1. /\ Fetched("pool", "rebuild") /\ sync.phase = "pool" /\ sync.phase # "idle"
        /\ sync.page = << >> /\ sync.start > sync.latest /\ StartRebuild("sync")
        /\ UNCHANGED <<chainVars, dbVars, wallet, clearing, cut, passed, undercut>>
    BY DEF PoolFetched, Fetched, Fetching
  <1>2. UNCHANGED <<ledger, log, stored, meta, wallet, clearing, cut, passed, undercut>>
    BY <1>1 DEF chainVars, dbVars
  <1>3. /\ tree' = [tree EXCEPT !["pool"] = << >>] /\ << >> \in Seq(Nat)
        /\ Range(<< >>) \subseteq Leaves("pool")
        /\ rebuilding' \in [{"sync", "ui"} -> Seq(Nat)]
        /\ \A t \in {"sync", "ui"} : Range(rebuilding'[t]) \subseteq Leaves("pool")
        /\ mixed' \in BOOLEAN /\ RebuildTells'
    BY <1>1, <1>2, RebuildBegins
  <1>4. PICK m \in Metas :
          /\ sync' = [Moved("rebuild") EXCEPT !.meta = m]
          /\ m.last["pool"] = sync.latest /\ m.counted = sync.meta.counted
          /\ \A t \in Stores : t # "pool" =>
               m.last[t] = sync.meta.last[t] /\ m.broken[t] = sync.meta.broken[t]
          /\ \A t \in Stores : m.last[t] <= ledger
    BY <1>1, NewWatermark DEF Stores
  <1>5. wallet = "ready" /\ Running
    BY <1>1, WhileRunning
  <1>6. UNCHANGED <<chainVars, clearing, undercut>>
        /\ \A t \in Stores : \A n : Accounted(t, n) => Accounted(t, n)'
    BY <1>1, <1>2, AccountedKept
  <1>7. /\ SyncTells' /\ PageTells' /\ \A s \in Stores : PassedTells(s)'
        /\ sync'.phase = "rebuild" /\ sync'.meta = m
    BY <1>1, <1>4, <1>6, MovesOn
  <1>9. MetaTells'
    <2>1. \A k \in Metas : (Honest(k) => Honest(k)') /\ (Complete(k) => Complete(k)')
      <3>1. \A s \in Stores : \A n : Accounted(s, n) => Accounted(s, n)'
        BY <1>2, <1>6, AccountedKept
      <3>2. QED
        BY <1>2, <3>1, PromisesKept
    <2>2. undercut = "no" => Honest(meta) /\ Complete(meta) /\ Complete(sync.meta)
      BY <1>1, <1>5 DEF SyncInv, MetaTells
    <2>3. undercut = "no" => Honest(m)
      BY <1>1, <1>4, AllFetched DEF Honest, Stores
    <2>4. Complete(sync.meta) => Complete(m)
      BY <1>4 DEF Complete, Stores
    <2>5. meta \in Metas
      BY DEF SyncInv, DataTyped
    <2>6. undercut = "no" => Honest(meta)' /\ Complete(meta)'
      BY <1>2, <2>1, <2>2, <2>5 DEF Honest, Complete
    <2>7. undercut = "no" => Honest(sync.meta)' /\ Complete(sync.meta)'
      BY <1>7, <2>1, <2>2, <2>3, <2>4 DEF Honest, Complete
    <2>8. QED
      BY <1>2, <2>6, <2>7 DEF MetaTells
  <1>10. QED
    BY <1>1, <1>3, <1>5, <1>7, <1>9, PoolTreeMoves

\* A rebuild has room for what it has left, unless something met it.
LEMMA RebuildFits ==
  ASSUME SyncInv, NEW r \in {"sync", "ui"}, wallet = "ready", ~mixed, rebuilding[r] # << >>
  PROVE  HasRoom("pool") /\ \A t \in {"sync", "ui"} : t # r => rebuilding[t] = << >>
  <1>1. TabTyped /\ RebuildTells
    BY DEF SyncInv
  <1>2. PICK t \in Seq(Nat), a \in Seq(Nat), b \in Seq(Nat) :
          t = tree["pool"] /\ a = rebuilding["sync"] /\ b = rebuilding["ui"]
    BY <1>1 DEF TabTyped, Stores
  <1>3. t \o a \o b = InOrder(stored["pool"]) /\ (a = << >> \/ b = << >>)
    BY <1>1, <1>2 DEF RebuildTells
  <1>4. Len(t \o a \o b) <= TreeCapacity
    BY <1>3, StoredInOrder DEF Stores
  <1>5. /\ Len(t) \in Nat /\ Len(a) \in Nat /\ Len(b) \in Nat
        /\ (a # << >> => Len(a) # 0) /\ (b # << >> => Len(b) # 0)
    BY EmptySeq
  <1>6. Len(t \o a \o b) = Len(t) + Len(a) + Len(b)
    BY ConcatProperties
  <1>7. TreeCapacity \in Nat
    BY ReaderAssumption
  <1>8. a # << >> \/ b # << >>
    BY <1>2
  <1>9. Len(t) < TreeCapacity
    BY <1>4, <1>5, <1>6, <1>7, <1>8
  <1>10. QED
    BY <1>2, <1>3, <1>9 DEF HasRoom

LEMMA RebuildInserts ==
  ASSUME SyncInv, NEW r \in {"sync", "ui"}, RebuildStep(r)
  PROVE  SyncInv'
  <1>1. /\ rebuilding[r] # << >>
        /\ tree' = [tree EXCEPT !["pool"] = Append(@, Head(rebuilding[r]))]
        /\ rebuilding' = [rebuilding EXCEPT ![r] = Tail(@)]
        /\ UNCHANGED <<chainVars, dbVars, wallet, sync, clearing, history>>
    BY DEF RebuildStep, Insert
  <1>2. UNCHANGED <<ledger, log, stored, meta, wallet, sync, clearing, cut, passed, mixed, undercut>>
    BY <1>1 DEF chainVars, dbVars, history
  <1>3. TabTyped /\ RebuildTells
    BY DEF SyncInv
  <1>4. wallet = "ready"
    BY <1>1, <1>3 DEF TabTyped, NoRebuild
  <1>5. PICK t \in Seq(Nat), a \in Seq(Nat) : t = tree["pool"] /\ a = rebuilding[r]
    BY <1>3 DEF TabTyped, Stores
  <1>6. a # << >> /\ Head(a) \in Nat /\ Tail(a) \in Seq(Nat)
    BY <1>1, <1>5, HeadTailProperties
  <1>7. PICK q : q = Append(t, Head(a))
    OBVIOUS
  <1>8. q \in Seq(Nat) /\ tree' = [tree EXCEPT !["pool"] = q]
    BY <1>1, <1>3, <1>5, <1>6, <1>7 DEF TabTyped, Stores
  <1>9. Range(a) \subseteq Leaves("pool") /\ Range(t) \subseteq Leaves("pool")
    BY <1>3, <1>5 DEF TabTyped
  <1>10. Range(q) \subseteq Leaves("pool")
    BY <1>5, <1>6, <1>7, <1>9, RangeOfTail, RangeOfAppend
  <1>11. Range(Tail(a)) \subseteq Leaves("pool")
    BY <1>6, <1>9, RangeOfTail
  <1>12. /\ rebuilding' \in [{"sync", "ui"} -> Seq(Nat)] /\ rebuilding'[r] = Tail(a)
         /\ \A u \in {"sync", "ui"} : u # r => rebuilding'[u] = rebuilding[u]
    BY <1>1, <1>3, <1>5, <1>6 DEF TabTyped
  <1>13. \A u \in {"sync", "ui"} : Range(rebuilding'[u]) \subseteq Leaves("pool")
    BY <1>3, <1>11, <1>12 DEF TabTyped
  <1>14. RebuildTells'
    <2> SUFFICES ASSUME ~mixed
                 PROVE  /\ tree'["pool"] \o rebuilding'["sync"] \o rebuilding'["ui"]
                             = InOrder(stored["pool"])
                        /\ rebuilding'["sync"] = << >> \/ rebuilding'["ui"] = << >>
      BY <1>2 DEF RebuildTells
    <2>1. t \o a = q \o Tail(a) /\ t \o a \in Seq(Nat) /\ q \in Seq(Nat)
      BY <1>6, <1>7, <1>8, HeadMoves, ConcatProperties
    <2>2. /\ t \o rebuilding["sync"] \o rebuilding["ui"] = InOrder(stored["pool"])
          /\ \A u \in {"sync", "ui"} : u # r => rebuilding[u] = << >>
      BY <1>1, <1>3, <1>4, <1>5, RebuildFits DEF RebuildTells
    <2>3. tree'["pool"] = q
      BY <1>3, <1>8 DEF TabTyped, Stores
    <2>4. t \o << >> = t /\ q \o << >> = q /\ (t \o a) \o << >> = t \o a
      BY <1>5, <2>1, ConcatEmptySeq
    <2>5. CASE r = "sync"
      <3>1. rebuilding["ui"] = << >> /\ rebuilding'["ui"] = << >> /\ rebuilding'["sync"] = Tail(a)
        BY <1>12, <2>2, <2>5
      <3>2. t \o a \o << >> = InOrder(stored["pool"])
        BY <1>5, <2>2, <2>5, <3>1
      <3>3. QED
        BY <2>1, <2>3, <2>4, <3>1, <3>2
    <2>6. CASE r = "ui"
      <3>1. rebuilding["sync"] = << >> /\ rebuilding'["sync"] = << >> /\ rebuilding'["ui"] = Tail(a)
        BY <1>12, <2>2, <2>6
      <3>2. t \o << >> \o a = InOrder(stored["pool"])
        BY <1>5, <2>2, <2>6, <3>1
      <3>3. QED
        BY <2>1, <2>3, <2>4, <3>1, <3>2
    <2>7. QED
      BY <2>5, <2>6
  <1>15. /\ SyncTells' /\ PageTells' /\ MetaTells'
         /\ \A s \in Stores : PassedTells(s)'
    BY <1>1, <1>2, SyncStands
  <1>16. mixed' \in BOOLEAN /\ UNCHANGED <<chainVars, dbVars, wallet, clearing, cut, passed, undercut>>
    BY <1>1, <1>2, <1>3 DEF TabTyped
  <1>17. QED
    BY <1>4, <1>8, <1>10, <1>12, <1>13, <1>14, <1>15, <1>16, PoolTreeMoves

LEMMA RebuildRejected ==
  ASSUME SyncInv, NEW r \in {"sync", "ui"}, RebuildFails(r)
  PROVE  SyncInv'
  <1>1. /\ rebuilding[r] # << >> /\ ~HasRoom("pool")
        /\ rebuilding' = [rebuilding EXCEPT ![r] = << >>]
        /\ sync' = NoSync \/ sync' = sync
        /\ UNCHANGED <<chainVars, dbVars, wallet, tree, clearing, history>>
    BY DEF RebuildFails
  <1>2. UNCHANGED <<ledger, log, stored, meta, wallet, tree, clearing, cut, passed, mixed, undercut>>
    BY <1>1 DEF chainVars, dbVars, history
  <1>3. TabTyped /\ MetaTells /\ ChainTyped
    BY DEF SyncInv
  <1>4. wallet = "ready"
    BY <1>1, <1>3 DEF TabTyped, NoRebuild
  <1>5. mixed
    BY <1>1, <1>4, RebuildFits
  <1>6. RebuildTells'
    BY <1>2, <1>5 DEF RebuildTells
  <1>7. /\ rebuilding' \in [{"sync", "ui"} -> Seq(Nat)]
        /\ \A u \in {"sync", "ui"} : Range(rebuilding'[u]) \subseteq Leaves("pool")
    <2>1. Range(<< >>) = {}
      BY DEF Range
    <2>2. QED
      BY <1>1, <1>3, <2>1 DEF TabTyped
  <1>8. PICK q \in Seq(Nat) : q = tree["pool"]
    BY <1>3 DEF TabTyped, Stores
  <1>9. tree' = [tree EXCEPT !["pool"] = q] /\ Range(q) \subseteq Leaves("pool")
    BY <1>2, <1>3, <1>8 DEF TabTyped, Stores
  <1>10. /\ SyncTells' /\ PageTells' /\ MetaTells'
         /\ \A s \in Stores : PassedTells(s)'
    <2>1. CASE sync' = sync
      BY <1>1, <1>2, <2>1, SyncStands
    <2>2. CASE sync' = NoSync
      <3>1. /\ SyncTells' /\ PageTells' /\ ~Running'
            /\ \A s \in Stores : PassedTells(s)'
        BY <1>1, <1>2, <2>2, DataKept, NothingRuns
      <3>3. MetaTells'
        <4>1. \A m : (Honest(m) => Honest(m)') /\ (Complete(m) => Complete(m)')
          BY <1>1, <1>2, DataKept
        <4>2. undercut = "no" => Honest(meta)' /\ Complete(meta)'
          BY <1>2, <1>3, <4>1 DEF MetaTells, Honest, Complete
        <4>3. QED
          BY <1>2, <3>1, <4>2 DEF MetaTells
      <3>4. QED
        BY <3>1, <3>3
    <2>3. QED
      BY <1>1, <2>1, <2>2
  <1>11. mixed' \in BOOLEAN /\ UNCHANGED <<chainVars, dbVars, wallet, clearing, cut, passed, undercut>>
    BY <1>1, <1>2, <1>3 DEF TabTyped
  <1>12. QED
    BY <1>4, <1>6, <1>7, <1>8, <1>9, <1>10, <1>11, PoolTreeMoves

---------------------------------------------------------------------------
(***************************************************************************)
(* A page comes in.                                                        *)
(***************************************************************************)

\* The lesser of two numbers.
LEMMA LesserOfTwo ==
  ASSUME NEW a \in Nat, NEW b \in Nat
  PROVE  /\ Min({a, b}) \in Nat /\ Min({a, b}) <= a /\ Min({a, b}) <= b
         /\ Min({a, b}) = a \/ Min({a, b}) = b
  <1>1. \E x \in {a, b} : \A y \in {a, b} : x <= y
    OBVIOUS
  <1>2. Min({a, b}) \in {a, b} /\ \A y \in {a, b} : Min({a, b}) <= y
    BY <1>1 DEF Min
  <1>3. QED
    BY <1>2

\* A page is a beginning of the events of its range; the rest is beyond it.
LEMMA PageOfRange ==
  ASSUME SyncInv, NEW s \in Stores, NEW first \in Nat, NEW last \in Nat,
         NEW page, page = Page(s, Events(s, first, last))
  PROVE  /\ page \in Seq(Nat)
         /\ \A i \in DOMAIN page :
              /\ page[i] \in Leaves(s) /\ log[s][page[i]] \in first .. last
              /\ \A j \in DOMAIN page : i < j => page[i] < page[j]
         /\ Beyond(s, Events(s, first, last)) \subseteq Leaves(s)
         /\ \A n \in Leaves(s) : log[s][n] \in first .. last =>
              n \in Range(page) \cup Beyond(s, Events(s, first, last))
  <1>1. ChainTyped
    BY DEF SyncInv
  <1>2. PICK l \in Nat : Leaves(s) = 1 .. l
    BY <1>1 DEF ChainTyped, Leaves
  <1>3. PICK S : S = {n \in Leaves(s) : log[s][n] \in first .. last}
    OBVIOUS
  <1>4. IsFiniteSet(S) /\ S \subseteq Nat /\ S \subseteq Leaves(s)
    <2>1. IsFiniteSet(1 .. l)
      BY FS_Interval
    <2>2. S \subseteq 1 .. l
      BY <1>2, <1>3
    <2>3. IsFiniteSet(S)
      BY <2>1, <2>2, FS_Subset
    <2>4. QED
      BY <1>2, <2>2, <2>3
  <1>5. PICK q : q = InOrder(S)
    OBVIOUS
  <1>6. q = Events(s, first, last)
    BY <1>3, <1>5 DEF Events
  <1>7. Ascends(q, S) /\ q \in Seq(S)
    BY <1>4, <1>5, InOrderAscends
  <1>8. PICK k \in Nat : k = Len(q) /\ DOMAIN q = 1 .. k
    BY <1>7, LenProperties
  <1>9. PICK room \in Nat : room = PageRoom[s]
    BY ReaderAssumption DEF Stores
  <1>10. PICK m \in Nat : m = Min({room, k}) /\ m <= k
    BY LesserOfTwo
  <1>11. page = SubSeq(q, 1, m)
    BY <1>6, <1>8, <1>9, <1>10 DEF Page
  <1>12. \A i \in 1 .. m : i \in 1 .. k /\ q[i] \in S
    BY <1>7, <1>8, <1>10
  <1>13. /\ page \in Seq(S) /\ DOMAIN page = 1 .. m
         /\ \A i \in 1 .. m : page[i] = q[i]
    <2>1. /\ page \in Seq(S) /\ Len(page) = IF 1 <= m THEN m - 1 + 1 ELSE 0
          /\ \A i \in 1 .. m - 1 + 1 : page[i] = q[1 + i - 1]
      BY <1>11, <1>12, SubSeqProperties
    <2>2. Len(page) = m /\ \A i \in 1 .. m : page[i] = q[i]
      BY <2>1
    <2>3. QED
      BY <2>1, <2>2, LenProperties
  <1>14. page \in Seq(Nat)
    BY <1>4, <1>13, SeqMonotonic
  <1>15. \A i \in DOMAIN page : page[i] \in S
    BY <1>12, <1>13
  <1>16. \A i, j \in DOMAIN page : i < j => page[i] < page[j]
    BY <1>7, <1>8, <1>12, <1>13 DEF Ascends
  <1>17. Range(q) = S
    BY <1>7 DEF Ascends
  <1>18. page = Page(s, q) /\ Beyond(s, q) = S \ Range(page)
    BY <1>6, <1>17 DEF Beyond
  <1>19. QED
    BY <1>3, <1>4, <1>6, <1>14, <1>15, <1>16, <1>18

LEMMA ChunkFetched ==
  ASSUME SyncInv, NEW s \in Stores, FetchChunk(s)
  PROVE  SyncInv'
  <1>1. /\ sync.phase = s /\ sync.phase # "idle" /\ sync.phase # "count" /\ sync.page = << >>
        /\ sync.start <= sync.latest
        /\ sync' = [sync EXCEPT !.page = Page(s, Events(s, sync.start, ChunkEnd)),
                                !.start = ChunkEnd + 1,
                                !.skip = IF s = "membership" THEN Len(tree[s]) ELSE 0]
        /\ cut' = [cut EXCEPT ![s] = @ \cup (Beyond(s, Events(s, sync.start, ChunkEnd)) \ stored[s])]
        /\ UNCHANGED <<ledger, log, stored, meta, wallet, tree, rebuilding, clearing,
                       passed, mixed, undercut>>
    BY DEF FetchChunk, Asking, Fetching, NextChunk, chainVars, dbVars, Stores
  <1>2. /\ Running /\ wallet = "ready"
        /\ sync \in Syncs /\ sync.meta \in Metas /\ ledger \in Nat \ {0}
        /\ sync.latest <= ledger /\ sync.from <= ledger
        /\ \A t \in Stores : sync.meta.last[t] <= ledger
    BY <1>1, WhileRunning
  <1>3. /\ ChainTyped /\ DataTyped /\ TabTyped /\ MembersTell /\ RebuildTells /\ MetaTells
        /\ \A t \in Stores : NoHoles(t) /\ PassedTells(t)
    BY DEF SyncInv
  <1>4. PICK first \in Nat : first = sync.start
    BY <1>2 DEF Syncs
  <1>5. PICK last \in Nat : last = ChunkEnd /\ last <= sync.latest
    <2>1. PICK a \in Nat : a = sync.latest
      BY <1>2 DEF Syncs
    <2>2. ChunkSize \in Nat \ {0}
      BY ReaderAssumption
    <2>3. PICK b \in Nat : b = sync.start + ChunkSize - 1
      BY <1>4, <2>2
    <2>4. QED
      BY <2>1, <2>3, LesserOfTwo DEF ChunkEnd
  <1>6. PICK page : page = Page(s, Events(s, first, last))
    OBVIOUS
  <1>7. PICK beyond : beyond = Beyond(s, Events(s, first, last))
    OBVIOUS
  <1>8. /\ page \in Seq(Nat) /\ beyond \subseteq Leaves(s)
        /\ \A i \in DOMAIN page :
             /\ page[i] \in Leaves(s) /\ log[s][page[i]] \in first .. last
             /\ \A j \in DOMAIN page : i < j => page[i] < page[j]
        /\ \A n \in Leaves(s) : log[s][n] \in first .. last => n \in Range(page) \cup beyond
    BY <1>6, <1>7, PageOfRange
  <1>9. PICK skip \in Nat : skip = IF s = "membership" THEN Len(tree[s]) ELSE 0
    <2>1. tree[s] \in Seq(Nat)
      BY <1>3 DEF TabTyped
    <2>2. Len(tree[s]) \in Nat
      BY <2>1
    <2>3. QED
      BY <2>2
  <1>10. /\ sync' \in Syncs /\ sync'.phase = s /\ sync'.page = page /\ sync'.start = last + 1
         /\ sync'.skip = skip /\ sync'.meta = sync.meta /\ sync'.latest = sync.latest
         /\ sync'.from = sync.from
    <2>1. sync' = [sync EXCEPT !.page = page, !.start = last + 1, !.skip = skip]
      BY <1>1, <1>4, <1>5, <1>6, <1>9
    <2>2. last + 1 \in Nat
      OBVIOUS
    <2>3. QED
      BY <1>1, <1>2, <1>8, <2>1, <2>2 DEF Syncs
  <1>11. cut' = [cut EXCEPT ![s] = @ \cup (beyond \ stored[s])]
    BY <1>1, <1>4, <1>5, <1>7
  <1>12. /\ cut' \in [Stores -> SUBSET Nat] /\ cut'[s] = cut[s] \cup (beyond \ stored[s])
         /\ \A t \in Stores : cut[t] \subseteq cut'[t] /\ cut'[t] \subseteq Leaves(t)
    <2>1. Leaves(s) \subseteq Nat
      BY <1>3 DEF ChainTyped, Leaves
    <2>2. QED
      BY <1>3, <1>8, <1>11, <2>1 DEF DataTyped
  <1>13. ChainTyped' /\ \A t \in Stores : Leaves(t)' = Leaves(t)
    BY <1>1, <1>3 DEF ChainTyped, Leaves
  <1>14. \A t \in Stores : \A n : Accounted(t, n) => Accounted(t, n)'
    BY <1>1, <1>12, AccountedKept DEF chainVars
  <1>15. DataTyped'
    BY <1>1, <1>3, <1>12, <1>13 DEF DataTyped
  <1>16. TabTyped'
    BY <1>1, <1>2, <1>3, <1>13 DEF TabTyped, Stores
  <1>17. SyncTells'
    <2>1. last + 1 <= ledger + 1
      BY <1>2, <1>5 DEF Syncs
    <2>2. QED
      BY <1>1, <1>2, <1>10, <2>1 DEF SyncTells
  <1>18. PageTells'
    <2>1. \A i \in DOMAIN page : log[s][page[i]] < last + 1
      BY <1>8
    <2>2. QED
      BY <1>1, <1>8, <1>10, <1>13, <2>1 DEF PageTells
  <1>19. MembersTell'
    BY <1>1, <1>3 DEF MembersTell
  <1>20. \A t \in Stores : NoHoles(t)'
    BY <1>1, <1>3, <1>13, <1>14 DEF NoHoles, Sound
  <1>21. ASSUME NEW t \in Stores PROVE PassedTells(t)'
    <2>0. Sound(t)' => /\ Sound(t) /\ PassedTells(t)
                       /\ \A n \in Leaves(t)' : log'[t][n] < sync'.from => Accounted(t, n)'
      BY <1>1, <1>3, <1>10, <1>13, <1>14 DEF PassedTells, Sound
    <2>1. SUFFICES ASSUME Sound(s), t = s PROVE PassedTells(s)'
      BY <1>10, <2>0 DEF PassedTells
    <2>2. ASSUME NEW n \in Leaves(s), log[s][n] < last + 1
          PROVE  Accounted(s, n)' \/ n \in Range(page)
      <3>1. log[s][n] \in Nat
        BY <1>3 DEF ChainTyped
      <3>2. CASE log[s][n] < first
        <4>1. Range(sync.page) = {}
          BY <1>1 DEF Range
        <4>2. Accounted(s, n)
          BY <1>1, <1>3, <1>4, <2>1, <3>2, <4>1 DEF PassedTells
        <4>3. QED
          BY <1>14, <4>2
      <3>3. CASE ~(log[s][n] < first)
        <4>1. log[s][n] \in first .. last
          BY <2>2, <3>1, <3>3
        <4>2. n \in Range(page) \cup beyond
          BY <1>8, <4>1
        <4>3. n \in beyond => n \in stored'[s] \/ n \in cut'[s]
          BY <1>1, <1>12
        <4>4. QED
          BY <4>2, <4>3 DEF Accounted, Unreachable
      <3>4. QED
        BY <3>2, <3>3
    <2>3. s = "membership" => 1 .. skip \subseteq stored["membership"]
      <3> SUFFICES ASSUME s = "membership", NEW i \in 1 .. skip PROVE i \in stored["membership"]
        OBVIOUS
      <3>1. i \in DOMAIN tree["membership"]
        BY <1>3, <1>9 DEF TabTyped, Stores
      <3>2. QED
        BY <1>3, <3>1 DEF MembersTell
    <2>4. QED
      BY <1>1, <1>10, <1>13, <2>0, <2>1, <2>2, <2>3 DEF PassedTells
  <1>22. MetaTells'
    <2>1. \A m : (Honest(m) => Honest(m)') /\ (Complete(m) => Complete(m)')
      BY <1>1, <1>14, PromisesKept
    <2>2. /\ undercut = "no" => Honest(meta)' /\ Complete(meta)'
          /\ undercut = "no" => Honest(sync.meta)' /\ Complete(sync.meta)'
      BY <1>1, <1>2, <1>3, <1>10, <2>1 DEF MetaTells, Honest, Complete
    <2>3. QED
      BY <1>1, <2>2 DEF MetaTells
  <1>23. RebuildTells'
    BY <1>1, <1>3 DEF RebuildTells
  <1>24. QED
    BY <1>13, <1>15, <1>16, <1>17, <1>18, <1>19, <1>20, <1>21, <1>22, <1>23 DEF SyncInv

\* The head of a page is the least leaf on it.
LEMMA HeadOfPage ==
  ASSUME SyncInv, NEW s \in Stores, sync.phase = s, sync.page # << >>
  PROVE  /\ Head(sync.page) \in Leaves(s) /\ log[s][Head(sync.page)] < sync.start
         /\ Range(sync.page) = {Head(sync.page)} \cup Range(Tail(sync.page))
         /\ \A n \in Range(sync.page) : n # Head(sync.page) => Head(sync.page) < n
         /\ \A i \in DOMAIN Tail(sync.page) :
              /\ Tail(sync.page)[i] \in Leaves(s) /\ log[s][Tail(sync.page)[i]] < sync.start
              /\ \A j \in DOMAIN Tail(sync.page) :
                   i < j => Tail(sync.page)[i] < Tail(sync.page)[j]
         /\ Tail(sync.page) \in Seq(Nat)
  <1>1. PageTells /\ sync \in Syncs
    BY DEF SyncInv, SyncTells
  <1>2. PICK q \in Seq(Nat) : q = sync.page /\ q # << >>
    BY <1>1 DEF Syncs
  <1>3. \A i \in DOMAIN q :
          /\ q[i] \in Leaves(s) /\ log[s][q[i]] < sync.start
          /\ \A j \in DOMAIN q : i < j => q[i] < q[j]
    BY <1>1, <1>2 DEF PageTells
  <1>4. /\ Range(q) = {Head(q)} \cup Range(Tail(q)) /\ Tail(q) \in Seq(Nat)
        /\ \A i \in DOMAIN Tail(q) : i \in Nat \ {0} /\ i + 1 \in DOMAIN q /\ Tail(q)[i] = q[i + 1]
        /\ 1 \in DOMAIN q /\ Head(q) = q[1]
    BY <1>2, RangeOfTail
  <1>5. ASSUME NEW n \in Range(q), n # Head(q) PROVE Head(q) < n
    <2>1. PICK i \in DOMAIN Tail(q) : n = Tail(q)[i]
      BY <1>4, <1>5 DEF Range
    <2>2. i + 1 \in DOMAIN q /\ 1 < i + 1 /\ n = q[i + 1]
      BY <1>4, <2>1
    <2>3. QED
      BY <1>3, <1>4, <2>2
  <1>6. ASSUME NEW i \in DOMAIN Tail(q)
        PROVE  /\ Tail(q)[i] \in Leaves(s) /\ log[s][Tail(q)[i]] < sync.start
               /\ \A j \in DOMAIN Tail(q) : i < j => Tail(q)[i] < Tail(q)[j]
    <2>1. Tail(q)[i] \in Leaves(s) /\ log[s][Tail(q)[i]] < sync.start
      BY <1>3, <1>4
    <2>2. ASSUME NEW j \in DOMAIN Tail(q), i < j PROVE Tail(q)[i] < Tail(q)[j]
      <3>1. i + 1 \in DOMAIN q /\ j + 1 \in DOMAIN q /\ i + 1 < j + 1
        BY <1>4, <2>2
      <3>2. QED
        BY <1>3, <1>4, <3>1
    <2>3. QED
      BY <2>1, <2>2
  <1>7. QED
    BY <1>2, <1>3, <1>4, <1>5, <1>6

\* The page loses its head, a leaf that is now accounted for.
LEMMA PageAdvances ==
  ASSUME SyncInv, NEW s \in Stores, sync.phase = s, sync.page # << >>,
         NEW leaf, leaf = Head(sync.page), sync' = [sync EXCEPT !.page = Tail(@)],
         UNCHANGED <<ledger, log, clearing, undercut>>,
         \A t \in Stores : stored[t] \subseteq stored'[t],
         \A t \in Stores : \A n : Accounted(t, n) => Accounted(t, n)',
         Sound(s) => Accounted(s, leaf)'
  PROVE  /\ SyncTells' /\ PageTells' /\ \A t \in Stores : PassedTells(t)'
         /\ sync'.phase = sync.phase /\ sync'.meta = sync.meta
  <1>1. SyncTells /\ \A t \in Stores : PassedTells(t)
    BY DEF SyncInv
  <1>2. /\ Range(sync.page) = {leaf} \cup Range(Tail(sync.page))
        /\ Tail(sync.page) \in Seq(Nat)
        /\ \A i \in DOMAIN Tail(sync.page) :
             /\ Tail(sync.page)[i] \in Leaves(s) /\ log[s][Tail(sync.page)[i]] < sync.start
             /\ \A j \in DOMAIN Tail(sync.page) :
                  i < j => Tail(sync.page)[i] < Tail(sync.page)[j]
    BY HeadOfPage
  <1>3. /\ sync' \in Syncs /\ sync'.phase = s /\ sync'.page = Tail(sync.page)
        /\ sync'.start = sync.start /\ sync'.skip = sync.skip /\ sync'.meta = sync.meta
        /\ sync'.latest = sync.latest /\ sync'.from = sync.from
    BY <1>1, <1>2 DEF SyncTells, Syncs
  <1>4. s # "idle" /\ Running
    BY DEF Stores, Running, NoSync
  <1>5. SyncTells'
    BY <1>1, <1>3, <1>4 DEF SyncTells
  <1>6. PageTells'
    BY <1>2, <1>3 DEF PageTells, Leaves
  <1>7. ASSUME NEW t \in Stores PROVE PassedTells(t)'
    <2>0. Sound(t)' => /\ Sound(t)
                       /\ \A n \in Leaves(t)' : log'[t][n] < sync'.from => Accounted(t, n)'
      BY <1>1, <1>3 DEF PassedTells, Sound, Leaves
    <2>1. SUFFICES ASSUME Sound(s), t = s PROVE PassedTells(s)'
      BY <1>3, <2>0 DEF PassedTells
    <2>2. /\ \A n \in Leaves(s) :
               log[s][n] < sync.start => Accounted(s, n) \/ n \in Range(sync.page)
          /\ s = "membership" => 1 .. sync.skip \subseteq stored[s]
      BY <1>1, <2>1 DEF PassedTells
    <2>3. \A n \in Leaves(s) :
            log[s][n] < sync.start => Accounted(s, n)' \/ n \in Range(Tail(sync.page))
      BY <1>2, <2>1, <2>2
    <2>4. QED
      BY <1>3, <2>0, <2>1, <2>2, <2>3 DEF PassedTells, Leaves
  <1>8. QED
    BY <1>3, <1>5, <1>6, <1>7

\* A leaf is stored under its index, and the sync goes on or gives up.
LEMMA LeafStored ==
  ASSUME SyncInv, NEW s \in Stores, sync.phase = s, sync.page # << >>,
         Put(s, Head(sync.page)),
         sync' = [sync EXCEPT !.page = Tail(@)] \/ sync' = AfterFailure,
         UNCHANGED <<ledger, log, meta, wallet, rebuilding, clearing, undercut>>,
         mixed' \in BOOLEAN, tree' \in [Stores -> Seq(Nat)],
         Range(tree'["pool"]) \subseteq Leaves("pool"), MembersTell', RebuildTells'
  PROVE  SyncInv'
  <1>1. PICK leaf : leaf = Head(sync.page)
    OBVIOUS
  <1>2. /\ leaf \in Leaves(s) /\ log[s][leaf] < sync.start
        /\ \A n \in Range(sync.page) : n # leaf => leaf < n
    BY <1>1, HeadOfPage
  <1>3. /\ stored' = [stored EXCEPT ![s] = @ \cup {leaf}] /\ cut' = [cut EXCEPT ![s] = @ \ {leaf}]
        /\ passed' = [passed EXCEPT ![s] = @ \ {leaf}]
    BY <1>1 DEF Put
  <1>4. /\ ChainTyped /\ DataTyped /\ TabTyped /\ MetaTells /\ PassedTells(s)
        /\ \A t \in Stores : NoHoles(t)
    BY DEF SyncInv
  <1>5. /\ Running /\ wallet = "ready"
        /\ sync \in Syncs /\ sync.meta \in Metas /\ sync.phase # "idle" /\ sync.phase # "count"
        /\ \A t \in Stores : sync.meta.last[t] <= ledger
    BY WhileRunning DEF Stores
  <1>6. ChainTyped' /\ \A t \in Stores : Leaves(t)' = Leaves(t)
    BY <1>4 DEF ChainTyped, Leaves
  <1>7. Leaves(s) \subseteq Nat /\ Leaves(s) = 1 .. Len(log[s]) /\ Len(log[s]) \in Nat
    BY <1>4 DEF ChainTyped, Leaves
  <1>8. /\ stored' \in [Stores -> SUBSET Nat] /\ cut' \in [Stores -> SUBSET Nat]
        /\ passed' \in [Stores -> SUBSET Nat] /\ passed'[s] = passed[s] \ {leaf}
        /\ stored'[s] = stored[s] \cup {leaf} /\ cut'[s] = cut[s] \ {leaf}
        /\ \A t \in Stores : t # s => stored'[t] = stored[t] /\ cut'[t] = cut[t] /\ passed'[t] = passed[t]
    BY <1>2, <1>3, <1>4, <1>7 DEF DataTyped
  <1>9. \A t \in Stores : /\ stored[t] \subseteq stored'[t]
                          /\ cut[t] \subseteq cut'[t] \cup stored'[t]
                          /\ passed[t] \subseteq passed'[t] \cup stored'[t]
    BY <1>8
  <1>10. \A t \in Stores : \A n : Accounted(t, n) => Accounted(t, n)'
    BY <1>9, AccountedKept DEF chainVars
  <1>11. Accounted(s, leaf)'
    BY <1>8 DEF Accounted
  <1>12. DataTyped'
    <2>1. \A t \in Stores : /\ stored'[t] \subseteq Leaves(t) /\ cut'[t] \subseteq Leaves(t)
                            /\ passed'[t] \subseteq Leaves(t)
      BY <1>2, <1>4, <1>8 DEF DataTyped
    <2>2. QED
      BY <1>4, <1>6, <1>8, <2>1 DEF DataTyped
  <1>13. /\ SyncTells' /\ PageTells' /\ \A t \in Stores : PassedTells(t)'
         /\ sync'.meta = sync.meta
    <2>1. CASE sync' = [sync EXCEPT !.page = Tail(@)]
      BY <1>1, <1>9, <1>10, <1>11, <2>1, PageAdvances
    <2>2. CASE sync' = AfterFailure
      <3>1. PICK p \in {"rebuild", "membership", "count", "save"} :
              sync' = [Moved(p) EXCEPT !.meta = sync.meta]
        BY <1>5, <2>2 DEF AfterFailure, Moved, Syncs
      <3>2. UNCHANGED chainVars
        BY DEF chainVars
      <3>3. QED
        BY <1>5, <1>10, <3>1, <3>2, MovesOn
    <2>3. QED
      BY <2>1, <2>2
  <1>14. TabTyped'
    BY <1>4, <1>5, <1>6 DEF TabTyped, Stores
  <1>15. ASSUME NEW t \in Stores PROVE NoHoles(t)'
    <2>1. SUFFICES ASSUME Sound(t), NEW j \in stored'[t], NEW i \in Leaves(t), i < j
                   PROVE  Accounted(t, i)'
      BY <1>6 DEF NoHoles, Sound
    <2>2. CASE j \in stored[t]
      BY <1>4, <1>10, <2>1, <2>2 DEF NoHoles
    <2>3. CASE j \notin stored[t]
      <3>1. t = s /\ j = leaf
        BY <1>8, <2>1, <2>3
      <3>2. log[s][i] <= log[s][leaf] /\ log[s][i] \in Nat /\ log[s][leaf] \in Nat
        BY <1>2, <1>4, <2>1, <3>1 DEF ChainTyped
      <3>3. sync.start \in Nat
        BY <1>5 DEF Syncs
      <3>4. log[s][i] < sync.start
        BY <1>2, <3>2, <3>3
      <3>5. Accounted(s, i) \/ i \in Range(sync.page)
        BY <1>4, <2>1, <3>1, <3>4 DEF PassedTells
      <3>6. i \notin Range(sync.page)
        <4>1. i \in Nat /\ leaf \in Nat /\ i < leaf
          BY <1>2, <1>7, <2>1, <3>1
        <4>2. QED
          BY <1>2, <4>1
      <3>7. QED
        BY <1>10, <3>1, <3>5, <3>6
    <2>4. QED
      BY <2>2, <2>3
  <1>16. MetaTells'
    <2>1. \A m : (Honest(m) => Honest(m)') /\ (Complete(m) => Complete(m)')
      BY <1>9, <1>10, PromisesKept DEF Stores
    <2>2. undercut = "no" => /\ Honest(meta)' /\ Complete(meta)'
                             /\ Honest(sync.meta)' /\ Complete(sync.meta)'
      BY <1>4, <1>5, <1>13, <2>1 DEF MetaTells, Honest, Complete
    <2>3. QED
      BY <2>2 DEF MetaTells
  <1>17. QED
    BY <1>6, <1>12, <1>13, <1>14, <1>15, <1>16 DEF SyncInv

LEMMA CommitmentProcessed ==
  ASSUME SyncInv, ProcessNewCommitment
  PROVE  SyncInv'
  <1>1. /\ sync.phase = "pool" /\ sync.page # << >> /\ Put("pool", Head(sync.page))
        /\ \/ Insert("pool", Head(sync.page)) /\ sync' = [sync EXCEPT !.page = Tail(@)]
           \/ UNCHANGED tree /\ sync' = AfterFailure
        /\ mixed' = TRUE
        /\ UNCHANGED <<ledger, log, meta, wallet, rebuilding, clearing, undercut>>
    BY DEF ProcessNewCommitment, chainVars
  <1>2. TabTyped /\ MembersTell /\ DataTyped
    BY DEF SyncInv
  <1>3. Head(sync.page) \in Leaves("pool") /\ Head(sync.page) \in Nat
    <2>1. Head(sync.page) \in Leaves("pool")
      BY <1>1, HeadOfPage DEF Stores
    <2>2. Leaves("pool") \subseteq Nat
      BY DEF SyncInv, ChainTyped, Stores, Leaves
    <2>3. QED
      BY <2>1, <2>2
  <1>4. PICK t \in Seq(Nat) : t = tree["pool"] /\ Range(t) \subseteq Leaves("pool")
    BY <1>2 DEF TabTyped, Stores
  <1>5. PICK q \in Seq(Nat) : /\ tree' = [tree EXCEPT !["pool"] = q]
                              /\ Range(q) \subseteq Leaves("pool")
    <2>1. CASE tree' = [tree EXCEPT !["pool"] = Append(@, Head(sync.page))]
      <3>1. tree' = [tree EXCEPT !["pool"] = Append(t, Head(sync.page))]
        BY <1>2, <1>4, <2>1 DEF TabTyped, Stores
      <3>2. PICK e \in Nat : e = Head(sync.page)
        BY <1>3
      <3>3. Append(t, e) \in Seq(Nat) /\ Range(Append(t, e)) = Range(t) \cup {e}
        BY RangeOfAppend
      <3>4. QED
        BY <1>3, <1>4, <3>1, <3>2, <3>3
    <2>2. CASE UNCHANGED tree
      BY <1>2, <1>4, <2>2 DEF TabTyped, Stores
    <2>3. QED
      BY <1>1, <2>1, <2>2 DEF Insert
  <1>6. /\ tree' \in [Stores -> Seq(Nat)] /\ tree'["pool"] = q
        /\ tree'["membership"] = tree["membership"]
    BY <1>2, <1>5 DEF TabTyped, Stores
  <1>7. MembersTell'
    <2>1. stored'["membership"] = stored["membership"]
      BY <1>1, <1>2 DEF Put, DataTyped, Stores
    <2>2. QED
      BY <1>2, <1>6, <2>1 DEF MembersTell
  <1>8. RebuildTells'
    BY <1>1 DEF RebuildTells
  <1>9. QED
    BY <1>1, <1>5, <1>6, <1>7, <1>8, LeafStored DEF Stores

LEMMA LeafProcessed ==
  ASSUME SyncInv, ProcessLeafAdded
  PROVE  SyncInv'
  <1> DEFINE leaf == Head(sync.page)
  <1>1. /\ sync.phase = "membership" /\ sync.page # << >>
        /\ UNCHANGED <<ledger, log, meta, wallet, rebuilding, clearing, mixed, undercut>>
    BY DEF ProcessLeafAdded, chainVars
  <1>2. /\ TabTyped /\ MembersTell /\ DataTyped /\ RebuildTells /\ MetaTells
        /\ \A t \in Stores : PassedTells(t)
    BY DEF SyncInv
  <1>3. leaf \in Leaves("membership") /\ leaf \in Nat \ {0}
    <2>1. leaf \in Leaves("membership")
      BY <1>1, HeadOfPage DEF Stores
    <2>2. Leaves("membership") \subseteq Nat \ {0}
      BY DEF SyncInv, ChainTyped, Stores, Leaves
    <2>3. QED
      BY <2>1, <2>2
  <1>4. PICK t \in Seq(Nat) : t = tree["membership"]
    BY <1>2 DEF TabTyped, Stores
  <1>5. ASSUME leaf <= sync.skip, UNCHANGED <<stored, cut, passed, tree>>,
               sync' = [sync EXCEPT !.page = Tail(@)]
        PROVE  SyncInv'
    <2>1. /\ wallet = "ready"
          /\ Running /\ sync \in Syncs
      BY <1>1, WhileRunning
    <2>2. UNCHANGED chainVars
      BY <1>1 DEF chainVars
    <2>3. \A s \in Stores : \A n : Accounted(s, n) => Accounted(s, n)'
      BY <1>5, <2>2, AccountedKept
    <2>4. Sound("membership") => Accounted("membership", leaf)
      <3> SUFFICES ASSUME Sound("membership") PROVE leaf \in stored["membership"]
        BY DEF Accounted
      <3>1. 1 .. sync.skip \subseteq stored["membership"]
        BY <1>1, <1>2 DEF PassedTells, Stores
      <3>2. leaf \in 1 .. sync.skip
        BY <1>3, <1>5, <2>1 DEF Syncs
      <3>3. QED
        BY <3>1, <3>2
    <2>5. PICK n : n = leaf
      OBVIOUS
    <2>6. /\ SyncTells' /\ PageTells' /\ \A s \in Stores : PassedTells(s)'
          /\ sync'.phase = sync.phase /\ sync'.meta = sync.meta
      <3>1. Sound("membership") => Accounted("membership", n)'
        BY <2>3, <2>4, <2>5 DEF Stores
      <3> HIDE DEF leaf
      <3>2. n = Head(sync.page)
        BY <2>5 DEF leaf
      <3>3. \A s \in Stores : stored[s] \subseteq stored'[s]
        BY <1>5
      <3>4. QED
        BY <1>1, <1>5, <2>3, <3>1, <3>2, <3>3, PageAdvances DEF Stores
    <2>7. undercut = "no" => Honest(sync.meta)' /\ Complete(sync.meta)'
      <3>1. \A m : (Honest(m) => Honest(m)') /\ (Complete(m) => Complete(m)')
        BY <1>1, <1>5, <2>3, PromisesKept
      <3>2. QED
        BY <1>1, <1>2, <2>1, <2>6, <3>1 DEF MetaTells, Honest, Complete
    <2>8. UNCHANGED <<chainVars, dbVars, wallet, tree, rebuilding, clearing, history>>
      BY <1>1, <1>5 DEF chainVars, dbVars, history
    <2>9. QED
      BY <2>1, <2>6, <2>7, <2>8, SyncMoves
  <1>6. ASSUME Put("membership", leaf),
               \/ TakesLeaf(leaf) /\ Insert("membership", leaf)
                    /\ sync' = [sync EXCEPT !.page = Tail(@)]
               \/ UNCHANGED tree /\ sync' = AfterFailure
        PROVE  SyncInv'
    <2>1. PICK n \in Nat : n = leaf
      BY <1>3
    <2>2. /\ stored' = [stored EXCEPT !["membership"] = @ \cup {n}]
      BY <1>6, <2>1 DEF Put
    <2>3. /\ stored'["pool"] = stored["pool"]
          /\ stored'["membership"] = stored["membership"] \cup {n}
      BY <1>2, <2>2 DEF DataTyped, Stores
    <2>4. \/ n = Len(t) + 1 /\ tree' = [tree EXCEPT !["membership"] = Append(t, n)]
          \/ UNCHANGED tree
      BY <1>2, <1>4, <1>6, <2>1 DEF TakesLeaf, NextLeaf, Insert, TabTyped, Stores
    <2>5. Append(t, n) \in Seq(Nat)
      BY RangeOfAppend
    <2>6. tree' \in [Stores -> Seq(Nat)] /\ tree'["pool"] = tree["pool"]
      BY <1>2, <2>4, <2>5 DEF TabTyped, Stores
    <2>7. Range(tree'["pool"]) \subseteq Leaves("pool")
      BY <1>2, <2>6 DEF TabTyped
    <2>8. RebuildTells'
      BY <1>1, <1>2, <2>3, <2>6 DEF RebuildTells
    <2>9. MembersTell'
      <3>1. CASE UNCHANGED tree
        BY <1>2, <2>3, <3>1 DEF MembersTell
      <3>2. CASE n = Len(t) + 1 /\ tree' = [tree EXCEPT !["membership"] = Append(t, n)]
        <4>1. tree'["membership"] = Append(t, n)
          BY <1>2, <3>2 DEF TabTyped, Stores
        <4>2. \A i \in DOMAIN Append(t, n) : Append(t, n)[i] = IF i \in DOMAIN t THEN t[i] ELSE n
          BY RangeOfAppend
        <4>3. \A i \in DOMAIN Append(t, n) : i \notin DOMAIN t => i = n
          BY <3>2, RangeOfAppend
        <4>4. \A i \in DOMAIN t : t[i] = i /\ i \in stored["membership"]
          BY <1>2, <1>4 DEF MembersTell
        <4>5. QED
          BY <2>3, <4>1, <4>2, <4>3, <4>4 DEF MembersTell
      <3>3. QED
        BY <2>4, <3>1, <3>2
    <2>10. mixed' \in BOOLEAN
      BY <1>1, <1>2 DEF TabTyped
    <2>11. sync' = [sync EXCEPT !.page = Tail(@)] \/ sync' = AfterFailure
      BY <1>6
    <2>12. QED
      BY <1>1, <1>6, <2>6, <2>7, <2>8, <2>9, <2>10, <2>11, LeafStored DEF Stores
  <1>7. QED
    BY <1>5, <1>6 DEF ProcessLeafAdded

---------------------------------------------------------------------------
(***************************************************************************)
(* The invariant.                                                          *)
(***************************************************************************)

LEMMA WalletBegins == Init => SyncInv
  <1> SUFFICES ASSUME Init PROVE SyncInv
    OBVIOUS
  <1>1. /\ ledger = 1 /\ log = [s \in Stores |-> << >>] /\ stored = [s \in Stores |-> {}]
        /\ meta = NoMeta /\ wallet = "closed" /\ tree = [s \in Stores |-> << >>]
        /\ sync = NoSync /\ rebuilding = NoRebuild /\ clearing = "none"
        /\ cut = [s \in Stores |-> {}] /\ passed = [s \in Stores |-> {}] /\ mixed = FALSE /\ undercut = "no"
    BY DEF Init
  <1>2. NoMeta \in Metas /\ ~NoMeta.counted
        /\ \A s \in Stores : NoMeta.last[s] = 0
    BY DEF NoMeta, Metas, Stores
  <1>3. NoSync \in Syncs
    BY <1>2 DEF NoSync, Syncs
  <1>4. \A s \in Stores : Leaves(s) = {} /\ log[s] = << >> /\ stored[s] = {}
                          /\ cut[s] = {} /\ passed[s] = {}
    BY <1>1 DEF Leaves
  <1>5. ChainTyped
    <2>1. TreeCapacity \in Nat
      BY ReaderAssumption
    <2>2. \A s \in Stores : Len(log[s]) <= TreeCapacity
      BY <1>4, <2>1
    <2>3. QED
      BY <1>1, <1>4, <2>2 DEF ChainTyped
  <1>6. DataTyped
    BY <1>1, <1>2, <1>4 DEF DataTyped
  <1>7. TabTyped
    <2>1. Range(tree["pool"]) = {} /\ \A r \in {"sync", "ui"} : Range(rebuilding[r]) = {}
      BY <1>1 DEF NoRebuild, Range, Stores
    <2>2. /\ tree \in [Stores -> Seq(Nat)]
          /\ NoRebuild \in [{"sync", "ui"} -> Seq(Nat)]
      BY <1>1 DEF NoRebuild
    <2>3. QED
      BY <1>1, <2>1, <2>2 DEF TabTyped, Stages
  <1>8. SyncTells
    <2>1. sync.meta = NoMeta /\ sync.start = 0
      BY <1>1 DEF NoSync
    <2>2. QED
      BY <1>1, <1>2, <1>3, <2>1 DEF SyncTells, Running
  <1>9. PageTells /\ \A s \in Stores : PassedTells(s)
    BY <1>1, <1>4 DEF PageTells, PassedTells, NoSync, Stores
  <1>10. MembersTell /\ RebuildTells /\ \A s \in Stores : NoHoles(s)
    BY <1>1, <1>2, <1>4 DEF MembersTell, RebuildTells, NoHoles, Stores
  <1>11. MetaTells
    BY <1>1, <1>2, <1>4 DEF MetaTells, Honest, Complete, Running, Stores
  <1>12. QED
    BY <1>5, <1>6, <1>7, <1>8, <1>9, <1>10, <1>11 DEF SyncInv

LEMMA WalletSteps == SyncInv /\ [Next]_vars => SyncInv'
  <1> SUFFICES ASSUME SyncInv, [Next]_vars PROVE SyncInv'
    OBVIOUS
  <1>1. CASE OpenTab
    BY <1>1, TabOpens
  <1>2. CASE CloseTab
    BY <1>2, TabCloses
  <1>3. CASE ClearPool
    BY <1>3, PoolCleared
  <1>4. CASE ClearMembership
    BY <1>4, MembershipCleared
  <1>5. CASE ClearMetadata
    BY <1>5, MetadataCleared
  <1>6. CASE RebuildPoolTree
    BY <1>6, RebuildAsked
  <1>7. CASE \E r \in {"sync", "ui"} : RebuildStep(r) \/ RebuildFails(r)
    BY <1>7, RebuildInserts, RebuildRejected
  <1>8. CASE \E w \in Windows : SyncIsBroken(w) \/ StartSync(w)
    BY <1>8, GapFound, Starts
  <1>9. CASE ResetPoolTree
    BY <1>9, PoolTreeReset
  <1>10. CASE SyncStep
    BY <1>10, StartClamped, ChunkFetched, CommitmentProcessed, PoolDone, RebuildDone,
       LeafProcessed, MembershipDone, MembersCounted, MetadataSaved DEF SyncStep
  <1>11. CASE \E s \in Stores : FetchFails(s)
    BY <1>11, FetchFailing
  <1>12. CASE \E txs, m \in Nat : CloseLedger(2 * txs, m)
    <2>1. PICK txs \in Nat, m \in Nat : CloseLedger(2 * txs, m)
      BY <1>12
    <2>2. 2 * txs \in Nat
      OBVIOUS
    <2>3. QED
      BY <2>1, <2>2, LedgerCloses
  <1>13. CASE UNCHANGED vars
    <2>1. /\ UNCHANGED <<chainVars, dbVars, wallet, tree, rebuilding, clearing, history>>
          /\ UNCHANGED <<chainVars, dbVars, sync, clearing, cut, passed, undercut>>
          /\ UNCHANGED <<chainVars, stored, cut, passed, undercut, clearing>> /\ UNCHANGED tree
          /\ UNCHANGED <<ledger, log, stored, meta, wallet, tree, sync, rebuilding, clearing, cut,
                         mixed, undercut>>
      BY <1>13 DEF vars, tabVars, syncVars, history, dbVars, chainVars
    <2>2. /\ SyncTells' /\ PageTells' /\ MetaTells'
          /\ \A s \in Stores : PassedTells(s)'
      BY <2>1, SyncStands
    <2>3. /\ ChainTyped' /\ MembersTell' /\ \A s \in Stores : NoHoles(s)'
          /\ \A s \in Stores : Leaves(s)' = Leaves(s)
      BY <2>1, DataKept
    <2>4. DataTyped' /\ TabTyped' /\ RebuildTells'
      BY <2>1, <2>3 DEF SyncInv, DataTyped, TabTyped, RebuildTells, Stores
    <2>5. QED
      BY <2>2, <2>3, <2>4 DEF SyncInv
  <1>14. QED
    BY <1>1, <1>2, <1>3, <1>4, <1>5, <1>6, <1>7, <1>8, <1>9, <1>10, <1>11, <1>12, <1>13
       DEF Next, WalletNext

LEMMA WalletInvariant == Spec => []SyncInv
  BY WalletBegins, WalletSteps, PTL DEF Spec

---------------------------------------------------------------------------
(***************************************************************************)
(* What it gives.                                                          *)
(***************************************************************************)

\* The databases, trees and the sync run of the wallet are what they say.
THEOREM WalletTypes == Spec => []TypeOK
  <1>1. SyncInv => TypeOK
    <2> SUFFICES ASSUME SyncInv PROVE TypeOK
      OBVIOUS
    <2>1. DataTyped /\ TabTyped /\ SyncTells /\ MembersTell
      BY DEF SyncInv
    <2>2. Range(tree["membership"]) \subseteq Leaves("membership")
      BY <2>1 DEF MembersTell, DataTyped, Stores, Range
    <2>3. sync \in Syncs /\ (sync.phase # "idle" => sync.latest <= ledger)
      BY <2>1, WhileRunning DEF SyncTells
    <2>4. QED
      BY <2>1, <2>2, <2>3 DEF TypeOK, DataTyped, TabTyped, Syncs, Stores
  <1>2. QED
    BY <1>1, WalletInvariant, PTL

\* The membership tree whose paths go into proofs is at every moment the
\* contract's tree after some insertion, whatever tabs, resets, failures and
\* cut pages did (asp-membership-store.js, processEvents and init).
THEOREM MembershipIsPrefix == Spec => []MembershipTreeIsPrefix
  <1>1. SyncInv => MembershipTreeIsPrefix
    <2> SUFFICES ASSUME SyncInv PROVE MembershipTreeIsPrefix
      OBVIOUS
    <2>1. PICK t \in Seq(Nat) : t = tree["membership"]
      BY DEF SyncInv, TabTyped, Stores
    <2>2. PICK l \in Nat : l = Len(log["membership"]) /\ Leaves("membership") = 1 .. l
      BY DEF SyncInv, ChainTyped, Stores, Leaves
    <2>3. PICK k \in Nat : k = Len(t) /\ DOMAIN t = 1 .. k
      BY LenProperties
    <2>4. \A i \in DOMAIN t : t[i] = i /\ i \in 1 .. l
      BY <2>1, <2>2 DEF SyncInv, MembersTell, DataTyped, Stores
    <2>5. k <= l
      <3>1. CASE k = 0
        BY <3>1
      <3>2. CASE k # 0
        BY <2>3, <2>4, <3>2
      <3>3. QED
        BY <3>1, <3>2
    <2>6. QED
      BY <2>1, <2>2, <2>3, <2>4, <2>5 DEF MembershipTreeIsPrefix
  <1>2. QED
    BY <1>1, WalletInvariant, PTL

\* A hole in a store is a leaf the RPC did not give, or gives no more
\* (stellar.js, fetchAllContractEvents, and the two stores).
THEOREM HolesWereLost == Spec => []HolesAreLosses
  <1>1. SyncInv => HolesAreLosses
    <2> SUFFICES ASSUME SyncInv, undercut = "no", NEW s \in Stores, NEW j \in stored[s],
                        NEW i \in 1 .. j, i \notin stored[s]
                 PROVE  Unreachable(s, i)
      BY DEF HolesAreLosses
    <2>1. NoHoles(s) /\ Sound(s) /\ stored[s] \subseteq Leaves(s)
      BY DEF SyncInv, Sound, DataTyped
    <2>2. PICK l \in Nat : Leaves(s) = 1 .. l
      BY DEF SyncInv, ChainTyped, Leaves
    <2>3. i \in Leaves(s) /\ i < j
      <3>1. j \in 1 .. l /\ i # j
        BY <2>1, <2>2
      <3>2. QED
        BY <2>2, <3>1
    <2>4. QED
      BY <2>1, <2>3 DEF NoHoles, Accounted
  <1>2. QED
    BY <1>1, WalletInvariant, PTL

\* A saved watermark covers the pool leaves below it, those the RPC did not
\* give left aside (sync-controller.js, startSync).
THEOREM WatermarkCovers == Spec => []WatermarkIsHonest
  <1>1. SyncInv => WatermarkIsHonest
    BY DEF SyncInv, MetaTells, Honest, Accounted, WatermarkIsHonest
  <1>2. QED
    BY <1>1, WalletInvariant, PTL

\* A membership store that is not flagged holds every leaf up to its
\* watermark (sync-controller.js, the count against the next index).
THEOREM UnbrokenIsComplete == Spec => []UnbrokenMeansAllMembers
  <1>1. SyncInv => UnbrokenMeansAllMembers
    BY DEF SyncInv, MetaTells, Complete, UnbrokenMeansAllMembers
  <1>2. QED
    BY <1>1, WalletInvariant, PTL

\* A rebuild that nothing met gives the tree of the stored leaves
\* (pool-store.js, rebuildTree).
THEOREM RebuildGivesTheStore == Spec => []RebuiltTreeIsTheStore
  <1>1. SyncInv => RebuiltTreeIsTheStore
    BY DEF SyncInv, RebuildTells, RebuiltTreeIsTheStore
  <1>2. QED
    BY <1>1, WalletInvariant, PTL

\* No pool leaf is beyond the wallet's reach: what the RPC gives no more was
\* stored in time, and no clearAll was cut short or met a sync.
NothingIsLost ==
  /\ undercut = "no"
  /\ \A n \in Leaves("pool") : Unreachable("pool", n) => n \in stored["pool"]

\* Then the pool tree that no insertion outside a rebuild is in is the
\* contract's tree after some insertion, the leaf of index i in place i, and
\* takes in every leaf up to the saved watermark: whatever order pages,
\* failures and tabs came in (pool-store.js, rebuildTree; sync-controller.js,
\* startSync).
PoolTreeIsTheContracts ==
  wallet = "ready" /\ ~mixed /\ ~RebuildRuns /\ NothingIsLost =>
    /\ \A i \in DOMAIN tree["pool"] : tree["pool"][i] = i
    /\ \A n \in Leaves("pool") :
         log["pool"][n] <= meta.last["pool"] => n <= Len(tree["pool"])

THEOREM LosslessPoolTree == Spec => []PoolTreeIsTheContracts
  <1>1. SyncInv => PoolTreeIsTheContracts
    <2> SUFFICES ASSUME SyncInv, wallet = "ready", ~mixed, ~RebuildRuns, NothingIsLost
                 PROVE  /\ \A i \in DOMAIN tree["pool"] : tree["pool"][i] = i
                        /\ \A n \in Leaves("pool") :
                             log["pool"][n] <= meta.last["pool"] => n <= Len(tree["pool"])
      BY DEF PoolTreeIsTheContracts
    <2>1. PICK S : S = stored["pool"]
      OBVIOUS
    <2>2. PICK q : q = tree["pool"]
      OBVIOUS
    <2>3. PICK c \in Nat : c = Len(log["pool"]) /\ Leaves("pool") = 1 .. c
      BY DEF SyncInv, ChainTyped, Leaves, Stores
    <2>4. S \subseteq 1 .. c /\ q \in Seq(Nat)
      BY <2>1, <2>2, <2>3 DEF SyncInv, DataTyped, TabTyped, Stores
    <2>5. IsFiniteSet(S)
      <3>1. IsFiniteSet(1 .. c)
        <4>1. 1 \in Int /\ c \in Int
          BY <2>3
        <4>2. QED
          BY <4>1, FS_Interval
      <3>2. QED
        BY <2>4, <3>1, FS_Subset
    <2>6. q = InOrder(S)
      <3>1. rebuilding["sync"] = << >> /\ rebuilding["ui"] = << >>
        BY DEF RebuildRuns, NoRebuild
      <3>2. q \o << >> \o << >> = InOrder(S)
        BY <2>1, <2>2, <3>1 DEF SyncInv, RebuildTells
      <3>3. q \o << >> \o << >> = q
        BY <2>4
      <3>4. QED
        BY <3>2, <3>3
    <2>7. \A n \in S : 1 .. n \subseteq S
      <3> SUFFICES ASSUME NEW n \in S, NEW i \in 1 .. n PROVE i \in S
        OBVIOUS
      <3>1. i \in Leaves("pool") /\ (i = n \/ i < n)
        BY <2>3, <2>4
      <3>2. CASE i < n
        <4>1. Accounted("pool", i)
          BY <2>1, <3>1, <3>2 DEF SyncInv, NoHoles, Sound, NothingIsLost, Stores
        <4>2. QED
          BY <2>1, <3>1, <4>1 DEF Accounted, NothingIsLost
      <3>3. QED
        BY <3>1, <3>2
    <2>8. \A i \in DOMAIN q : q[i] = i
      <3>1. S \subseteq Nat \ {0}
        BY <2>3, <2>4
      <3>2. QED
        BY <2>5, <2>6, <2>7, <3>1, InitialInOrder
    <2>9. ASSUME NEW n \in Leaves("pool"), log["pool"][n] <= meta.last["pool"]
          PROVE  n <= Len(q)
      <3>1. n \in S
        BY <2>1, <2>9 DEF SyncInv, MetaTells, Honest, Accounted, NothingIsLost
      <3>2. S \subseteq Nat
        BY <2>3, <2>4
      <3>3. n \in Range(q)
        BY <2>5, <2>6, <3>1, <3>2, InOrderAscends DEF Ascends
      <3>4. PICK i \in DOMAIN q : q[i] = n
        BY <3>3 DEF Range
      <3>5. i = n
        BY <2>8, <3>4
      <3>6. QED
        BY <2>4, <3>4, <3>5
    <2>10. QED
      BY <2>2, <2>8, <2>9
  <1>2. QED
    BY <1>1, WalletInvariant, PTL

---------------------------------------------------------------------------
(***************************************************************************)
(* A sync gets on.                                                         *)
(***************************************************************************)

\* What a sync still has before it: phases, ledgers of the phase to ask for,
\* leaves of the page or the rebuild to insert, in this order.
PhasesLeft ==
  CASE sync.phase = "pool" -> 5
    [] sync.phase = "rebuild" -> 4
    [] sync.phase = "membership" -> 3
    [] sync.phase = "count" -> 2
    [] sync.phase = "save" -> 1
    [] OTHER -> 0

LedgersLeft == IF sync.start <= sync.latest THEN sync.latest + 1 - sync.start ELSE 0
LeavesLeft == Len(sync.page) + Len(rebuilding["sync"])

ComesCloser ==
  \/ PhasesLeft' < PhasesLeft
  \/ PhasesLeft' = PhasesLeft /\ LedgersLeft' < LedgersLeft
  \/ PhasesLeft' = PhasesLeft /\ LedgersLeft' = LedgersLeft /\ LeavesLeft' < LeavesLeft

\* startSync gets on with every step of its own, and nothing else that goes
\* on in the tab or on the chain sets it back.
SyncGetsOn ==
  [][sync.phase # "idle" =>
       /\ ComesCloser \/ UNCHANGED <<sync, rebuilding["sync"]>>
       /\ SyncStep \/ RebuildStep("sync") \/ RebuildFails("sync") => ComesCloser]_vars

\* What is left is counted in natural numbers, so it cannot shrink for ever.
LeftIsCounted == PhasesLeft \in 0 .. 5 /\ LedgersLeft \in Nat /\ LeavesLeft \in Nat

LEMMA LeftIsNat == SyncInv => LeftIsCounted
  <1> SUFFICES ASSUME SyncInv PROVE LeftIsCounted
    OBVIOUS
  <1>1. sync \in Syncs /\ rebuilding \in [{"sync", "ui"} -> Seq(Nat)]
    BY DEF SyncInv, SyncTells, TabTyped
  <1>2. PhasesLeft \in 0 .. 5
    BY DEF PhasesLeft
  <1>3. LedgersLeft \in Nat
    <2>1. sync.start \in Nat /\ sync.latest \in Nat
      BY <1>1 DEF Syncs
    <2>2. QED
      BY <2>1 DEF LedgersLeft
  <1>4. LeavesLeft \in Nat
    <2>1. sync.page \in Seq(Nat) /\ rebuilding["sync"] \in Seq(Nat)
      BY <1>1 DEF Syncs
    <2>2. PICK m \in Nat : m = Len(sync.page)
      BY <2>1, LenProperties
    <2>3. PICK k \in Nat : k = Len(rebuilding["sync"])
      BY <2>1, LenProperties
    <2>4. LeavesLeft = m + k
      BY <2>2, <2>3 DEF LeavesLeft
    <2>5. QED
      BY <2>4
  <1>5. QED
    BY <1>2, <1>3, <1>4 DEF LeftIsCounted

\* A sequence without its head.
LEMMA TailIsShorter ==
  ASSUME NEW q \in Seq(Nat), q # << >>
  PROVE  Len(Tail(q)) \in Nat /\ Len(q) \in Nat /\ Len(Tail(q)) < Len(q)
  <1>1. Tail(q) \in Seq(Nat) /\ Len(Tail(q)) = Len(q) - 1
    BY HeadTailProperties
  <1>2. QED
    BY <1>1, LenProperties

\* The next phase, or the end.
LEMMA PhaseEnds ==
  ASSUME SyncInv, sync.phase # "idle",
         \/ sync' = NoSync
         \/ sync.phase = "pool" /\ sync'.phase \in {"rebuild", "membership"}
         \/ sync.phase = "rebuild" /\ sync'.phase = "membership"
         \/ sync.phase = "membership" /\ sync'.phase \in {"count", "save"}
         \/ sync.phase = "count" /\ sync'.phase = "save"
  PROVE  ComesCloser
  <1>1. sync.phase \in {"idle", "pool", "rebuild", "membership", "count", "save"}
    BY DEF SyncInv, SyncTells, Syncs
  <1>2. sync' = NoSync => sync'.phase = "idle"
    BY DEF NoSync
  <1>3. PhasesLeft' < PhasesLeft
    BY <1>1, <1>2 DEF PhasesLeft
  <1>4. QED
    BY <1>3 DEF ComesCloser

\* Where a failure takes the sync.
LEMMA FailureEndsPhase ==
  ASSUME SyncInv, NEW s \in Stores, sync.phase = s, sync' = AfterFailure
  PROVE  ComesCloser
  <1>1. sync.phase # "idle" /\ sync.phase \in {"pool", "membership"}
    BY DEF Stores
  <1>2. sync \in Syncs
    BY DEF SyncInv, SyncTells
  <1>3. sync'.phase = IF s = "pool" THEN "membership" ELSE "save"
    BY <1>2 DEF AfterFailure, Moved, Syncs
  <1>4. QED
    BY <1>1, <1>3, PhaseEnds

\* The reader goes on from a later ledger.
LEMMA StartAdvances ==
  ASSUME SyncInv, sync.phase # "idle", sync.start <= sync.latest,
         sync'.phase = sync.phase, sync'.latest = sync.latest,
         NEW next \in Nat, sync'.start = next, sync.start < next
  PROVE  ComesCloser
  <1>1. PhasesLeft' = PhasesLeft
    BY DEF PhasesLeft
  <1>2. sync \in Syncs
    BY DEF SyncInv, SyncTells
  <1>3. sync.start \in Nat /\ sync.latest \in Nat
    BY <1>2 DEF Syncs
  <1>4. LedgersLeft' < LedgersLeft
    BY <1>3 DEF LedgersLeft
  <1>5. QED
    BY <1>1, <1>4 DEF ComesCloser

\* A leaf of the page is done with.
LEMMA PageShrinks ==
  ASSUME SyncInv, sync.page # << >>, sync' = [sync EXCEPT !.page = Tail(@)],
         UNCHANGED rebuilding
  PROVE  ComesCloser
  <1>1. sync \in Syncs /\ rebuilding \in [{"sync", "ui"} -> Seq(Nat)]
    BY DEF SyncInv, SyncTells, TabTyped
  <1>2. /\ sync'.phase = sync.phase /\ sync'.start = sync.start /\ sync'.latest = sync.latest
        /\ sync'.page = Tail(sync.page)
    BY <1>1 DEF Syncs
  <1>3. PICK q \in Seq(Nat) : q = sync.page
    BY <1>1 DEF Syncs
  <1>4. PICK k \in Nat : k = Len(rebuilding["sync"])
    BY <1>1, LenProperties
  <1>5. Len(sync'.page) + k < Len(sync.page) + k
    BY <1>2, <1>3, TailIsShorter
  <1>6. LeavesLeft' < LeavesLeft
    BY <1>4, <1>5 DEF LeavesLeft
  <1>7. PhasesLeft' = PhasesLeft /\ LedgersLeft' = LedgersLeft
    BY <1>2 DEF PhasesLeft, LedgersLeft
  <1>8. QED
    BY <1>6, <1>7 DEF ComesCloser

\* A rebuild inserts a leaf.
LEMMA RebuildShrinks ==
  ASSUME SyncInv, rebuilding["sync"] # << >>,
         rebuilding' = [rebuilding EXCEPT !["sync"] = Tail(@)], UNCHANGED sync
  PROVE  ComesCloser
  <1>1. sync \in Syncs /\ rebuilding \in [{"sync", "ui"} -> Seq(Nat)]
    BY DEF SyncInv, SyncTells, TabTyped
  <1>2. PICK q \in Seq(Nat) : q = rebuilding["sync"]
    BY <1>1
  <1>3. PICK m \in Nat : m = Len(sync.page)
    BY <1>1, LenProperties DEF Syncs
  <1>4. rebuilding'["sync"] = Tail(q)
    BY <1>1, <1>2
  <1>5. m + Len(Tail(q)) < m + Len(q)
    BY <1>2, TailIsShorter
  <1>6. LeavesLeft' < LeavesLeft
    BY <1>2, <1>3, <1>4, <1>5 DEF LeavesLeft
  <1>7. PhasesLeft' = PhasesLeft /\ LedgersLeft' = LedgersLeft
    BY DEF PhasesLeft, LedgersLeft
  <1>8. QED
    BY <1>6, <1>7 DEF ComesCloser

\* Each step of the sync's own.
LEMMA SyncStepGetsOn ==
  ASSUME SyncInv, SyncStep
  PROVE  ComesCloser
  <1>1. sync \in Syncs
    BY DEF SyncInv, SyncTells
  <1>2. ASSUME NEW s \in Stores, ClampStart(s) PROVE ComesCloser
    <2>1. /\ sync.phase = s /\ sync.phase # "idle" /\ sync.start <= sync.latest
          /\ sync.start < Oldest /\ sync' = [sync EXCEPT !.start = Oldest]
      BY <1>2 DEF ClampStart, Asking, Fetching, Clamped, Stores
    <2>2. Oldest \in Nat
      <3>1. ledger \in Nat /\ Retention \in Nat
        BY ReaderAssumption DEF SyncInv, ChainTyped
      <3>2. QED
        BY <3>1 DEF Oldest
    <2>3. sync'.phase = sync.phase /\ sync'.latest = sync.latest /\ sync'.start = Oldest
      BY <1>1, <2>1 DEF Syncs
    <2>4. QED
      BY <2>1, <2>2, <2>3, StartAdvances
  <1>3. ASSUME NEW s \in Stores, FetchChunk(s) PROVE ComesCloser
    <2>1. /\ sync.phase = s /\ sync.phase # "idle" /\ sync.start <= sync.latest
          /\ sync' = [sync EXCEPT !.page = Page(s, Events(s, sync.start, ChunkEnd)),
                                  !.start = ChunkEnd + 1,
                                  !.skip = IF s = "membership" THEN Len(tree[s]) ELSE 0]
      BY <1>3 DEF FetchChunk, Asking, Fetching, NextChunk, Stores
    <2>2. PICK first \in Nat : first = sync.start
      BY <1>1 DEF Syncs
    <2>3. PICK a \in Nat : a = sync.latest
      BY <1>1 DEF Syncs
    <2>4. PICK b \in Nat : b = sync.start + ChunkSize - 1 /\ first <= b
      BY <2>2, ReaderAssumption
    <2>5. PICK last \in Nat : last = ChunkEnd /\ first <= last
      BY <2>1, <2>2, <2>3, <2>4, LesserOfTwo DEF ChunkEnd
    <2>6. sync'.phase = sync.phase /\ sync'.latest = sync.latest /\ sync'.start = last + 1
      BY <1>1, <2>1, <2>5 DEF Syncs
    <2>7. last + 1 \in Nat /\ sync.start < last + 1
      BY <2>2, <2>5
    <2>8. QED
      BY <2>1, <2>6, <2>7, StartAdvances
  <1>4. ASSUME ProcessNewCommitment PROVE ComesCloser
    <2>1. /\ sync.phase = "pool" /\ sync.page # << >> /\ UNCHANGED rebuilding
          /\ sync' = [sync EXCEPT !.page = Tail(@)] \/ sync' = AfterFailure
      BY <1>4 DEF ProcessNewCommitment
    <2>2. QED
      BY <2>1, PageShrinks, FailureEndsPhase DEF Stores
  <1>5. ASSUME ProcessLeafAdded PROVE ComesCloser
    <2>1. /\ sync.phase = "membership" /\ sync.page # << >> /\ UNCHANGED rebuilding
          /\ sync' = [sync EXCEPT !.page = Tail(@)] \/ sync' = AfterFailure
      BY <1>5 DEF ProcessLeafAdded
    <2>2. QED
      BY <2>1, PageShrinks, FailureEndsPhase DEF Stores
  <1>6. ASSUME PoolFetched \/ MembershipFetched PROVE ComesCloser
    <2>1. \/ sync.phase = "pool" /\ sync'.phase = "rebuild"
          \/ sync.phase = "membership" /\ sync'.phase = "count"
      <3>1. ASSUME NEW s \in Stores, NEW p \in {"rebuild", "count"}, Fetched(s, p)
            PROVE  sync.phase = s /\ sync'.phase = p
        <4>1. sync.phase = s
          BY <3>1 DEF Fetched, Fetching
        <4>2. PICK m : sync' = [Moved(p) EXCEPT !.meta = m]
          BY <3>1, NewWatermark
        <4>3. QED
          BY <1>1, <4>1, <4>2 DEF Moved, Syncs
      <3>2. QED
        BY <1>6, <3>1 DEF PoolFetched, MembershipFetched, Stores
    <2>2. QED
      BY <2>1, PhaseEnds
  <1>7. ASSUME Rebuilt PROVE ComesCloser
    <2>1. sync.phase = "rebuild" /\ sync'.phase = "membership"
      BY <1>1, <1>7 DEF Rebuilt, Moved, Syncs
    <2>2. QED
      BY <2>1, PhaseEnds
  <1>8. ASSUME CountMembers PROVE ComesCloser
    <2>1. sync.phase = "count" /\ sync'.phase = "save"
      BY <1>1, <1>8 DEF CountMembers, Moved, Syncs, Metas
    <2>2. QED
      BY <2>1, PhaseEnds
  <1>9. ASSUME SaveMetadata PROVE ComesCloser
    <2>1. sync.phase # "idle" /\ sync' = NoSync
      BY <1>9 DEF SaveMetadata
    <2>2. QED
      BY <2>1, PhaseEnds
  <1>10. QED
    BY <1>2, <1>3, <1>4, <1>5, <1>6, <1>7, <1>8, <1>9 DEF SyncStep

\* Chunks, the clamp to the oldest ledger, pages and the rebuild bring a sync
\* closer to its end, over any chain that keeps growing and any tabs, resets
\* and other rebuilds beside it (sync-controller.js, startSync; stellar.js,
\* fetchAllContractEvents): what is left shrinks in lexicographic order with
\* every step of the sync, grows with none, and is counted in natural
\* numbers: a sync takes finitely many steps.
THEOREM SyncNeverGoesBack == Spec => []LeftIsCounted /\ SyncGetsOn
  <1>1. SyncInv /\ [Next]_vars =>
          [sync.phase # "idle" =>
             /\ ComesCloser \/ UNCHANGED <<sync, rebuilding["sync"]>>
             /\ SyncStep \/ RebuildStep("sync") \/ RebuildFails("sync") => ComesCloser]_vars
    <2> SUFFICES ASSUME SyncInv, Next, sync.phase # "idle"
                 PROVE  /\ ComesCloser \/ UNCHANGED <<sync, rebuilding["sync"]>>
                        /\ SyncStep \/ RebuildStep("sync") \/ RebuildFails("sync") => ComesCloser
      OBVIOUS
    <2>1. SyncStep => ComesCloser
      BY SyncStepGetsOn
    <2>2. RebuildStep("sync") => ComesCloser
      BY RebuildShrinks DEF RebuildStep
    <2>3. sync' = NoSync => ComesCloser
      BY PhaseEnds
    <2>4. RebuildFails("sync") => ComesCloser
      BY <2>3 DEF RebuildFails
    <2>5. \A s \in Stores : FetchFails(s) => ComesCloser
      BY FailureEndsPhase DEF FetchFails, Asking, Fetching
    <2>6. CloseTab => ComesCloser
      BY <2>3 DEF CloseTab
    <2>7. ~OpenTab /\ \A w \in Windows : ~StartSync(w) /\ ~SyncIsBroken(w)
      BY WhileRunning DEF OpenTab, StartSync, SyncIsBroken
    <2>8. rebuilding \in [{"sync", "ui"} -> Seq(Nat)]
      BY DEF SyncInv, TabTyped
    <2>9. ClearPool \/ ResetPoolTree \/ ClearMembership \/ ClearMetadata =>
            UNCHANGED <<sync, rebuilding["sync"]>>
      BY DEF ClearPool, ResetPoolTree, ClearMembership, ClearMetadata, ClearStore, syncVars
    <2>10. RebuildPoolTree => UNCHANGED <<sync, rebuilding["sync"]>>
      BY <2>8 DEF RebuildPoolTree, StartRebuild
    <2>11. RebuildStep("ui") \/ RebuildFails("ui") => UNCHANGED <<sync, rebuilding["sync"]>>
      BY <2>8 DEF RebuildStep, RebuildFails
    <2>12. (\E txs, m \in Nat : CloseLedger(2 * txs, m)) => UNCHANGED <<sync, rebuilding["sync"]>>
      BY DEF CloseLedger, tabVars, syncVars
    <2>13. QED
      BY <2>1, <2>2, <2>4, <2>5, <2>6, <2>7, <2>9, <2>10, <2>11, <2>12 DEF Next, WalletNext
  <1>2. QED
    BY <1>1, LeftIsNat, WalletInvariant, PTL DEF Spec, SyncGetsOn
=============================================================================
