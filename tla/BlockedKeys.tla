----------------------------- MODULE BlockedKeys ----------------------------
(***************************************************************************)
(* What the ASP non-membership contract promises, without its tree: a map  *)
(* from the blocked keys to their values, changed one key at a time.  The  *)
(* pool's variable blocked is the domain of this map.  The module          *)
(* AspNonMembership refines it.                                            *)
(***************************************************************************)
EXTENDS Functions

CONSTANTS Keys, Values

VARIABLE entries   \* a function from the keys in the tree to their values

Insert(k, v) ==
  /\ k \notin DOMAIN entries
  /\ entries' = [l \in DOMAIN entries \cup {k} |-> IF l = k THEN v ELSE entries[l]]

Update(k, v) ==
  /\ k \in DOMAIN entries
  /\ entries' = [entries EXCEPT ![k] = v]

Delete(k) ==
  /\ k \in DOMAIN entries
  /\ entries' = Restrict(entries, DOMAIN entries \ {k})

BlockedKeysInit == DOMAIN entries = {}

BlockedKeysNext ==
  \/ \E k \in Keys, v \in Values : Insert(k, v) \/ Update(k, v)
  \/ \E k \in Keys : Delete(k)

BlockedKeysSpec == BlockedKeysInit /\ [][BlockedKeysNext]_entries
============================================================================
