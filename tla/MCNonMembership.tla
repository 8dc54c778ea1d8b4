--------------------------- MODULE MCNonMembership --------------------------
(***************************************************************************)
(* Instances of AspNonMembership for TLC.  delete_leaf leaves nodes of the *)
(* old path in the store when it promotes a leaf; MaxStale bounds how many *)
(* such nodes a run collects.  ChangesSpec leaves out updates of a key to  *)
(* the value it already has; AnySpec has them.                             *)
(***************************************************************************)
EXTENDS AspNonMembership

CONSTANT MaxStale

FewStale == Cardinality(nodes' \ Reachable') <= MaxStale

AnySpec == Init /\ [][Next /\ FewStale]_smtVars

ChangesNext == Next /\ ~SameUpdate /\ FewStale

ChangesSpec == Init /\ [][ChangesNext]_smtVars
============================================================================
