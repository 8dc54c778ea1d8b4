------------------------------- MODULE MCAgent ------------------------------
(***************************************************************************)
(* Instances of Agent for TLC: two agents of one organisation, three       *)
(* fetches, two resources of one price, one of them gated.                 *)
(***************************************************************************)
EXTENDS Agent

CONSTANTS a1, a2, f1, f2, f3, gated, open

MCAgentOf == [f \in Requests |-> IF f = f3 THEN a2 ELSE a1]
MCUrlOf == [f \in Requests |-> IF f = f2 THEN open ELSE gated]
MCHeaders ==
  [f \in Requests |-> CASE f = f1 -> {"authorization"} [] f = f2 -> {} [] OTHER -> {"authorization", "payload"}]
MCModeOf == [a \in Agents |-> IF a = a1 THEN "capture" ELSE "fixture"]
MCPrice == [u \in Urls |-> 2]
MCNoteFiles == {<<2, 0, 2>>, <<2, 2>>}
MCNullifiers == (1 .. 3) \X {"value", "zero"}
\* The agents and their fixtures spell all nullifiers alike.
MCKeys == MCNullifiers \X {"decimal"}
MCValueOf == [k \in MCKeys |-> k[1]]
MCDecimal == [n \in MCNullifiers |-> <<n, "decimal">>]
MCElsewhere == {<<1, "value">>}
MCFixtures == [u \in Urls |-> NoEntry]
=============================================================================
