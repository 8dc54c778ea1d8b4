---------------------------- MODULE MCFacilitator ---------------------------
(***************************************************************************)
(* Instances of Facilitator for TLC: a payment and its retry, the payment  *)
(* with its nullifiers spelled another way, and one that spends the same   *)
(* notes in the other order, one nullifier spelled like the payment's and  *)
(* one not.                                                                *)
(***************************************************************************)
EXTENDS Facilitator

CONSTANTS n1, n2, pay, retry, respelled, other

\* A decimal string for each number, a hexadecimal one, and one that lacks the
\* 0x, as which no request's nullifiers come.
MCKeys == {n1, n2} \X {"dec", "hex", "bare"}
MCValueOf == [k \in MCKeys |-> k[1]]
MCHexOf == [n \in {n1, n2} |-> <<n, "bare">>]

MCInputNullifiers ==
  LET dec(n) == <<n, "dec">>
      hex(n) == <<n, "hex">>
  IN [r \in Requests |-> CASE r \in {pay, retry} -> <<dec(n1), dec(n2)>>
                            [] r = respelled -> <<hex(n1), hex(n2)>>
                            [] r = other -> <<dec(n2), hex(n1)>>]
============================================================================
