----------------------------- MODULE MCIdempotency -----------------------------
(* Small instances of Idempotency for TLC: the same request sent again and again, with one *)
(* of another content under the same key among them.                                       *)
EXTENDS Idempotency

CONSTANTS odd, same, other

OneOdd == [a \in Attempts |-> IF a = odd THEN other ELSE same]
===============================================================================
