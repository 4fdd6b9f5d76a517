----------------------------- MODULE MCSettlement -----------------------------
(* Small instances of Settlement for TLC: two allocations, of one receivable or of two.   *)
(* Interchangeable is for the instance of one receivable.                                  *)
EXTENDS Settlement, TLC

CONSTANTS a, b, x, y

OneInvoice == [p \in Plans |-> x]
TwoInvoices == [p \in Plans |-> IF p = a THEN x ELSE y]

Interchangeable == Permutations(Plans) \cup Permutations(Workers)
===============================================================================
