------------------------------ MODULE MCPayments ------------------------------
(* A small instance of Payments for TLC: one question under a key, the same at another endpoint. *)
EXTENDS Payments, TLC

CONSTANTS q1, q2, risk, advice, x, y, k

TwoQuestions ==
    [q \in Quotes |-> IF q = q1 THEN [endpoint |-> risk, body |-> x, key |-> k]
                      ELSE [endpoint |-> advice, body |-> x, key |-> NoKey]]

\* Transactions and requests have no order among themselves, and no property is a liveness property.
Interchangeable == Permutations(Txs) \cup Permutations(Requests)
===============================================================================
