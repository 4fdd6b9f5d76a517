----------------------------- MODULE MCMarketplace -----------------------------
(* A small market for TLC: two receivables of one issuer, two investors, an operator. *)
EXTENDS Marketplace, TLC

CONSTANTS issuer1, investor1, investor2, operator, b1, b2

OneIssuer == [i \in Invoices |-> issuer1]
TwoInvestors == [b \in Bids |-> IF b = b1 THEN investor1 ELSE investor2]

\* Names of requests, batches and receivables are interchangeable, and no property is temporal.
Interchangeable == Permutations(Requests) \cup Permutations(Auctions) \cup Permutations(Invoices)
===============================================================================
