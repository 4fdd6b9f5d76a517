------------------------------- MODULE Evidence -------------------------------
(***************************************************************************)
(* What the confidential workflow makes of a document it opened            *)
(* (cre-workflows, workflow.go): six features, a confidence, a verdict on  *)
(* the arithmetic and what secures the claim.  A document is               *)
(*   [opens, fields, days, items, total, paid, late, daysLate, share, terms]*)
(* with amounts in cents, days = 0 for dates that do not parse or are not  *)
(* in order, terms a set of clauses [about, denied], and no items where one is not a *)
(* number.                                                                 *)
(***************************************************************************)
EXTENDS Integers, Sequences, Functions

Share(a, b) == LET x == (1000 * a) \div b IN IF x < 0 THEN 0 ELSE IF x > 1000 THEN 1000 ELSE x

\* mentions finds the word in the terms; claims finds it in a clause in which
\* no negation stands before it.
Mentions(terms, word) == \E c \in terms : c.about = word
Claims(terms, word) == \E c \in terms : c.about = word /\ ~c.denied

TotalsAgree(document) ==
    document.items # <<>> /\ SumFunction(document.items) = document.total

NoHistory(document) == document.paid + document.late = 0
Confidence(document) ==
    LET score == Share(document.fields, 6)
                 - (IF TotalsAgree(document) THEN 0 ELSE 300)
                 - (IF document.days = 0 THEN 200 ELSE 0)
                 - (IF NoHistory(document) THEN 150 ELSE 0)
    IN IF score < 0 THEN 0 ELSE score

Derived(document) ==
    [dso |-> Share(document.days, 120),
     late |-> IF NoHistory(document) THEN 0 ELSE Share(document.late, document.paid + document.late),
     dispute |-> IF Claims(document.terms, "dispute") THEN 1000 ELSE 0,
     concentration |-> Share(document.share, 1000),
     volatility |-> 0,
     debtor |-> Share(document.daysLate, 60)]

Result(document) ==
    [features |-> Derived(document),
     confidence |-> Confidence(document),
     arithmetic |-> TotalsAgree(document),
     mitigations |-> [recourse |-> Mentions(document.terms, "recourse"),
                      collateralized |-> Mentions(document.terms, "collateral")]]
===============================================================================
