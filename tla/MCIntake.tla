------------------------------- MODULE MCIntake -------------------------------
(* An instance of Intake for TLC.                                             *)
EXTENDS Intake

\* "Acme " stands for a name with a capital and a space, "acme" for the name.
LowerSpelling(s) == IF s \in {"Acme ", "Acme"} THEN "acme" ELSE s
TrimmedSpelling(s) == IF s = "Acme " THEN "Acme" ELSE s

\* The same receivable spelled twice, and another.
MCOffers == {[issuer |-> "a", debtor |-> "acme", number |-> "1", face |-> 2000, due |-> 60],
             [issuer |-> "b", debtor |-> "Acme ", number |-> "1", face |-> 2000, due |-> 60],
             [issuer |-> "b", debtor |-> "acme", number |-> "2", face |-> 2000, due |-> 60]}

Sound == [opens |-> TRUE, fields |-> 6, days |-> 60, items |-> <<1500, 500>>, total |-> 2000,
          paid |-> 9, late |-> 1, daysLate |-> 6, share |-> 100,
          terms |-> {[about |-> "dispute", denied |-> TRUE], [about |-> "recourse", denied |-> FALSE]}]
\* A little later, and nobody to turn to: close enough to Sound that what
\* secures the claim decides.
Doubtful == [Sound EXCEPT !.daysLate = 9, !.terms = {}]
MCDocuments == [sound |-> Sound, doubtful |-> Doubtful]

\* Metadata that names the object of the second receivable, if there is one, by
\* a digest it does not have.
MCClaimed == {[key |-> <<2, "sound">>, hash |-> "doubtful"]}

\* The rates of the demo provider with a thin market at an outlandish one, and
\* the same when the second venue does not answer.
CoreRows == {[id |-> 1, lender |-> 58, deposits |-> 18500000],
         [id |-> 2, lender |-> 64, deposits |-> 12250000],
         [id |-> 3, lender |-> NoRate, deposits |-> 9000000]}
TailRows == {[id |-> 1, lender |-> 71, deposits |-> 7400000],
         [id |-> 2, lender |-> 198, deposits |-> 120000],
         [id |-> 3, lender |-> 35, deposits |-> 0]}
MCMarkets == <<<<CoreRows, TailRows>>, <<CoreRows, NoAnswer>>>>

\* The logistic function at whole numbers, and straight lines between them.
Logistic == <<2, 7, 18, 47, 119, 269, 500, 731, 881, 953, 982>>
MCSigmoid(z) ==
    LET n == z \div 1000
    IN IF n < -6 THEN 1 ELSE IF n >= 4 THEN 990
       ELSE Logistic[n + 7] + ((Logistic[n + 8] - Logistic[n + 7]) * (z % 1000)) \div 1000
===============================================================================
