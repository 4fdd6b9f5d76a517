---------------------------- MODULE MCCollections ----------------------------
(* Instances of Collections for TLC.                                          *)
EXTENDS Collections, TLC

Interchangeable == Permutations(Requests)

\* "exact " stands for a reference with a space after it.
Spelling(s) == IF s = "exact " THEN "exact" ELSE s

\* An investor with two transfers and another with one, sold in part, and
\* three equal holders: remainders that differ and remainders that tie.
MCBooks == {
  [face |-> 7, notional |-> <<2, 1, 3>>, investor |-> <<1, 1, 2>>],
  [face |-> 7, notional |-> <<1, 1, 4>>, investor |-> <<1, 2, 2>>],
  [face |-> 6, notional |-> <<2, 2>>, investor |-> <<1, 2>>] }
=============================================================================
