----------------------------- MODULE MCClearing -----------------------------
(* Instances of Clearing for TLC: batches of a few lots and bids of a few     *)
(* minor units, and limits a production batch meets only when large.         *)
EXTENDS Clearing

LotOf(s, r, t, i, d, g) ==
    [supply |-> s, reserve |-> r, tenor |-> t, issuer |-> i, debtor |-> d, grade |-> g]
NoShares == [g \in 1..5 |-> 0]
\* A minimum yield is in half value points.
BidFor(b, y, m) ==
    [budget |-> b, minYield |-> y, minimumLot |-> m, maxGrade |-> 5, maxTenor |-> 365,
     issuerShare |-> 0, debtorShare |-> 0, gradeShare |-> NoShares]
V1 == [funding |-> 10, riskPenalty |-> 2, maxAugmentations |-> 12, maxRelaxedSolves |-> 5,
       maxBranchNodes |-> 3, maxRepairRounds |-> 3, pruneThreshold |-> 5, maxEdgesPerBid |-> 1]

LotPairs == {
  <<LotOf(4, 3, 90, 1, 1, 1), LotOf(3, 2, 60, 1, 1, 2)>>,
  <<LotOf(3, 2, 90, 1, 1, 1), LotOf(5, 4, 30, 2, 2, 1)>> }
BidKinds == <<
  BidFor(3, 21, 0), BidFor(2, 500, 2), BidFor(1, 20, 2),
  [BidFor(4, 20, 0) EXCEPT !.debtorShare = 500],
  [BidFor(3, 21, 2) EXCEPT !.issuerShare = 700],
  [BidFor(4, 10, 2) EXCEPT !.gradeShare[1] = 300, !.maxGrade = 1] >>

\* One bid of any kind before any two others.
MCBatches ==
    {[lots |-> ls, bids |-> <<BidKinds[i], BidKinds[j], BidKinds[k]>>, params |-> V1] :
       ls \in LotPairs, i \in 1..6, <<j, k>> \in {p \in (1..6) \X (1..6) : p[1] <= p[2]}}

\* Three lots, two of one issuer, that yield 122, 124 and 127 points, and two bids.  One asks for a
\* yield of half a value point: with it what a pair is worth is rounded up or down by the lot, the
\* surplus of one bid over the other is no longer the same on every lot, and the predecessors close
\* a circle.
V2 == [V1 EXCEPT !.pruneThreshold = 6]
CircleBatches ==
    {[lots |-> <<LotOf(4, 3, 100, 1, 1, 1), LotOf(2, 1, 295, 2, 2, 1), LotOf(3, 2, 144, 1, 3, 1)>>,
      bids |-> <<BidFor(1, 237, 0), BidFor(b, 240, 0)>>,
      params |-> V2] : b \in 3..6}
AllBatches == MCBatches \cup CircleBatches
=============================================================================
