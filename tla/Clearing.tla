------------------------------ MODULE Clearing ------------------------------
(***************************************************************************)
(* Clearing a batch auction (auction/solver.go, solver_search.go,          *)
(* verifier.go): the batch is canonicalized into pairs a bid may buy, a    *)
(* bounded branch and bound solves the flow relaxation of Flow and repairs *)
(* what the network cannot express, the best cash allocation is turned     *)
(* into notional, and an independent verifier accepts or refuses it.       *)
(*                                                                         *)
(* Amounts are minor units.  Rates are multiples of 1/Scale (the code      *)
(* keeps 18 decimals), yields and values are rounded to 1/Points (six      *)
(* decimals), and a bid may ask for a finer minimum yield (twelve are      *)
(* stored).  Lots and bids are sequences in published order.               *)
(***************************************************************************)
EXTENDS Flow, Money, Sequences

CONSTANTS
    Batches,   \* the clearings asked for: [lots, bids, params]
    Scale,     \* how many steps a rate of one has (divisionScale)
    Points,    \* how many value points: the steps of a yield (rateScale, valueScale)
    Fine       \* how many steps of a minimum yield one value point has

-----------------------------------------------------------------------------
(***************************************************************************)
(* Money.  DivRound rounds half away from zero, Mul and Quantize round     *)
(* half to even.                                                           *)
(***************************************************************************)
DivRound(a, b) == (2 * a + b) \div (2 * b)
RateAgainst(a, b) == DivRound(a * Scale, b)
DivFloor(amount, rate) == DivRound(amount * Scale * Scale, rate) \div Scale
Mul(amount, rate) == HalfEven(amount * rate, Scale)

UnitPrice(lot) == RateAgainst(lot.reserve, lot.supply)
CostOf(lot, notional) == Mul(notional, UnitPrice(lot))
\* The period's return times the annualization, quantized to value points.
ImpliedYield(lot) ==
    HalfEven(RateAgainst(lot.supply - lot.reserve, lot.reserve) * DivRound(365 * Scale, lot.tenor) * Points,
             Scale * Scale)
Surplus(bid, lot) == ImpliedYield(lot) * Fine - bid.minYield

\* A share of the budget; an omitted share, which is a zero, is no limit.
ShareLimit(bid, share) == IF share = 0 THEN bid.budget ELSE Mul(bid.budget, share)
IssuerLimit(bid) == ShareLimit(bid, bid.issuerShare)
DebtorLimit(bid) == ShareLimit(bid, bid.debtorShare)
GradeLimit(bid, grade) == ShareLimit(bid, bid.gradeShare[grade])

\* Lot.Validate, NewBid, NewAuction: what may be offered, asked and put in one
\* batch.  A price that rounds to nothing, which takes a face of 2 * 10^18
\* minor units, is an error of the division that buys at it.
Grades == 1..5
MayBeSold(lot) ==
    /\ lot.supply \in Nat /\ lot.reserve \in Nat \ {0} /\ lot.reserve < lot.supply
    /\ lot.tenor \in Nat \ {0} /\ lot.grade \in Grades
    /\ lot.issuer \in Nat /\ lot.debtor \in Nat
    /\ UnitPrice(lot) > 0
IsShare(share) == share \in 0..Scale
MayBid(bid) ==
    /\ bid.budget \in Nat \ {0} /\ bid.minYield \in Nat /\ bid.minimumLot \in Nat
    /\ bid.maxGrade \in Grades /\ bid.maxTenor \in Nat \ {0}
    /\ IsShare(bid.issuerShare) /\ IsShare(bid.debtorShare)
    /\ \A g \in Grades : IsShare(bid.gradeShare[g])
IsList(s) == Len(s) \in Nat /\ DOMAIN s = 1..Len(s)
MayBeBatched(b) ==
    /\ IsList(b.lots) /\ b.lots # <<>> /\ \A i \in DOMAIN b.lots : MayBeSold(b.lots[i])
    /\ IsList(b.bids) /\ \A j \in DOMAIN b.bids : MayBid(b.bids[j])
    /\ b.params.funding \in Int /\ b.params.riskPenalty \in Int

ASSUME ClearingAssumption ==
    /\ Scale \in Nat \ {0} /\ Points \in Nat \ {0} /\ Fine \in Nat \ {0}
    /\ \A b \in Batches : MayBeBatched(b)

VARIABLES
    asked,      \* what is cleared
    phase,      \* where Clear is
    edges,      \* the feasible pairs, in canonical order
    st,         \* the node's constraints: forbidden, preassign, capped, forced
    spent,      \* the budgets used: nodes, solves, and this node's round
    dropped,    \* pairs the minimum-lot repair of this node removed, in order
    cash,       \* cash per pair, as the flow returned it
    best,       \* the best candidate so far
    solution    \* notional per pair, materialized

clearVars == <<flowVars, asked, phase, edges, st, spent, dropped, cash, best, solution>>

Ids == 1..Len(edges)
Lot(e) == asked.lots[edges[e].lot]
BidOf(e) == asked.bids[edges[e].bid]
OfLot(i) == {e \in Ids : edges[e].lot = i}
OfBid(j) == {e \in Ids : edges[e].bid = j}
\* The members of a set from the first to the last.
Ordered(S, before(_, _)) ==
    [n \in 1..Cardinality(S) |-> CHOOSE x \in S : Cardinality({y \in S : before(y, x)}) = n - 1]

-----------------------------------------------------------------------------
(***************************************************************************)
(* canonicalize: the pairs a bid may take, bid by bid and lot by lot.      *)
(***************************************************************************)
Feasible(bid, lot) ==
    /\ lot.grade <= bid.maxGrade
    /\ lot.tenor <= bid.maxTenor
    /\ Surplus(bid, lot) >= 0
    /\ bid.minimumLot > 0 => /\ bid.minimumLot <= lot.supply
                             /\ CostOf(lot, bid.minimumLot) <= bid.budget

\* What a unit of cash is worth here, rounded to value points; never negative.
Weight(bid, lot) ==
    Surplus(bid, lot) + (asked.params.funding - asked.params.riskPenalty * (lot.grade - 1)) * Fine
Value(bid, lot) == HalfEven(Max({0, Weight(bid, lot)}), Fine)

Edge(i, j) ==
    LET lot == asked.lots[i]
        bid == asked.bids[j]
    IN [lot |-> i, bid |-> j,
        value |-> Value(bid, lot),
        maxCash |-> Min({lot.reserve, bid.budget}),
        minimumCash |-> IF bid.minimumLot > 0 THEN CostOf(lot, bid.minimumLot) ELSE 0]

EdgeBefore(d, e) == d.bid < e.bid \/ (d.bid = e.bid /\ d.lot < e.lot)
Pairs == {Edge(i, j) : i \in DOMAIN asked.lots, j \in DOMAIN asked.bids}
MayTrade == {e \in Pairs : Feasible(asked.bids[e.bid], asked.lots[e.lot])}
FeasibleEdges == Ordered(MayTrade, EdgeBefore)

\* Past the threshold a bid keeps its most valuable lots only.
Ahead(e, S) == {d \in S : /\ d.bid = e.bid
                          /\ d.value > e.value \/ (d.value = e.value /\ d.lot < e.lot)}
MostWorth(S) == {e \in S : Cardinality(Ahead(e, S)) < asked.params.maxEdgesPerBid}
Kept(all) ==
    LET S == {all[n] : n \in DOMAIN all}
    IN IF Len(all) <= asked.params.pruneThreshold THEN all
       ELSE Ordered(MostWorth(S), EdgeBefore)

NewState(n) == [forbidden |-> {}, forced |-> {},
                preassign |-> [e \in 1..n |-> 0],
                capped |-> [e \in 1..n |-> Unreachable]]

Canonicalize ==
    /\ phase = "canonicalize"
    /\ edges' = FeasibleEdges
    /\ phase' = "prune"
    /\ UNCHANGED <<flowVars, asked, st, spent, dropped, cash, best, solution>>

Prune ==
    /\ phase = "prune"
    /\ edges' = Kept(edges)
    /\ st' = NewState(Len(Kept(edges)))
    /\ phase' = "explore"
    /\ UNCHANGED <<flowVars, asked, spent, dropped, cash, best, solution>>

-----------------------------------------------------------------------------
(***************************************************************************)
(* solveRelaxed: the network of one node.  An issuer gets a node of its    *)
(* own only when several pairs of one bid are with it.                     *)
(***************************************************************************)
Allowed == Ids \ st.forbidden
IssuerKey(e) == <<edges[e].bid, Lot(e).issuer>>
OfIssuer(key) == {e \in Allowed : IssuerKey(e) = key}
IssuerKeys == {key \in {IssuerKey(e) : e \in Allowed} : Cardinality(OfIssuer(key)) > 1}

CapacityOf(e) == Min({edges[e].maxCash, st.capped[e]})
EdgeCap(e) == IF IssuerKey(e) \in IssuerKeys THEN CapacityOf(e)
              ELSE Min({CapacityOf(e), IssuerLimit(BidOf(e))})

\* Cash a branch commits before the flow runs.
Committed(S) == SumOf(st.preassign, S \cap Allowed)
LotCapacity(i) == asked.lots[i].reserve - Committed(OfLot(i))
BidCapacity(j) == asked.bids[j].budget - Committed(OfBid(j))
IssuerCapacity(key) == IssuerLimit(asked.bids[key[1]]) - Committed(OfIssuer(key))

Committable ==
    /\ \A i \in DOMAIN asked.lots : LotCapacity(i) >= 0
    /\ \A j \in DOMAIN asked.bids : BidCapacity(j) >= 0
    /\ \A key \in IssuerKeys : IssuerCapacity(key) >= 0
    /\ \A e \in Allowed : st.preassign[e] <= EdgeCap(e)

\* The numbering: the source, lots, issuer nodes, bids, the sink.
IssuerNode(key) ==
    Len(asked.lots) + 1 + Cardinality({k \in IssuerKeys :
        k[1] < key[1] \/ (k[1] = key[1] /\ k[2] < key[2])})
BidNode(j) == Len(asked.lots) + Cardinality(IssuerKeys) + j
SinkNode == BidNode(Len(asked.bids)) + 1
ArcOf(e) == <<edges[e].lot, IF IssuerKey(e) \in IssuerKeys THEN IssuerNode(IssuerKey(e))
                            ELSE BidNode(edges[e].bid)>>

\* Their arcs: what a lot may sell, a pair may take, a bid may have with one
\* issuer, and a bid may pay.  An arc with no room is not built.
LotArc(i) == [at |-> <<Source, i>>, capacity |-> LotCapacity(i), cost |-> 0]
PairArc(e) == [at |-> ArcOf(e), capacity |-> EdgeCap(e) - st.preassign[e], cost |-> -edges[e].value]
IssuerArc(key) ==
    [at |-> <<IssuerNode(key), BidNode(key[1])>>, capacity |-> IssuerCapacity(key), cost |-> 0]
BidArc(j) == [at |-> <<BidNode(j), SinkNode>>, capacity |-> BidCapacity(j), cost |-> 0]
Arcs == {LotArc(i) : i \in DOMAIN asked.lots} \cup {PairArc(e) : e \in Allowed}
        \cup {IssuerArc(key) : key \in IssuerKeys} \cup {BidArc(j) : j \in DOMAIN asked.bids}

Relaxation ==
    LET withRoom == {arc \in Arcs : arc.capacity > 0}
    IN [sink |-> SinkNode,
        edges |-> [at \in {arc.at : arc \in withRoom} |->
                     LET arc == CHOOSE k \in withRoom : k.at = at
                     IN [capacity |-> arc.capacity, cost |-> arc.cost]]]

-----------------------------------------------------------------------------
(***************************************************************************)
(* branchAndBound.  A node has at most one child, so the tree is a chain;  *)
(* the budgets are looked at between nodes, never inside one.              *)
(***************************************************************************)
BudgetLeft == /\ spent.nodes < asked.params.maxBranchNodes
              /\ spent.solves < asked.params.maxRelaxedSolves

Explore ==
    /\ phase = "explore"
    /\ BudgetLeft
    /\ spent' = [spent EXCEPT !.nodes = @ + 1, !.round = 0]
    /\ dropped' = <<>>
    /\ phase' = "relax"
    /\ UNCHANGED <<flowVars, asked, edges, st, cash, best, solution>>

StopExploring ==
    /\ phase = "explore"
    /\ ~BudgetLeft
    /\ phase' = "materialize"
    /\ UNCHANGED <<flowVars, asked, edges, st, spent, dropped, cash, best, solution>>

\* A branch that commits more than there is has no feasible allocation, and
\* with it the chain ends.
Relax ==
    /\ phase = "relax"
    /\ spent' = [spent EXCEPT !.solves = @ + 1]
    /\ IF Committable THEN BuildNetwork(Relaxation) /\ phase' = "flow"
       ELSE phase' = "materialize" /\ UNCHANGED flowVars
    /\ UNCHANGED <<asked, edges, st, dropped, cash, best, solution>>

Push ==
    /\ phase = "flow"
    /\ StartFlow \/ Settle \/ Augment(asked.params.maxAugmentations)
    /\ UNCHANGED <<asked, phase, edges, st, spent, dropped, cash, best, solution>>

ReadFlow ==
    /\ phase = "flow"
    /\ FlowEnds(asked.params.maxAugmentations)
    /\ cash' = [e \in Ids |->
                  IF e \in st.forbidden THEN 0
                  ELSE st.preassign[e] + (IF ArcOf(e) \in Edges THEN flow[ArcOf(e)] ELSE 0)]
    /\ phase' = "repair"
    /\ UNCHANGED <<flowVars, asked, edges, st, spent, dropped, best, solution>>

-----------------------------------------------------------------------------
(***************************************************************************)
(* The concentration repair.  Every breached group has its pairs capped in *)
(* proportion to what the flow gave them; the remainder of the division    *)
(* goes to the most valuable pair, and a pair capped at nothing is         *)
(* forbidden.  Groups go bid by bid, debtors before grades.                *)
(***************************************************************************)
Groups == {<<edges[e].bid, 1, Lot(e).debtor>> : e \in Ids} \cup
          {<<edges[e].bid, 2, Lot(e).grade>> : e \in Ids}
Members(g) == {e \in Ids : /\ edges[e].bid = g[1]
                           /\ g[3] = IF g[2] = 1 THEN Lot(e).debtor ELSE Lot(e).grade}
GroupLimit(g) == IF g[2] = 1 THEN DebtorLimit(asked.bids[g[1]])
                 ELSE GradeLimit(asked.bids[g[1]], g[3])
Funded(S) == {e \in S : cash[e] > 0}
CashOf(S) == SumOf(cash, S)

Breached == {g \in Groups : CashOf(Members(g)) > GroupLimit(g)}
GroupBefore(g, h) == \/ g[1] < h[1]
                     \/ g[1] = h[1] /\ g[2] < h[2]
                     \/ g[1] = h[1] /\ g[2] = h[2] /\ g[3] < h[3]

MostValuable(S) == CHOOSE e \in S : \A d \in S : \/ edges[e].value > edges[d].value
                                                 \/ edges[e].value = edges[d].value /\ e <= d

Shares(g) ==
    [e \in Funded(Members(g)) |-> (GroupLimit(g) * cash[e]) \div CashOf(Funded(Members(g)))]
CapGroup(s, g) ==
    LET in == Funded(Members(g))
        capped == [e \in Ids |-> IF e \in in THEN Min({s.capped[e], Shares(g)[e]}) ELSE s.capped[e]]
        final == [capped EXCEPT ![MostValuable(in)] = @ + GroupLimit(g) - SumOf(Shares(g), in)]
    IN [s EXCEPT !.capped = final,
                 !.forbidden = @ \cup {e \in in : final[e] <= 0},
                 !.preassign = [e \in Ids |-> IF e \in in THEN 0 ELSE @[e]]]

\* What the constraints are when the first n breached groups are capped.
Capped[n \in 0..Cardinality(Breached)] ==
    IF n = 0 THEN st
    ELSE CapGroup(Capped[n - 1], Ordered(Breached, GroupBefore)[n])

\* The minimum-lot repair drops every pair between nothing and its minimum,
\* one the search had forced to it included.
\* Mutant: a pair is too small only when it is below half its minimum.
MutHalfTooSmall == {e \in Ids : cash[e] > 0 /\ 2 * cash[e] < edges[e].minimumCash}

TooSmall == {e \in Ids : cash[e] > 0 /\ cash[e] < edges[e].minimumCash}
Drop(S) == [st EXCEPT !.forced = @ \ S, !.forbidden = @ \cup S,
                      !.preassign = [e \in Ids |-> IF e \in S THEN 0 ELSE @[e]]]

LastRound == spent.round = asked.params.maxRepairRounds

\* A node that still needs a repair in its last round is abandoned, and the
\* chain ends with it; the repaired constraints go nowhere.
Abandon ==
    /\ phase = "repair"
    /\ LastRound
    /\ Breached # {} \/ TooSmall # {}
    /\ phase' = "materialize"
    /\ UNCHANGED <<flowVars, asked, edges, st, spent, dropped, cash, best, solution>>

RepairExposure ==
    /\ phase = "repair"
    /\ ~LastRound
    /\ Breached # {}
    /\ st' = Capped[Cardinality(Breached)]
    /\ spent' = [spent EXCEPT !.round = @ + 1]
    /\ phase' = "relax"
    /\ UNCHANGED <<flowVars, asked, edges, dropped, cash, best, solution>>

RepairMinimumLots ==
    /\ phase = "repair"
    /\ ~LastRound
    /\ Breached = {}
    /\ TooSmall # {}
    /\ st' = Drop(TooSmall)
    /\ dropped' = dropped \o Ordered(TooSmall, <)
    /\ spent' = [spent EXCEPT !.round = @ + 1]
    /\ phase' = "relax"
    /\ UNCHANGED <<flowVars, asked, edges, cash, best, solution>>

-----------------------------------------------------------------------------
(***************************************************************************)
(* A node that needs no repair is a candidate; its child takes the first   *)
(* dropped pair that is not forced and commits its minimum.                *)
(***************************************************************************)
NoCandidate == [cash |-> [e \in Ids |-> 0], objective |-> -1]
Objective(c) == SumOf([e \in DOMAIN c |-> c[e] * edges[e].value], DOMAIN c)
Better == IF best.objective < Objective(cash) THEN [cash |-> cash, objective |-> Objective(cash)]
          ELSE best

Unforced == {n \in DOMAIN dropped : dropped[n] \notin st.forced}
Child(e) == [st EXCEPT !.forbidden = @ \ {e}, !.forced = @ \cup {e},
                       !.capped[e] = Unreachable, !.preassign[e] = edges[e].minimumCash]

Branch ==
    /\ phase = "repair"
    /\ Breached = {} /\ TooSmall = {}
    /\ best' = Better
    /\ IF Unforced = {} THEN phase' = "materialize" /\ UNCHANGED st
       ELSE phase' = "explore" /\ st' = Child(dropped[Min(Unforced)])
    /\ UNCHANGED <<flowVars, asked, edges, spent, dropped, cash, solution>>

-----------------------------------------------------------------------------
(***************************************************************************)
(* materializeSolution: cash becomes notional, rounded down, up again to   *)
(* the minimum lot the cash covers, and clipped to what is left of the     *)
(* lot.  A pair whose notional is nothing is not an allocation.            *)
(***************************************************************************)
Bought(e, c) ==
    LET notional == DivFloor(c, UnitPrice(Lot(e)))
    IN IF c = 0 THEN 0
       ELSE IF notional < BidOf(e).minimumLot /\ c >= edges[e].minimumCash
       THEN BidOf(e).minimumLot ELSE notional

\* Mutant: the notional is not clipped to what is left of the lot.
MutUnclipped(c) == [e \in Ids |-> Bought(e, c[e])]

SameLot(e) == {d \in 1..(e - 1) : edges[d].lot = edges[e].lot}
Materialized(c) ==
    LET notional[e \in Ids] ==
          LET taken == SumOf([d \in SameLot(e) |-> notional[d]], SameLot(e))
          IN Min({Bought(e, c[e]), Lot(e).supply - taken})
    IN notional

Materialize ==
    /\ phase = "materialize"
    /\ solution' = Materialized(IF best.objective < 0 THEN [e \in Ids |-> 0] ELSE best.cash)
    /\ phase' = "verify"
    /\ UNCHANGED <<flowVars, asked, edges, st, spent, dropped, cash, best>>

-----------------------------------------------------------------------------
(***************************************************************************)
(* Verify: every rule again, from the batch and the notional alone.        *)
(***************************************************************************)
Price(e) == CostOf(Lot(e), solution[e])
Paid(S) == SumOf([e \in S |-> Price(e)], S)
Allocated == {e \in Ids : solution[e] > 0}
SameIssuer(e) == {d \in OfBid(edges[e].bid) : Lot(d).issuer = Lot(e).issuer}
SameDebtor(e) == {d \in OfBid(edges[e].bid) : Lot(d).debtor = Lot(e).debtor}
SameGrade(e) == {d \in OfBid(edges[e].bid) : Lot(d).grade = Lot(e).grade}

KeepsSupply == \A i \in DOMAIN asked.lots : SumOf(solution, OfLot(i)) <= asked.lots[i].supply
KeepsBudgets ==
    \A j \in DOMAIN asked.bids : Paid(OfBid(j) \cap Allocated) <= asked.bids[j].budget
KeepsExposure ==
    \A e \in Allocated :
        /\ Paid(SameIssuer(e) \cap Allocated) <= IssuerLimit(BidOf(e))
        /\ Paid(SameDebtor(e) \cap Allocated) <= DebtorLimit(BidOf(e))
        /\ Paid(SameGrade(e) \cap Allocated) <= GradeLimit(BidOf(e), Lot(e).grade)
KeepsEligibility == \A e \in Allocated : /\ Lot(e).grade <= BidOf(e).maxGrade
                                         /\ Lot(e).tenor <= BidOf(e).maxTenor
                                         /\ Surplus(BidOf(e), Lot(e)) >= 0
KeepsMinimumLots == \A e \in Allocated : solution[e] >= BidOf(e).minimumLot

Verified == /\ KeepsSupply /\ KeepsBudgets /\ KeepsExposure
            /\ KeepsEligibility /\ KeepsMinimumLots

Verify ==
    /\ phase = "verify"
    /\ phase' = IF Verified THEN "cleared" ELSE "refused"
    /\ UNCHANGED <<flowVars, asked, edges, st, spent, dropped, cash, best, solution>>

-----------------------------------------------------------------------------
NoNetwork == [sink |-> 1, edges |-> <<>>]

ClearInit ==
    /\ asked \in Batches
    /\ phase = "canonicalize"
    /\ edges = <<>> /\ dropped = <<>> /\ cash = <<>> /\ solution = <<>>
    /\ st = NewState(0)
    /\ spent = [nodes |-> 0, solves |-> 0, round |-> 0]
    /\ best = NoCandidate
    /\ network = NoNetwork /\ flow = <<>> /\ augmentations = 0
    /\ potential = <<>> /\ dist = NoDistance(NoNetwork)
    /\ prev = NoArc(NoNetwork) /\ settled = {}

ClearNext ==
    \/ Canonicalize \/ Prune \/ Explore \/ StopExploring \/ Relax \/ Push \/ ReadFlow
    \/ Abandon \/ RepairExposure \/ RepairMinimumLots \/ Branch
    \/ Materialize \/ Verify

\* The solver is one call on one goroutine that nothing interrupts.
ClearSpec == ClearInit /\ [][ClearNext]_clearVars /\ WF_clearVars(ClearNext)

-----------------------------------------------------------------------------
(***************************************************************************)
(* Clear is always somewhere between reading the batch and an answer, and  *)
(* what a node knows is about the pairs it has (solver.go:325-350).        *)
(***************************************************************************)
Answers == {"cleared", "refused"}
ClearTypeOK ==
    /\ phase \in Answers \cup {"canonicalize", "prune", "explore", "relax", "flow", "repair",
                              "materialize", "verify"}
    /\ spent.nodes \in 0..asked.params.maxBranchNodes
    /\ spent.round \in 0..asked.params.maxRepairRounds
    /\ phase \notin {"canonicalize", "prune"} => DOMAIN st.capped = Ids /\ st.forbidden \subseteq Ids

\* The limits on cash: a lot's reserve, a pair's and a bid's money, and what a
\* bid may have with one issuer; and those the network cannot express.
WithinNetwork(c) ==
    /\ \A i \in DOMAIN asked.lots : SumOf(c, OfLot(i)) <= asked.lots[i].reserve
    /\ \A j \in DOMAIN asked.bids : SumOf(c, OfBid(j)) <= asked.bids[j].budget
    /\ \A e \in Ids : /\ c[e] <= edges[e].maxCash
                      /\ SumOf(c, SameIssuer(e)) <= IssuerLimit(BidOf(e))
WithinRepairs(c) ==
    \A e \in Ids : /\ SumOf(c, SameDebtor(e)) <= DebtorLimit(BidOf(e))
                   /\ SumOf(c, SameGrade(e)) <= GradeLimit(BidOf(e), Lot(e).grade)
                   /\ c[e] = 0 \/ c[e] >= edges[e].minimumCash

(***************************************************************************)
(* The best candidate keeps every limit, whichever repairs and branches    *)
(* came before it: what one repair moved, the next solve has not undone    *)
(* (solver_search.go:128-163, the loop of solveState).                     *)
(***************************************************************************)
CandidateKeepsRules == best.objective >= 0 => WithinNetwork(best.cash) /\ WithinRepairs(best.cash)

(***************************************************************************)
(* Turning cash into notional rounds three times, and breaks no limit of   *)
(* supply, budget, exposure or eligibility for it: only a minimum lot can  *)
(* make the verifier refuse the solver's own answer                        *)
(* (solver_search.go:456-467 against verifier.go:23-191).                  *)
(***************************************************************************)
MaterializedKeepsLimits ==
    phase \in Answers => KeepsSupply /\ KeepsBudgets /\ KeepsExposure /\ KeepsEligibility

(***************************************************************************)
(* Clear comes back: the augmentations, solves and nodes it may use are    *)
(* counts, "both bounded searches stop on counts" (solver.go:72-74).       *)
(* Walking back along the predecessors counts nothing                      *)
(* (mincostflow.go:99-106).                                                *)
(***************************************************************************)
ClearingEnds == <>(phase \in Answers)

(***************************************************************************)
(* But for that walk, which goes round for ever when the predecessors      *)
(* close a circle, nothing keeps Clear from an answer: every search runs   *)
(* out of nodes to settle, although a settled node is given new distances, *)
(* and the repairs and branches stop (mincostflow.go:155-203,              *)
(* solver_search.go:40-90).                                                *)
(***************************************************************************)
Circling == /\ phase = "flow" /\ potential # <<>> /\ ~Searching
            /\ Pays(asked.params.maxAugmentations)
            /\ ~WalkEnds
EndsOrCircles == <>(phase \in Answers \/ Circling)
=============================================================================
