-------------------------------- MODULE Market --------------------------------
(***************************************************************************)
(* The benchmark an assessment is priced from (marketdata): lending venues *)
(* are asked for their markets, and the answers are reduced to one rate, a *)
(* liquidity premium and a volatility.  Rates are thousandths (the code    *)
(* keeps six decimals, and its floor of a quarter of a percent is taken as *)
(* two thousandths), liquidity whole dollars.                              *)
(***************************************************************************)
EXTENDS Sums

CONSTANTS
    NoAnswer,            \* what a venue that does not answer gives
    LiquidityConstant    \* what is divided by the root of the liquidity

ASSUME MarketAssumption == LiquidityConstant \in Nat \ {0}

\* A row without a variable lender rate that is a number and not negative says
\* nothing of its market.
NoRate == -1
Clamp(x, low, high) == IF x < low THEN low ELSE IF x > high THEN high ELSE x

\* FetchMarkets: `answers` are the rows of each venue.  A venue that does not
\* answer takes the whole fetch with it.
Fetched(answers) ==
    IF \E v \in DOMAIN answers : answers[v] = NoAnswer THEN {}
    ELSE UNION {{[venue |-> v, id |-> r.id, apy |-> r.lender, liquidity |-> r.deposits] :
                   r \in {x \in answers[v] : x.lender # NoRate}} : v \in DOMAIN answers}

\* Normalize: only a market one can lend to counts.
Eligible(answers) == {m \in Fetched(answers) : m.liquidity > 0}

\* sqrtDecimal, by which a market counts: the whole part of the root of n < 2^30, in
\* three digits, the highest first.
Base == 32
WithDigit(n, r, unit) ==
    r + unit * Max({d \in 0..(Base - 1) : (r + unit * d) * (r + unit * d) <= n})
Root(n) == WithDigit(n, WithDigit(n, WithDigit(n, 0, Base * Base), Base), 1)
Weight(markets) == SumOf([m \in markets |-> Root(m.liquidity)], markets)

NoDearer(markets, rate) == {m \in markets : m.apy <= rate}

\* Mutant: every market counts the same.
MutNearestRank(markets, num, den) ==
    LET Reaches(rate) == den * Cardinality(NoDearer(markets, rate)) >= num * Cardinality(markets)
    IN Min({m.apy : m \in {x \in markets : Reaches(x.apy)}})

\* The rate with which, in the order of sortedByAPY, the part num/den of the weight is
\* reached.  (Of markets with one rate the order is of no matter.)
Quantile(markets, num, den) ==
    LET Reaches(rate) == den * Weight(NoDearer(markets, rate)) >= num * Weight(markets)
    IN Min({m.apy : m \in {x \in markets : Reaches(x.apy)}})

Winsorized(markets) ==
    IF Cardinality(markets) < 2 THEN markets
    ELSE LET low == Quantile(markets, 1, 10)
             high == Quantile(markets, 9, 10)
         IN {[m EXCEPT !.apy = Clamp(m.apy, low, high)] : m \in markets}

TotalLiquidity(markets) == SumOf([m \in markets |-> m.liquidity], markets)
LiquidityPremium(markets) ==
    Clamp((LiquidityConstant * 1000) \div Root(TotalLiquidity(markets)), 2, 50)

\* The spread in tenths, between zero and one.
Volatility(markets) ==
    IF Cardinality(markets) < 2 THEN 0
    ELSE LET rates == {m.apy : m \in markets} IN Clamp(10 * (Max(rates) - Min(rates)), 0, 1000)

\* Service.Snapshot: it is fresh, for it is made when it is asked for.  Without
\* a market there is none.
NoSnapshot == [benchmark |-> NoRate]
Snapshot(answers) ==
    LET markets == Eligible(answers)
        winsorized == Winsorized(markets)
    IN IF markets = {} THEN NoSnapshot
       ELSE [benchmark |-> Quantile(winsorized, 1, 2),
             premium |-> LiquidityPremium(markets),
             volatility |-> Volatility(winsorized)]
===============================================================================
