--------------------------------- MODULE Risk ---------------------------------
(***************************************************************************)
(* The published model (risk): what six features, the market and the terms *)
(* of a receivable make of it - a probability of default, a grade and a    *)
(* price.  Rates are thousandths, which the code keeps to a millionth.     *)
(***************************************************************************)
EXTENDS Money, FiniteSets

CONSTANT Sigmoid(_)   \* 1 / (1 + exp(-z)) of thousandths, by a Taylor series

One == 1000
Between(x, low, high) == IF x < low THEN low ELSE IF x > high THEN high ELSE x

Coefficients == [dso |-> 1800, late |-> 2400, dispute |-> 1100,
                 concentration |-> 900, volatility |-> 700, debtor |-> 2200]
Intercept == -5500
Highest == 3600

\* Over the log-odds that features can have it rises, and rounding does not change that.
ASSUME RiskAssumption ==
    \A z \in Intercept..Highest : Sigmoid(z) \in Int /\ (z < Highest => Sigmoid(z) <= Sigmoid(z + 1))

InRange(features) == \A f \in DOMAIN Coefficients : features[f] \in 0..One
Effect(features, f) == HalfEven(Coefficients[f] * features[f], One)
LogOdds(features) ==
    Intercept + Effect(features, "dso") + Effect(features, "late") + Effect(features, "dispute")
              + Effect(features, "concentration") + Effect(features, "volatility") + Effect(features, "debtor")
ProbabilityOfDefault(features) == Between(Sigmoid(LogOdds(features)), 1, 800)

\* Mutant: what secures a claim makes it worse.
MutLossGivenDefault(mitigations) ==
    Between(450 + (IF mitigations.recourse THEN 150 ELSE 0)
                + (IF mitigations.collateralized THEN 100 ELSE 0), 100, 900)

LossGivenDefault(mitigations) ==
    Between(450 - (IF mitigations.recourse THEN 150 ELSE 0)
                - (IF mitigations.collateralized THEN 100 ELSE 0), 100, 900)

ExpectedLoss(pd, lgd, face) == HalfEven(face * pd * lgd, One * One)

\* GradeFromPD, as a rank: A to D end below two, five, ten and twenty percent.
Bands == <<20, 50, 100, 200>>
Rank(pd) == Cardinality({b \in DOMAIN Bands : pd >= Bands[b]})

RequiresManualReview(result) == ~result.arithmetic \/ result.confidence < 850

(***************************************************************************)
(* Price: the benchmark and three premiums discount the face over the days *)
(* that are left, and the platform takes its fee of the face.              *)
(***************************************************************************)
RiskPremium(pd, lgd) == HalfEven(25 * pd * lgd, 10 * One)
ConcentrationPremium(features) == HalfEven(20 * features.concentration, One)
Discount(features, pd, lgd, snapshot) ==
    snapshot.benchmark + RiskPremium(pd, lgd) + snapshot.premium + ConcentrationPremium(features)
PresentValue(face, discount, days) == HalfEven(face * One * 365, One * 365 + discount * days)
Fee(face) == HalfEven(5 * face, One)
Reserve(face, discount, days) == PresentValue(face, discount, days) - Fee(face)

\* Assess, with the volatility of the market in place of the enclave's: no row
\* for features out of range, for a receivable that is due, a rate above the published maximum, or a price
\* of nothing.
NoScore == [rank |-> -1]
Score(face, days, result, snapshot) ==
    LET features == [result.features EXCEPT !.volatility = snapshot.volatility]
        pd == ProbabilityOfDefault(features)
        lgd == LossGivenDefault(result.mitigations)
        discount == Discount(features, pd, lgd, snapshot)
    IN IF \/ ~InRange(features) \/ days <= 0
          \/ discount > 600 \/ Reserve(face, discount, days) <= 0
       THEN NoScore
       ELSE [features |-> features, rank |-> Rank(pd), loss |-> ExpectedLoss(pd, lgd, face),
             benchmark |-> snapshot.benchmark, discount |-> discount, reserve |-> Reserve(face, discount, days),
             review |-> RequiresManualReview(result)]
===============================================================================
