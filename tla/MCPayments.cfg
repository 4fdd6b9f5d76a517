CONSTANTS
    q1 = q1  q2 = q2  risk = risk  advice = advice  x = x  y = y  k = k
    QuestionOf <- TwoQuestions
    Endpoints = {risk, advice}
    Bodies = {x, y}
    Keys = {k}
    NoKey = NoKey
    Quotes = {q1, q2}
    Txs = {t1, t2}
    Facilitators = {"local", "chain"}
    Requests = {r1, r2}
    MaxWork = 2
    Nobody = Nobody
SYMMETRY Interchangeable
SPECIFICATION Spec
CHECK_DEADLOCK FALSE
INVARIANT AnswersArePaid
PROPERTIES PaidQuoteIsKept AnswerIsFinal
