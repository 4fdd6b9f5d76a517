CONSTANTS
    odd = odd  same = same  other = other
    Attempts = {a1, a2, a3, odd}
    Bodies = {same, other}
    BodyOf <- OneOdd
    NoOne = NoOne
    MaxFaults = 2
    MaxUnknown = 1
SPECIFICATION KeySpec
CHECK_DEADLOCK FALSE
INVARIANTS OneEffectPerKey RepliesAreTrue
