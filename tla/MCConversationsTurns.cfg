\* A question posted before another's receipt takes its answer.
SPECIFICATION Spec
CONSTANTS
    ann = ann
    bob = bob
    q1 = q1
    q2 = q2
    q3 = q3
    Participants = {ann, bob}
    Questions = {q1, q2, q3}
    TokensOf <- MCTokensOf
    TTL = 2
    MaxTurns = 2
    MaxTokens = 4
    MaxClock = 3
SYMMETRY MCSymmetry
INVARIANT
    TurnsAreWhole
\* time and questions are bounded
CHECK_DEADLOCK FALSE
