\* Two concurrent calls, two keys, tokens of two jobs and two runs.
CONSTANTS
    k1 = k1
    k2 = k2
    dev = dev
    Calls = {c1, c2}
    Kids = {k1, k2}
    Tokens <- SentTokens
    DevToken = dev
    Bodies <- SentBodies
    Null = Null
SPECIFICATION FairSpec
INVARIANTS
    TypeOK
    SecondAgrees
    RotationIsFollowed
    RetriesShareTheKey
PROPERTIES
    CachedIsAnswered
