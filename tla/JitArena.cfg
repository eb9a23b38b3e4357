CONSTANTS
    MaxSize = 8
    Mappings = {m1, m2, m3}
    SegmentPages = 2
    SegmentCount = 2
    Lengths = {1}
    FexLengths = {1, 2}
    None = None
SPECIFICATION Spec
INVARIANTS ConfirmedByExecution BlocksAreOwned ProbeMissesLiveCode NoPagesLost
