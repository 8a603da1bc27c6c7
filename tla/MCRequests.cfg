\* Two requests at the same time over two accounts, on a disk whose writes may
\* fail.
CONSTANTS
    Account = {1, 2}
    Rungs = 2
    Ladder <- MCTwoRungs
    ShortCools = {1}
    Full = 0
    Neutral = 0
    Request = {q1, q2}
    Launched = {}
    Victims = {{q1, q2}}
    MaxRetries = 2
    Bodies = {"short"}
    Added <- MCAdded
    Mode = "smart"
    Quota <- MCQuota
    DiskFails = TRUE
    MaxLimits = 2
SYMMETRY Alike
SPECIFICATION Spec
INVARIANTS TypeOK NoFalseStrike NoDoubleStrike
