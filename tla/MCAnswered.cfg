\* A request and a launch over two accounts, scheduled fairly, on a disk whose
\* writes may fail.
CONSTANTS
    Account = {1, 2}
    Rungs = 1
    Ladder <- MCLadder
    ShortCools = {1}
    Full = 0
    Neutral = 0
    Request = {q1}
    Launched = {l1}
    Victims = {}
    MaxRetries = 2
    Bodies = {"revoked"}
    Added <- MCAdded
    Mode = "round-robin"
    Quota <- MCQuota
    DiskFails = TRUE
    MaxLimits = 1
SPECIFICATION FairSpec
PROPERTIES Answered
