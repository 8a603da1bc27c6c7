\* A request and a launch: what the other one reported.
CONSTANTS
    Account = {1, 2}
    Rungs = 1
    Ladder <- MCLadder
    ShortCools = {1}
    Full = 0
    Neutral = 0
    Request = {q1}
    Launched = {l1}
    Victims = {}
    MaxRetries = 2
    Bodies = {"quota", "revoked"}
    Added <- MCAdded
    Mode = "round-robin"
    Quota <- MCQuota
    DiskFails = FALSE
    MaxLimits = 1
SPECIFICATION Spec
PROPERTIES StrikesLast
