\* A request and a launch: the live token and the status.
CONSTANTS
    Account = {1, 2}
    Rungs = 1
    Ladder <- MCLadder
    ShortCools = {1}
    Full = 0
    Neutral = 0
    Request = {q1}
    Launched = {l1}
    Victims = {}
    MaxRetries = 2
    Bodies = {"quota"}
    Added <- MCAdded
    Mode = "round-robin"
    Quota <- MCQuota
    DiskFails = FALSE
    MaxLimits = 1
SPECIFICATION Spec
INVARIANTS SettledAgree
