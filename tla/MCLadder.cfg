\* The cooldown ladder when a failure switches accounts.
CONSTANTS
    Account = {1, 2}
    Rungs = 2
    Ladder <- MCLadder
    ShortCools = {1}
    Full = 0
    Neutral = 0
    slug <- MCOwnFile
    MaxStamp = 2
    Threshold = 0
    Backups <- MCBackupsTwo
    Words = {"round-robin"}
SPECIFICATION Spec
PROPERTIES FailureClimbsLadder
