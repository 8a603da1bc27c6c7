\* Three addresses, two of which name one file; all modes, two levels of quota.
CONSTANTS
    Account = {1, 2, 3}
    Rungs = 1
    Ladder <- MCOneRung
    ShortCools = {1}
    Full = 1
    Neutral = 0
    slug <- MCShared
    MaxStamp = 2
    Threshold = 0
    Backups <- MCBackups
    Words = {"round-robin", "sticky", "smart", "fastest"}
SPECIFICATION TurnsSpec
INVARIANTS TypeOK LiveIsActive NoStarvation WithinOneRound
PROPERTIES
    RotateKeepsPromise
    FailoverLeavesFailed
    RevokedUntilRefreshed
    StickyKeepsActiveIfNoneRevoked
    RichestWins
    ActiveKeepsFile
