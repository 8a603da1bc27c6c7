\* doctor -fix over a vault with a dead account.
CONSTANTS
    Account = {1, 2}
    Rungs = 1
    Ladder <- MCOneRung
    ShortCools = {1}
    Full = 0
    Neutral = 0
    slug <- MCOwnFile
    MaxStamp = 2
    Threshold = 0
    Backups <- MCBackupsTwo
    Words = {"round-robin"}
SPECIFICATION Spec
PROPERTIES DoctorClearsRevoked
