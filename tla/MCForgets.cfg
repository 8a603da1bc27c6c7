\* remove under another spelling of the address.
CONSTANTS
    Account = {1, 2, 3}
    Rungs = 1
    Ladder <- MCOneRung
    ShortCools = {1}
    Full = 0
    Neutral = 0
    slug <- MCShared
    MaxStamp = 2
    Threshold = 0
    Backups <- MCBackupsShared
    Words = {"round-robin"}
SPECIFICATION Spec
PROPERTIES RemoveForgets
