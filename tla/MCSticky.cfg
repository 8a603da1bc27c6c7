\* Sticky mode with a revoked account in the vault.
CONSTANTS
    Account = {1, 2}
    Rungs = 1
    Ladder <- MCOneRung
    ShortCools = {1}
    Full = 0
    Neutral = 0
    slug <- MCOwnFile
    MaxStamp = 2
    Threshold = 0
    Backups <- MCBackupsTwo
    Words = {"sticky"}
SPECIFICATION Spec
PROPERTIES StickyKeepsActive
