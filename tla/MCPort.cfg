\* One launch, with another port configured or the proxy disabled.
CONSTANTS
    Whole = 4
    Tenth = 1
    Typed <- MCTyped
    Garbage <- MCGarbage
    Empty <- MCEmpty
    NoValue <- MCNoValue
    MaxOwn = 2
SPECIFICATION Spec
INVARIANTS LaunchFollowsSettings
