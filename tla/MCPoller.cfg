\* The poller, over settings of which up to two have a value of the user's own.
CONSTANTS
    Models = {m1, m2}
    Full = 4
    Whole = 4
    Tenth = 1
    Samples <- MCSamples
    Typed <- MCTyped
    Garbage <- MCGarbage
    Empty <- MCEmpty
    NoValue <- MCNoValue
    MaxOwn = 2
    Quiet = FALSE
SPECIFICATION Spec
INVARIANTS TypeOK Represents PreemptsWhenLow EffectiveInRange
PROPERTIES SetSetsOne
