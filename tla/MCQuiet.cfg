\* A watcher that was started with -quiet.
CONSTANTS
    Models = {m1, m2}
    Full = 4
    Whole = 4
    Tenth = 1
    Samples <- MCSamples
    Typed <- MCTyped
    Garbage <- MCGarbage
    Empty <- MCEmpty
    NoValue <- MCNoValue
    MaxOwn = 1
    Quiet = TRUE
SPECIFICATION Spec
INVARIANTS QuietKeeps
