SPECIFICATION FairSpec
CONSTANTS
    log1 = log1
    log2 = log2
    alice = alice
    NoAccount = NoAccount
    NoLog = NoLog
    Logs = {log1, log2}
    Accounts = {alice}
    Kinds = {"ok", "each", "across"}
    MaxLines = 2
INVARIANTS TypeOK StruckAsDue
PROPERTIES CatchesUp
