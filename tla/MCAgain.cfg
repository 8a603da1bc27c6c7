SPECIFICATION SpecReadings
CONSTANTS
    log1 = log1
    log2 = log2
    alice = alice
    NoAccount = NoAccount
    NoLog = NoLog
    Logs = {log1, log2}
    Accounts = {alice}
    Kinds = {"ok", "first"}
    MaxLines = 2
INVARIANTS StruckNoMore
