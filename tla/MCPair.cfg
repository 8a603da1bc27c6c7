SPECIFICATION Spec
CONSTANTS
    launch = launch
    daemon = daemon
    t1 = t1
    t2 = t2
    host = host
    NoFile = NoFile
    Torn = Torn
    NoName = NoName
    MaxPairs = 2
    Writers <- MCWriters
    Paths <- MCPaths
    Data <- MCData
    Daemons = {daemon}
    Threads = {t1, t2}
    Home <- MCHome
    Names = {NoName, host}
    Default = host
INVARIANT ReadyMatches

CHECK_DEADLOCK FALSE
