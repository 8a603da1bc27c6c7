\* A client that intercepts, leaves, and never comes back.
CONSTANTS
    d1 = d1
    c1 = c1
    Daemon = {d1}
    Conn = {c1}
    Stopper = {}
    Timeout = 1
    MaxConns = 1
    Crashes = {}
    None = None
SPECIFICATION FairSpec
PROPERTIES IdleExits
\* Daemons, once all ended, are not spawned again.
CHECK_DEADLOCK FALSE
