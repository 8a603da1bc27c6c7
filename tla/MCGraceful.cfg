\* A shutdown while a request is answered.
CONSTANTS
    d1 = d1
    c1 = c1
    s1 = s1
    Daemon = {d1}
    Conn = {c1}
    Stopper = {s1}
    Timeout = 1
    MaxConns = 1
    Crashes = {}
    None = None
SPECIFICATION Spec
PROPERTIES ShutdownGraceful
\* Daemons, once all ended, are not spawned again.
CHECK_DEADLOCK FALSE
