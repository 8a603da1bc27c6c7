\* Two daemons that may crash, a client, and an invocation of proxy stop.
CONSTANTS
    d1 = d1
    d2 = d2
    c1 = c1
    s1 = s1
    Daemon = {d1, d2}
    Conn = {c1}
    Stopper = {s1}
    Timeout = 0
    MaxConns = 1
    Crashes = {d1, d2}
    None = None
SPECIFICATION FairSpec
INVARIANTS TypeOK PidOfServer
PROPERTIES LaunchServes IdleExitsUnlessIntercepted StopEnds
\* Daemons, once all ended, are not spawned again.
CHECK_DEADLOCK FALSE
