----------------------------- MODULE ProxyDaemon -----------------------------
(***************************************************************************)
(* The life of the proxy daemon: launches that spawn it, the port and the  *)
(* PID file, the connections it serves, the idle watchdog, the shutdown    *)
(* endpoint, and agy-rotator proxy stop.                                   *)
(*                                                                         *)
(* Every daemon process has an identity of its own (its PID).  A health    *)
(* check gives up after 35 ms, so a launch may spawn a daemon at any time, *)
(* also beside one that runs.                                              *)
(***************************************************************************)
EXTENDS Naturals, FiniteSets

CONSTANTS
    Daemon,     \* daemon processes
    Conn,       \* client connections
    Stopper,    \* invocations of proxy stop
    Timeout,    \* proxy_idle_timeout
    MaxConns,   \* bound on the connections counted at one daemon
    Crashes,    \* the daemons that may be killed while they serve
    None        \* no process

ASSUME DaemonAssumption ==
    /\ Timeout \in Nat
    /\ MaxConns \in Nat
    /\ Crashes \subseteq Daemon
    /\ None \notin Daemon

\* Shutdown runs in the watchdog or in a goroutine of a POST to /shutdown.
Watch == "watchdog"
Thread == {Watch} \cup Stopper

VARIABLES
    phase,        \* where a daemon is between its start and its end
    port,         \* the process that listens
    pidFile,      \* proxy.pid
    idle,         \* time since lastActivity, up to Timeout + 1
    activeConns,  \* the counter the watchdog reads
    shutdownChan, \* whether the channel is closed
    thread,       \* progress of the calls of Shutdown in a daemon
    conn,         \* state of a connection
    at,           \* the daemon that serves it
    stop,         \* progress of a proxy stop
    target        \* the process proxy stop read from the PID file

daemonVars == <<phase, port, pidFile, shutdownChan, thread>>
clientVars == <<idle, activeConns, conn, at>>
stopVars == <<stop, target>>
vars == <<daemonVars, clientVars, stopVars>>

\* What a process goes through: spawned, listening, serving, no longer
\* listening, ended, ended by a panic.
Phases == {"off", "boot", "bound", "up", "closing", "ended", "panicked"}
\* A plain request; a tunnel piped to its target; a tunnel intercepted, in its
\* handshake, open, and with a request under way.
ConnStates == {"free", "plain", "piped", "shaking", "open", "asking"}

TypeOK ==
    /\ phase \in [Daemon -> Phases]
    /\ port \in Daemon \cup {None}
    /\ pidFile \in Daemon \cup {None}
    /\ idle \in [Daemon -> 0..(Timeout + 1)]
    /\ activeConns \in [Daemon -> 0..MaxConns]
    /\ shutdownChan \in [Daemon -> BOOLEAN]
    /\ thread \in [Daemon -> [Thread -> {"none", "check", "close", "unpid", "shut", "done"}]]
    /\ conn \in [Conn -> ConnStates]
    /\ at \in [Conn -> Daemon \cup {None}]
    /\ stop \in [Stopper -> {"idle", "post", "read", "term", "remove", "done"}]
    /\ target \in [Stopper -> Daemon \cup {None}]

Init ==
    /\ phase = [d \in Daemon |-> "off"]
    /\ port = None
    /\ pidFile = None
    /\ idle = [d \in Daemon |-> 0]
    /\ activeConns = [d \in Daemon |-> 0]
    /\ shutdownChan = [d \in Daemon |-> FALSE]
    /\ thread = [d \in Daemon |-> [t \in Thread |-> "none"]]
    /\ conn = [c \in Conn |-> "free"]
    /\ at = [c \in Conn |-> None]
    /\ stop = [s \in Stopper |-> "idle"]
    /\ target = [s \in Stopper |-> None]

-----------------------------------------------------------------------------
(* The process.                                                            *)

\* The process ends in phase e: the kernel closes its sockets.
Dies(d, e) ==
    /\ phase' = [phase EXCEPT ![d] = e]
    /\ port' = IF port = d THEN None ELSE port
    /\ thread' = [thread EXCEPT ![d] = [t \in Thread |-> "none"]]
    /\ conn' = [c \in Conn |-> IF at[c] = d THEN "free" ELSE conn[c]]
    /\ at' = [c \in Conn |-> IF at[c] = d THEN None ELSE at[c]]

\* EnsureRunning spawns proxy daemon.
Spawn(d) ==
    /\ phase[d] = "off"
    /\ phase' = [phase EXCEPT ![d] = "boot"]
    /\ UNCHANGED <<port, pidFile, shutdownChan, thread, clientVars, stopVars>>

\* A daemon that writes its PID before it knows it has the port.
PidThenListen(d) ==
    /\ phase[d] = "boot"
    /\ IF port = None
       THEN phase' = [phase EXCEPT ![d] = "bound"] /\ port' = d
       ELSE phase' = [phase EXCEPT ![d] = "ended"] /\ UNCHANGED port
    /\ pidFile' = d
    /\ UNCHANGED <<shutdownChan, thread, clientVars, stopVars>>

\* Start: a daemon that finds the port taken ends.
Listen(d) ==
    /\ phase[d] = "boot"
    /\ IF port = None
       THEN phase' = [phase EXCEPT ![d] = "bound"] /\ port' = d
       ELSE phase' = [phase EXCEPT ![d] = "ended"] /\ UNCHANGED port
    /\ UNCHANGED <<pidFile, shutdownChan, thread, clientVars, stopVars>>

\* A daemon that takes a PID file for proof that another one runs.
WritePidOnce(d) ==
    /\ phase[d] = "bound"
    /\ IF pidFile = None
       THEN phase' = [phase EXCEPT ![d] = "up"] /\ pidFile' = d
       ELSE phase' = [phase EXCEPT ![d] = "ended"] /\ UNCHANGED pidFile
    /\ port' = IF pidFile = None THEN port ELSE None
    /\ UNCHANGED <<shutdownChan, thread, clientVars, stopVars>>

\* Start: the PID file is written, the watchdog started, and the port served.
WritePid(d) ==
    /\ phase[d] = "bound"
    /\ phase' = [phase EXCEPT ![d] = "up"]
    /\ pidFile' = d
    /\ UNCHANGED <<port, shutdownChan, thread, clientVars, stopVars>>

\* Serve has returned, so the process ends, whatever Shutdown waits for.
Exit(d) ==
    /\ phase[d] = "closing"
    /\ Dies(d, "ended")
    /\ UNCHANGED <<pidFile, idle, activeConns, shutdownChan, stopVars>>

\* SIGKILL, or the machine takes the process down.
Crash(d) ==
    /\ phase[d] = "up"
    /\ Dies(d, "ended")
    /\ UNCHANGED <<pidFile, idle, activeConns, shutdownChan, stopVars>>

Tick(d) ==
    /\ phase[d] = "up"
    /\ idle[d] <= Timeout
    /\ idle' = [idle EXCEPT ![d] = @ + 1]
    /\ UNCHANGED <<daemonVars, activeConns, conn, at, stopVars>>

-----------------------------------------------------------------------------
(* Shutdown, in thread t of daemon d.                                      *)

Step(d, t, from, to) ==
    /\ phase[d] \in {"up", "closing"}
    /\ thread[d][t] = from
    /\ thread' = [thread EXCEPT ![d][t] = to]

\* A tick of the watchdog that finds the daemon idle.  Its select may take the
\* tick also when the channel is closed already.
Watchdog(d) ==
    /\ activeConns[d] = 0
    /\ idle[d] > Timeout
    /\ Step(d, Watch, "none", "check")
    /\ UNCHANGED <<phase, port, pidFile, shutdownChan, clientVars, stopVars>>

\* The select: closed already, or to be closed.
Check(d, t) ==
    /\ Step(d, t, "check", IF shutdownChan[d] THEN "unpid" ELSE "close")
    /\ UNCHANGED <<phase, port, pidFile, shutdownChan, clientVars, stopVars>>

\* Closing a closed channel panics.
Close(d, t) ==
    \/ /\ ~shutdownChan[d]
       /\ Step(d, t, "close", "unpid")
       /\ shutdownChan' = [shutdownChan EXCEPT ![d] = TRUE]
       /\ UNCHANGED <<phase, port, pidFile, clientVars, stopVars>>
    \/ /\ shutdownChan[d]
       /\ thread[d][t] = "close"
       /\ Dies(d, "panicked")
       /\ UNCHANGED <<pidFile, idle, activeConns, shutdownChan, stopVars>>

Unpid(d, t) ==
    /\ Step(d, t, "unpid", "shut")
    /\ pidFile' = None
    /\ UNCHANGED <<phase, port, shutdownChan, clientVars, stopVars>>

\* A shutdown that lets the clients finish first, however long they take.
ShutDrained(d, t) ==
    /\ Step(d, t, "shut", "done")
    /\ \A c \in Conn : at[c] # d
    /\ phase' = [phase EXCEPT ![d] = "closing"]
    /\ port' = IF port = d THEN None ELSE port
    /\ UNCHANGED <<pidFile, shutdownChan, clientVars, stopVars>>

\* httpServer.Shutdown closes the listener, and Serve returns at once.
Shut(d, t) ==
    /\ Step(d, t, "shut", "done")
    /\ phase' = [phase EXCEPT ![d] = "closing"]
    /\ port' = IF port = d THEN None ELSE port
    /\ UNCHANGED <<pidFile, shutdownChan, clientVars, stopVars>>

Shutdown(d, t) == Check(d, t) \/ Close(d, t) \/ Unpid(d, t) \/ Shut(d, t)

-----------------------------------------------------------------------------
(* The clients.                                                            *)

\* Where a connection goes; a new one is at the daemon that listens.
Becomes(c, s) ==
    /\ conn' = [conn EXCEPT ![c] = s]
    /\ at' = [at EXCEPT ![c] = IF s = "free" THEN None
                               ELSE IF conn[c] = "free" THEN port ELSE @]

Active(d) == idle' = [idle EXCEPT ![d] = 0]

\* ServeHTTP: a plain request, or a CONNECT to a host that is not intercepted.
Arrive(c, s) ==
    /\ conn[c] = "free"
    /\ port # None
    /\ phase[port] = "up"
    /\ Becomes(c, s)
    /\ Active(port)
    /\ UNCHANGED <<activeConns, daemonVars, stopVars>>

\* A CONNECT to a host that is intercepted is counted.
Connect(c) ==
    /\ conn[c] = "free"
    /\ port # None
    /\ phase[port] = "up"
    /\ activeConns[port] < MaxConns
    /\ activeConns' = [activeConns EXCEPT ![port] = @ + 1]
    /\ Becomes(c, "shaking")
    /\ Active(port)
    /\ UNCHANGED <<daemonVars, stopVars>>

\* The exchange of a plain request or a pipe is over.
Finish(c) ==
    /\ conn[c] \in {"plain", "piped"}
    /\ Becomes(c, "free")
    /\ UNCHANGED <<idle, activeConns, daemonVars, stopVars>>

\* A failed handshake that is not uncounted.
HandshakeLeaks(c) ==
    /\ conn[c] = "shaking"
    /\ Becomes(c, "free")
    /\ UNCHANGED <<idle, activeConns, daemonVars, stopVars>>

\* A failed handshake that is counted as another connection.
HandshakeRecounts(c) ==
    /\ conn[c] = "shaking"
    /\ Becomes(c, "free")
    /\ activeConns' = [activeConns EXCEPT ![at[c]] = @ + 1]
    /\ UNCHANGED <<idle, daemonVars, stopVars>>

\* The handshake fails and handleConnect returns: the connection is uncounted.
HandshakeFails(c) ==
    /\ conn[c] = "shaking"
    /\ Becomes(c, "free")
    /\ activeConns' = [activeConns EXCEPT ![at[c]] = @ - 1]
    /\ UNCHANGED <<idle, daemonVars, stopVars>>

Handshake(c) ==
    /\ conn[c] = "shaking"
    /\ Becomes(c, "open")
    /\ UNCHANGED <<idle, activeConns, daemonVars, stopVars>>

\* A request inside the tunnel, and its answer.
Ask(c) ==
    /\ conn[c] = "open"
    /\ Becomes(c, "asking")
    /\ Active(at[c])
    /\ UNCHANGED <<activeConns, daemonVars, stopVars>>

Reply(c) ==
    /\ conn[c] = "asking"
    /\ Becomes(c, "open")
    /\ UNCHANGED <<idle, activeConns, daemonVars, stopVars>>

\* The client closes the tunnel.  The inner Serve waits in its second Accept
\* for a Close that only follows its return: handleInterceptedTLS never comes
\* back to uncount the connection.
Leave(c) ==
    /\ conn[c] \in {"open", "asking"}
    /\ Becomes(c, "free")
    /\ UNCHANGED <<idle, activeConns, daemonVars, stopVars>>

-----------------------------------------------------------------------------
(* agy-rotator proxy stop.                                                 *)

\* The health check: without an answer there is nothing to stop.
IsRunning(s) ==
    /\ stop[s] = "idle"
    /\ port # None
    /\ phase[port] = "up"
    /\ stop' = [stop EXCEPT ![s] = "post"]
    /\ Active(port)
    /\ UNCHANGED <<daemonVars, activeConns, conn, at, target>>

\* POST to /shutdown, which starts a goroutine in the daemon; proxy stop goes
\* on in the same way when nobody answers.
Post(s) ==
    /\ stop[s] = "post"
    /\ stop' = [stop EXCEPT ![s] = "read"]
    /\ IF port # None /\ phase[port] = "up"
       THEN thread' = [thread EXCEPT ![port][s] = "check"] /\ Active(port)
       ELSE UNCHANGED <<thread, idle>>
    /\ UNCHANGED <<phase, port, pidFile, shutdownChan, activeConns, conn, at, target>>

ReadPid(s) ==
    /\ stop[s] = "read"
    /\ stop' = [stop EXCEPT ![s] = IF pidFile = None THEN "done" ELSE "term"]
    /\ target' = [target EXCEPT ![s] = pidFile]
    /\ UNCHANGED <<daemonVars, clientVars>>

\* SIGTERM ends the process on the spot, if it still runs.
Terminate(s) ==
    /\ stop[s] = "term"
    /\ stop' = [stop EXCEPT ![s] = "remove"]
    /\ IF phase[target[s]] \in {"ended", "panicked"}
       THEN UNCHANGED <<daemonVars, clientVars>>
       ELSE Dies(target[s], "ended") /\ UNCHANGED <<pidFile, shutdownChan, idle, activeConns>>
    /\ UNCHANGED target

RemovePid(s) ==
    /\ stop[s] = "remove"
    /\ stop' = [stop EXCEPT ![s] = "done"]
    /\ pidFile' = None
    /\ target' = [target EXCEPT ![s] = None]
    /\ UNCHANGED <<phase, port, shutdownChan, thread, clientVars>>

-----------------------------------------------------------------------------
Process(d) ==
    \/ Listen(d) \/ WritePid(d) \/ Exit(d)
    \/ \E t \in Thread : Shutdown(d, t)

Client(c) ==
    \/ \E s \in {"plain", "piped"} : Arrive(c, s)
    \/ Connect(c) \/ Finish(c) \/ HandshakeFails(c) \/ Handshake(c)
    \/ Ask(c) \/ Reply(c) \/ Leave(c)

Stop(s) == IsRunning(s) \/ Post(s) \/ ReadPid(s) \/ Terminate(s) \/ RemovePid(s)

Next ==
    \/ \E d \in Daemon : Spawn(d) \/ Process(d) \/ Watchdog(d) \/ Tick(d)
    \/ \E d \in Crashes : Crash(d)
    \/ \E c \in Conn : Client(c)
    \/ \E s \in Stopper : Stop(s)

Spec == Init /\ [][Next]_vars

\* Processes are scheduled, time passes and the watchdog's ticker ticks.
\* Nothing is assumed of clients, of launches or of proxy stop.
FairSpec ==
    /\ Spec
    /\ \A d \in Daemon :
          /\ WF_vars(Process(d))
          /\ WF_vars(Tick(d))
          /\ WF_vars(Watchdog(d))

-----------------------------------------------------------------------------
(* Properties.                                                             *)

\* proxy.pid names the daemon that serves, also after launches that spawned a
\* daemon too many and after a daemon that died without cleaning up, as long as
\* nobody has begun a proxy stop.
PidOfServer ==
    (\A s \in Stopper : stop[s] = "idle") =>
        \A d \in Daemon : phase[d] = "up" /\ ~shutdownChan[d] => pidFile = d

\* Every launch that spawns a daemon gets a daemon that serves, its own or the
\* one that was faster.
LaunchServes ==
    \A d \in Daemon : phase[d] = "boot" ~> \E e \in Daemon : phase[e] = "up"

\* No client is connected.
Quiet == \A c \in Conn : conn[c] = "free"

\* A daemon without clients does not serve forever.
IdleExits ==
    <>[]Quiet => \A d \in Daemon : phase[d] = "up" ~> phase[d] # "up"

\* The same for a daemon that never intercepted a connection.
IdleExitsUnlessIntercepted ==
    /\ <>[]Quiet
    /\ [](\A c \in Conn : conn[c] \notin {"open", "asking"})
    => \A d \in Daemon : phase[d] = "up" ~> phase[d] # "up"

\* A daemon that is told to stop ends, also while a client keeps a request or
\* a tunnel open, and however many others tell it to.
StopEnds ==
    \A d \in Daemon, s \in Stopper :
        thread[d][s] # "none" ~> phase[d] \in {"ended", "panicked"}

\* A shutdown waits for the requests that are being answered.
ShutdownGraceful ==
    [][\A d \in Daemon :
          phase[d] = "closing" /\ phase'[d] = "ended"
          => \A c \in Conn : at[c] = d => conn[c] # "plain"]_vars
=============================================================================
