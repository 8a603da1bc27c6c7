----------------------------- MODULE DaemonProofs -----------------------------
(***************************************************************************)
(* ProxyDaemon, for every number of daemons, connections and stops: the    *)
(* PID file names the daemon that serves until somebody begins to stop it, *)
(* and the counter of connections stays within its bounds.                 *)
(***************************************************************************)
EXTENDS ProxyDaemon, FiniteSetTheorems, TLAPS

\* The part of the types that the argument needs.
Types ==
    /\ phase \in [Daemon -> Phases]
    /\ port \in Daemon \cup {None}
    /\ shutdownChan \in [Daemon -> BOOLEAN]
    /\ thread \in [Daemon -> [Thread -> {"none", "check", "close", "unpid", "shut", "done"}]]
    /\ stop \in [Stopper -> {"idle", "post", "read", "term", "remove", "done"}]

NoStop == \A s \in Stopper : stop[s] = "idle"

\* A daemon that serves, or is about to, holds the port.
HoldsPort == \A d \in Daemon : phase[d] \in {"bound", "up"} => port = d

\* Only the watchdog shuts a daemon down.
OnlyWatch == \A d \in Daemon : \A t \in Thread \ {Watch} : thread[d][t] = "none"

\* The watchdog is in the middle of Shutdown only while the daemon serves, and
\* it touches the PID file only after the channel is closed.
InOrder ==
    \A d \in Daemon :
        /\ thread[d][Watch] \in {"check", "close", "unpid", "shut"} => phase[d] = "up"
        /\ thread[d][Watch] \in {"unpid", "shut", "done"} => shutdownChan[d]
        /\ phase[d] = "closing" => thread[d][Watch] = "done"

Named == \A d \in Daemon : phase[d] = "up" /\ ~shutdownChan[d] => pidFile = d

Inv == Types /\ (NoStop => HoldsPort /\ OnlyWatch /\ InOrder /\ Named)

-----------------------------------------------------------------------------
\* The program starts with nothing running.
LEMMA InitInv == Init => Inv
  BY DEF Init, Inv, Types, Phases, Thread, Watch, NoStop, HoldsPort, OnlyWatch, InOrder, Named

\* A proxy stop that has begun has begun for good.
LEMMA StopStays == Types /\ [Next]_vars /\ NoStop' => NoStop
<1> SUFFICES ASSUME Types, [Next]_vars, NoStop'
             PROVE  NoStop
  OBVIOUS
<1> USE DEF NoStop, Types
<1>1. ASSUME NEW s \in Stopper, Stop(s)
      PROVE  FALSE
  <2>1. stop'[s] # "idle"
    BY <1>1 DEF Stop, IsRunning, Post, ReadPid, Terminate, RemovePid
  <2> QED BY <2>1
<1>2. CASE \E s \in Stopper : Stop(s)
  BY <1>1, <1>2
<1>3. CASE ~\E s \in Stopper : Stop(s)
  <2>1. UNCHANGED stop
    BY <1>3 DEF Next, vars, stopVars, Spawn, Process, Listen, WritePid, Exit, Shutdown,
        Check, Close, Unpid, Shut, Watchdog, Tick, Crash, Client, Arrive, Connect, Finish,
        HandshakeFails, Handshake, Ask, Reply, Leave
  <2> QED BY <2>1
<1> QED BY <1>2, <1>3

\* A process that ends leaves its threads and gives up the port.
LEMMA DiesTypes ==
    ASSUME Types, NEW d, NEW e \in Phases, Dies(d, e)
    PROVE  /\ phase' \in [Daemon -> Phases]
           /\ port' \in Daemon \cup {None}
           /\ thread' \in [Daemon -> [Thread -> {"none", "check", "close", "unpid", "shut", "done"}]]
<1> DEFINE Idle == [t \in Thread |-> "none"]
<1>1. Idle \in [Thread -> {"none", "check", "close", "unpid", "shut", "done"}]
  OBVIOUS
<1>2. thread' = [thread EXCEPT ![d] = Idle]
  BY DEF Dies
<1> HIDE DEF Idle
<1>3. thread' \in [Daemon -> [Thread -> {"none", "check", "close", "unpid", "shut", "done"}]]
  BY <1>1, <1>2 DEF Types
<1> QED BY <1>3 DEF Dies, Types

\* The types of what the argument reads survive every step.
LEMMA TypesStep == Types /\ [Next]_vars => Types'
<1> SUFFICES ASSUME Types, [Next]_vars
             PROVE  Types'
  OBVIOUS
<1> USE DEF Types, Phases
<1>1. ASSUME NEW d \in Daemon, Spawn(d) \/ Process(d) \/ Watchdog(d) \/ Tick(d) \/ Crash(d)
      PROVE  Types'
  <2>1. CASE Spawn(d)
    BY <2>1 DEF Spawn, stopVars
  <2>2. CASE Listen(d)
    BY <2>2 DEF Listen, stopVars
  <2>3. CASE WritePid(d)
    BY <2>3 DEF WritePid, stopVars
  <2>4. CASE Exit(d) \/ Crash(d)
    BY <2>4, DiesTypes DEF Exit, Crash, stopVars
  <2>5. ASSUME NEW t \in Thread, Shutdown(d, t)
        PROVE  Types'
    <3>1. CASE Check(d, t)
      BY <3>1 DEF Check, Step, stopVars
    <3>2. CASE Close(d, t)
      <4>1. CASE ~shutdownChan[d]
        <5>1. /\ shutdownChan' = [shutdownChan EXCEPT ![d] = TRUE]
              /\ thread' = [thread EXCEPT ![d][t] = "unpid"]
              /\ UNCHANGED <<phase, port, stop>>
          BY <3>2, <4>1 DEF Close, Step, stopVars
        <5>2. shutdownChan' \in [Daemon -> BOOLEAN]
          BY <5>1
        <5> QED BY <5>1, <5>2
      <4>2. CASE shutdownChan[d]
        BY <3>2, <4>2, DiesTypes DEF Close, stopVars
      <4> QED BY <4>1, <4>2
    <3>3. CASE Unpid(d, t)
      BY <3>3 DEF Unpid, Step, stopVars
    <3>4. CASE Shut(d, t)
      BY <3>4 DEF Shut, Step, stopVars
    <3> QED BY <2>5, <3>1, <3>2, <3>3, <3>4 DEF Shutdown
  <2>6. CASE Watchdog(d)
    BY <2>6 DEF Watchdog, Step, stopVars
  <2>7. CASE Tick(d)
    BY <2>7 DEF Tick, daemonVars, stopVars
  <2> QED BY <1>1, <2>1, <2>2, <2>3, <2>4, <2>5, <2>6, <2>7 DEF Process
<1>2. ASSUME NEW c \in Conn, Client(c)
      PROVE  Types'
  BY <1>2 DEF Client, Arrive, Connect, Finish, HandshakeFails, Handshake, Ask, Reply, Leave,
      daemonVars, stopVars
<1>3. ASSUME NEW s \in Stopper, Stop(s)
      PROVE  Types'
  <2>1. CASE IsRunning(s)
    BY <2>1 DEF IsRunning, daemonVars
  <2>2. CASE Post(s)
    <3>1. /\ UNCHANGED <<phase, port, shutdownChan>>
          /\ stop' = [stop EXCEPT ![s] = "read"]
          /\ \/ UNCHANGED thread
             \/ port # None /\ thread' = [thread EXCEPT ![port][s] = "check"]
      BY <2>2 DEF Post
    <3>2. s \in Thread
      BY DEF Thread
    <3>3. CASE UNCHANGED thread
      BY <3>1, <3>3
    <3>4. CASE port # None /\ thread' = [thread EXCEPT ![port][s] = "check"]
      <4>1. port \in Daemon
        BY <3>4
      <4>2. thread' \in [Daemon -> [Thread -> {"none", "check", "close", "unpid", "shut", "done"}]]
        BY <3>2, <3>4, <4>1
      <4> QED BY <3>1, <4>2
    <3> QED BY <3>1, <3>3, <3>4
  <2>3. CASE ReadPid(s)
    BY <2>3 DEF ReadPid, daemonVars
  <2>4. CASE Terminate(s)
    BY <2>4, DiesTypes DEF Terminate, daemonVars
  <2>5. CASE RemovePid(s)
    BY <2>5 DEF RemovePid
  <2> QED BY <1>3, <2>1, <2>2, <2>3, <2>4, <2>5 DEF Stop
<1>4. CASE UNCHANGED vars
  BY <1>4 DEF vars, daemonVars, stopVars
<1> QED BY <1>1, <1>2, <1>3, <1>4, DaemonAssumption DEF Next

Safe == HoldsPort /\ OnlyWatch /\ InOrder /\ Named

\* A daemon that ends takes nothing away from the others.
LEMMA DiesSafe ==
    ASSUME Types, Safe, NEW d \in Daemon, NEW e \in {"ended", "panicked"}, Dies(d, e),
           UNCHANGED <<pidFile, shutdownChan>>
    PROVE  Safe'
<1> USE DEF Types
<1>1. ASSUME NEW b \in Daemon
      PROVE  /\ b = d => phase'[b] = e /\ thread'[b] = [t \in Thread |-> "none"]
             /\ b # d => phase'[b] = phase[b] /\ thread'[b] = thread[b]
  BY DEF Dies
<1>2. ASSUME NEW b \in Daemon, phase'[b] \in {"bound", "up"}
      PROVE  b # d /\ port' = b
  BY <1>1, <1>2 DEF Dies, Safe, HoldsPort
<1>3. Watch \in Thread
  BY DEF Thread
<1>4. InOrder'
  BY <1>1, <1>3 DEF Safe, InOrder
<1>5. OnlyWatch'
  BY <1>1 DEF Safe, OnlyWatch
<1>6. HoldsPort' /\ Named'
  BY <1>1, <1>2 DEF Safe, HoldsPort, Named
<1> QED BY <1>4, <1>5, <1>6 DEF Safe

\* Every step of a daemon keeps the file, the port and the order of Shutdown.
LEMMA DaemonSafe ==
    ASSUME Types, Safe, NEW d \in Daemon,
           Spawn(d) \/ Process(d) \/ Watchdog(d) \/ Tick(d) \/ Crash(d)
    PROVE  Safe'
<1> USE DEF Types
<1>1. CASE Spawn(d)
  BY <1>1 DEF Spawn, Safe, HoldsPort, OnlyWatch, InOrder, Named
<1>2. CASE Listen(d)
  BY <1>2, DaemonAssumption DEF Listen, Safe, HoldsPort, OnlyWatch, InOrder, Named
<1>3. CASE WritePid(d)
  BY <1>3 DEF WritePid, Safe, HoldsPort, OnlyWatch, InOrder, Named
<1>4. CASE Exit(d) \/ Crash(d)
  BY <1>4, DiesSafe DEF Exit, Crash
<1>5. ASSUME NEW t \in Thread, Shutdown(d, t)
      PROVE  Safe'
  <2>1. t = Watch
    BY <1>5 DEF Shutdown, Check, Close, Unpid, Shut, Step, Safe, OnlyWatch
  <2>2. CASE Check(d, t)
    BY <2>1, <2>2 DEF Check, Step, Safe, HoldsPort, OnlyWatch, InOrder, Named
  <2>3. CASE Close(d, t)
    <3>1. CASE ~shutdownChan[d]
      <4>1. /\ phase[d] = "up"
            /\ thread' = [thread EXCEPT ![d][Watch] = "unpid"]
            /\ shutdownChan' = [shutdownChan EXCEPT ![d] = TRUE]
            /\ UNCHANGED <<phase, port, pidFile>>
        BY <2>1, <2>3, <3>1 DEF Close, Step, Safe, InOrder
      <4>2. HoldsPort' /\ OnlyWatch'
        BY <4>1 DEF Safe, HoldsPort, OnlyWatch
      <4>3. \A b \in Daemon : shutdownChan'[b] <=> (b = d \/ shutdownChan[b])
        BY <4>1
      <4>4. InOrder' /\ Named'
        BY <2>1, <4>1, <4>3 DEF Safe, InOrder, Named
      <4> QED BY <4>2, <4>4 DEF Safe
    <3>2. CASE shutdownChan[d]
      BY <2>3, <3>2, DiesSafe DEF Close
    <3> QED BY <3>1, <3>2
  <2>4. CASE Unpid(d, t)
    <3>1. phase[d] = "up" /\ shutdownChan[d]
      BY <2>1, <2>4 DEF Unpid, Step, Safe, InOrder
    <3>2. \A b \in Daemon : phase[b] = "up" => b = d
      BY <3>1 DEF Safe, HoldsPort
    <3> QED BY <2>1, <2>4, <3>1, <3>2 DEF Unpid, Step, Safe, HoldsPort, OnlyWatch, InOrder, Named
  <2>5. CASE Shut(d, t)
    BY <2>1, <2>5 DEF Shut, Step, Safe, HoldsPort, OnlyWatch, InOrder, Named
  <2> QED BY <1>5, <2>2, <2>3, <2>4, <2>5 DEF Shutdown
<1>6. CASE Watchdog(d)
  BY <1>6 DEF Watchdog, Step, Safe, HoldsPort, OnlyWatch, InOrder, Named
<1>7. CASE Tick(d)
  BY <1>7 DEF Tick, daemonVars, Safe, HoldsPort, OnlyWatch, InOrder, Named
<1> QED BY <1>1, <1>2, <1>3, <1>4, <1>5, <1>6, <1>7 DEF Process

\* Before anybody begins a proxy stop, every step keeps the invariant.
LEMMA NextInv == Inv /\ [Next]_vars => Inv'
<1> SUFFICES ASSUME Inv, [Next]_vars
             PROVE  Inv'
  OBVIOUS
<1>1. Types /\ Types'
  BY TypesStep DEF Inv
<1>2. ASSUME NoStop'
      PROVE  Safe'
  <2>1. NoStop /\ Safe
    BY <1>1, <1>2, StopStays DEF Inv, Safe
  <2>2. ASSUME NEW s \in Stopper, Stop(s)
        PROVE  FALSE
    <3>1. IsRunning(s)
      BY <2>1, <2>2 DEF NoStop, Stop, Post, ReadPid, Terminate, RemovePid
    <3>2. stop'[s] = "post"
      BY <1>1, <3>1 DEF IsRunning, Types
    <3> QED BY <1>2, <3>2 DEF NoStop
  <2>3. ASSUME NEW c \in Conn, Client(c)
        PROVE  Safe'
    <3>1. UNCHANGED daemonVars
      BY <2>3 DEF Client, Arrive, Connect, Finish, HandshakeFails, Handshake, Ask, Reply, Leave
    <3> QED BY <2>1, <3>1 DEF daemonVars, Safe, HoldsPort, OnlyWatch, InOrder, Named
  <2>4. CASE UNCHANGED vars
    BY <2>1, <2>4 DEF vars, daemonVars, Safe, HoldsPort, OnlyWatch, InOrder, Named
  <2> QED BY <1>1, <2>1, <2>2, <2>3, <2>4, DaemonSafe, DaemonAssumption DEF Next
<1> QED BY <1>1, <1>2 DEF Inv, Safe

-----------------------------------------------------------------------------
\* proxy.pid names the daemon that serves until somebody begins a proxy stop,
\* however many launches spawn daemons and however they crash or time out:
\* only the holder of the port writes the file, and it removes the file only
\* while it still holds the port.
THEOREM PidNamesServer == Spec => []PidOfServer
<1>1. Inv => PidOfServer
  BY DEF Inv, NoStop, Named, PidOfServer
<1> QED BY <1>1, InitInv, NextInv, PTL DEF Spec

-----------------------------------------------------------------------------
\* The types of the variables that the clients and the PID file are in.
ClientTypes ==
    /\ pidFile \in Daemon \cup {None}
    /\ idle \in [Daemon -> 0..(Timeout + 1)]
    /\ activeConns \in [Daemon -> 0..MaxConns]
    /\ conn \in [Conn -> ConnStates]
    /\ at \in [Conn -> Daemon \cup {None}]
    /\ target \in [Stopper -> Daemon \cup {None}]

\* A connection that goes on is at a daemon.
Placed == \A c \in Conn : conn[c] # "free" => at[c] \in Daemon

\* Connections in their handshake are counted: so the counter, when one of
\* them is uncounted, is not 0.
Shaking(d) == {c \in Conn : conn[c] = "shaking" /\ at[c] = d}
Counted ==
    \A d \in Daemon : IsFiniteSet(Shaking(d)) /\ Cardinality(Shaking(d)) <= activeConns[d]

CountInv == Types /\ ClientTypes /\ Placed /\ Counted

\* The processes do not come to more connections in a handshake: a daemon that
\* ends takes its own along.
LEMMA DiesCounted ==
    ASSUME CountInv, NEW d, NEW e, Dies(d, e), UNCHANGED <<pidFile, idle, activeConns, target>>
    PROVE  ClientTypes' /\ Placed' /\ Counted'
<1> USE DEF CountInv, Types, ClientTypes
<1>1. \A c \in Conn : /\ at[c] = d => conn'[c] = "free" /\ at'[c] = None
                      /\ at[c] # d => conn'[c] = conn[c] /\ at'[c] = at[c]
  BY DEF Dies
<1>2. ClientTypes'
  BY DEF Dies, ConnStates
<1>3. Placed'
  BY <1>1 DEF Placed
<1>4. ASSUME NEW b \in Daemon
      PROVE  IsFiniteSet(Shaking(b)') /\ Cardinality(Shaking(b)') <= activeConns'[b]
  <2>1. CASE b = d
    <3>1. Shaking(b)' = {}
      BY <1>1, <2>1, DaemonAssumption DEF Shaking
    <3>2. activeConns'[b] \in Nat
      BY DaemonAssumption
    <3> QED BY <3>1, <3>2, FS_EmptySet
  <2>2. CASE b # d
    <3>1. Shaking(b)' = Shaking(b)
      BY <1>1, <2>2, DaemonAssumption DEF Shaking
    <3> QED BY <3>1 DEF Counted
  <2> QED BY <2>1, <2>2
<1> QED BY <1>2, <1>3, <1>4 DEF Counted

\* What leaves the connections alone leaves the count alone.
LEMMA SameCounted ==
    ASSUME Placed, Counted, UNCHANGED <<activeConns, conn, at>>
    PROVE  Placed' /\ Counted'
BY DEF Placed, Counted, Shaking

\* One step of a client.
LEMMA ClientCounted ==
    ASSUME CountInv, NEW c \in Conn, Client(c)
    PROVE  ClientTypes' /\ Placed' /\ Counted'
<1> USE DEF CountInv, Types, ClientTypes
<1>0. /\ MaxConns \in Nat /\ Timeout \in Nat /\ None \notin Daemon
      /\ \A d \in Daemon : activeConns[d] \in 0..MaxConns
  BY DaemonAssumption
<1>1. ASSUME NEW s \in ConnStates, Becomes(c, s), s # "shaking",
             conn[c] = "free" => port \in Daemon, conn[c] # "shaking",
             UNCHANGED activeConns
      PROVE  Placed' /\ Counted' /\ conn' \in [Conn -> ConnStates] /\ at' \in [Conn -> Daemon \cup {None}]
  <2>1. \A b \in Conn : b # c => conn'[b] = conn[b] /\ at'[b] = at[b]
    BY <1>1 DEF Becomes
  <2>2. conn'[c] = s
    BY <1>1 DEF Becomes
  <2>3. s # "free" => at'[c] \in Daemon
    BY <1>1 DEF Becomes, Placed
  <2>4. \A d \in Daemon : Shaking(d)' = Shaking(d)
    BY <1>1, <2>1, <2>2 DEF Shaking
  <2>5. Counted'
    BY <1>1, <2>4 DEF Counted
  <2>6. Placed'
    BY <2>1, <2>2, <2>3 DEF Placed
  <2> QED BY <1>1, <2>5, <2>6 DEF Becomes
<1>2. ASSUME NEW s \in {"plain", "piped"}, Arrive(c, s)
      PROVE  ClientTypes' /\ Placed' /\ Counted'
  <2>1. Becomes(c, s) /\ conn[c] = "free" /\ port \in Daemon /\ s \in ConnStates
    BY <1>2 DEF Arrive, ConnStates
  <2>2. UNCHANGED <<activeConns, pidFile, target>> /\ idle' = [idle EXCEPT ![port] = 0]
    BY <1>2 DEF Arrive, Active, daemonVars, stopVars
  <2>3. idle' \in [Daemon -> 0..(Timeout + 1)]
    BY <1>0, <2>1, <2>2
  <2> QED BY <1>1, <2>1, <2>2, <2>3
<1>3. CASE Connect(c)
  <2>1. /\ Becomes(c, "shaking") /\ conn[c] = "free" /\ port \in Daemon
        /\ activeConns[port] < MaxConns
        /\ activeConns' = [activeConns EXCEPT ![port] = @ + 1]
        /\ UNCHANGED <<pidFile, target>> /\ idle' = [idle EXCEPT ![port] = 0]
    BY <1>3 DEF Connect, Active, daemonVars, stopVars
  <2>2. idle' \in [Daemon -> 0..(Timeout + 1)]
    BY <1>0, <2>1
  <2>3. activeConns' \in [Daemon -> 0..MaxConns]
    BY <1>0, <2>1
  <2>4. /\ conn' = [conn EXCEPT ![c] = "shaking"] /\ at' = [at EXCEPT ![c] = port]
    BY <2>1 DEF Becomes
  <2>5. ClientTypes'
    BY <2>1, <2>2, <2>3, <2>4 DEF ConnStates
  <2>6. Placed'
    BY <2>1, <2>4 DEF Placed
  <2>7. ASSUME NEW d \in Daemon
        PROVE  IsFiniteSet(Shaking(d)') /\ Cardinality(Shaking(d)') <= activeConns'[d]
    <3>1. CASE d = port
      <4>1. Shaking(d)' = Shaking(d) \cup {c} /\ c \notin Shaking(d)
        BY <2>1, <2>4, <3>1 DEF Shaking
      <4>2. IsFiniteSet(Shaking(d)') /\ Cardinality(Shaking(d)') = Cardinality(Shaking(d)) + 1
        BY <4>1, FS_AddElement DEF Counted
      <4>3. Cardinality(Shaking(d)) \in Nat /\ Cardinality(Shaking(d)) <= activeConns[d]
        BY FS_CardinalityType DEF Counted
      <4>4. activeConns'[d] = activeConns[d] + 1
        BY <2>1, <3>1
      <4> QED BY <1>0, <4>2, <4>3, <4>4
    <3>2. CASE d # port
      <4>1. Shaking(d)' = Shaking(d) /\ activeConns'[d] = activeConns[d]
        BY <2>1, <2>4, <3>2 DEF Shaking
      <4> QED BY <4>1 DEF Counted
    <3> QED BY <3>1, <3>2
  <2> QED BY <2>5, <2>6, <2>7 DEF Counted
<1>4. CASE Finish(c)
  BY <1>1, <1>4 DEF Finish, ConnStates, daemonVars, stopVars
<1>5. ASSUME conn[c] = "shaking", NEW s \in {"free", "open"}, Becomes(c, s),
             UNCHANGED <<pidFile, idle, target>>,
             \/ activeConns' = [activeConns EXCEPT ![at[c]] = @ - 1]
             \/ UNCHANGED activeConns
      PROVE  ClientTypes' /\ Placed' /\ Counted'
  <2>1. at[c] \in Daemon
    BY <1>5 DEF Placed
  <2>2. /\ conn' = [conn EXCEPT ![c] = s]
        /\ at' = [at EXCEPT ![c] = IF s = "free" THEN None ELSE @]
    BY <1>5 DEF Becomes
  <2>3. ASSUME NEW d \in Daemon
        PROVE  /\ IsFiniteSet(Shaking(d)') /\ Cardinality(Shaking(d)') <= activeConns'[d]
               /\ activeConns'[d] \in 0..MaxConns
    <3>1. CASE d = at[c]
      <4>1. c \in Shaking(d) /\ Shaking(d)' = Shaking(d) \ {c}
        BY <1>5, <2>2, <3>1 DEF Shaking
      <4>2. IsFiniteSet(Shaking(d)') /\ Cardinality(Shaking(d)') = Cardinality(Shaking(d)) - 1
        BY <4>1, FS_RemoveElement DEF Counted
      <4>3. Cardinality(Shaking(d)) \in Nat /\ Cardinality(Shaking(d)) <= activeConns[d]
        BY FS_CardinalityType DEF Counted
      <4>4. Cardinality(Shaking(d)') \in Nat
        BY <4>2, FS_CardinalityType
      <4>5. activeConns'[d] \in {activeConns[d], activeConns[d] - 1}
        BY <1>5, <2>1, <3>1
      <4> QED BY <1>0, <4>2, <4>3, <4>4, <4>5
    <3>2. CASE d # at[c]
      <4>1. Shaking(d)' = Shaking(d)
        BY <1>5, <2>2, <3>2, DaemonAssumption DEF Shaking
      <4>2. activeConns'[d] = activeConns[d]
        BY <1>5, <2>1, <3>2
      <4> QED BY <1>0, <4>1, <4>2 DEF Counted
    <3> QED BY <3>1, <3>2
  <2>4. activeConns' \in [Daemon -> 0..MaxConns]
    <3>1. activeConns' = [d \in Daemon |-> activeConns'[d]]
      BY <1>5
    <3>2. \A d \in Daemon : activeConns'[d] \in 0..MaxConns
      BY <2>3
    <3> DEFINE f == activeConns'
    <3> HIDE DEF f
    <3>3. f = [d \in Daemon |-> f[d]] /\ \A d \in Daemon : f[d] \in 0..MaxConns
      BY <3>1, <3>2 DEF f
    <3>4. f \in [Daemon -> 0..MaxConns]
      BY <3>3
    <3> QED BY <3>4 DEF f
  <2>5. ClientTypes'
    BY <1>5, <2>2, <2>4 DEF ConnStates
  <2>6. Placed'
    BY <1>5, <2>1, <2>2 DEF Placed
  <2> QED BY <2>3, <2>5, <2>6 DEF Counted
<1>6. CASE HandshakeFails(c) \/ Handshake(c)
  BY <1>5, <1>6 DEF HandshakeFails, Handshake, daemonVars, stopVars
<1>7. CASE Ask(c)
  <2>1. Becomes(c, "asking") /\ conn[c] = "open" /\ at[c] \in Daemon
    BY <1>7 DEF Ask, Placed
  <2>2. UNCHANGED <<activeConns, pidFile, target>> /\ idle' = [idle EXCEPT ![at[c]] = 0]
    BY <1>7 DEF Ask, Active, daemonVars, stopVars
  <2>3. idle' \in [Daemon -> 0..(Timeout + 1)]
    BY <1>0, <2>1, <2>2
  <2> QED BY <1>1, <2>1, <2>2, <2>3 DEF ConnStates
<1>8. CASE Reply(c) \/ Leave(c)
  BY <1>1, <1>8 DEF Reply, Leave, ConnStates, daemonVars, stopVars
<1> QED BY <1>2, <1>3, <1>4, <1>6, <1>7, <1>8 DEF Client

\* One step of a proxy stop.
LEMMA StopCounted ==
    ASSUME CountInv, NEW s \in Stopper, Stop(s)
    PROVE  ClientTypes' /\ Placed' /\ Counted'
<1> USE DEF CountInv, Types, ClientTypes
<1>0. Timeout \in Nat
  BY DaemonAssumption
<1>1. CASE IsRunning(s) \/ Post(s)
  <2>1. /\ UNCHANGED <<pidFile, activeConns, conn, at, target>>
        /\ \/ UNCHANGED idle
           \/ port \in Daemon /\ idle' = [idle EXCEPT ![port] = 0]
    BY <1>1 DEF IsRunning, Post, Active, daemonVars
  <2>2. idle' \in [Daemon -> 0..(Timeout + 1)]
    BY <1>0, <2>1
  <2> QED BY <2>1, <2>2, SameCounted
<1>2. CASE ReadPid(s) \/ RemovePid(s)
  <2>1. UNCHANGED clientVars /\ ClientTypes'
    BY <1>2 DEF ReadPid, RemovePid, clientVars, daemonVars
  <2> QED BY <2>1, SameCounted DEF clientVars
<1>3. CASE Terminate(s)
  <2>1. CASE UNCHANGED <<daemonVars, clientVars, target>>
    BY <2>1, SameCounted DEF daemonVars, clientVars
  <2>2. CASE Dies(target[s], "ended") /\ UNCHANGED <<pidFile, idle, activeConns, target>>
    BY <2>2, DiesCounted
  <2> QED BY <1>3, <2>1, <2>2 DEF Terminate
<1> QED BY <1>1, <1>2, <1>3 DEF Stop

\* One step of a daemon.
LEMMA DaemonCounted ==
    ASSUME CountInv, NEW d \in Daemon,
           Spawn(d) \/ Process(d) \/ Watchdog(d) \/ Tick(d) \/ Crash(d)
    PROVE  ClientTypes' /\ Placed' /\ Counted'
<1> USE DEF CountInv, Types, ClientTypes
<1>1. CASE Spawn(d) \/ Listen(d) \/ WritePid(d) \/ Watchdog(d)
  <2>1. UNCHANGED <<clientVars, target>> /\ pidFile' \in Daemon \cup {None}
    BY <1>1 DEF Spawn, Listen, WritePid, Watchdog, stopVars
  <2> QED BY <2>1, SameCounted DEF clientVars
<1>2. CASE Exit(d) \/ Crash(d)
  BY <1>2, DiesCounted DEF Exit, Crash, stopVars
<1>3. ASSUME NEW t \in Thread, Shutdown(d, t)
      PROVE  ClientTypes' /\ Placed' /\ Counted'
  <2>1. \/ UNCHANGED <<clientVars, target>> /\ pidFile' \in Daemon \cup {None}
        \/ Dies(d, "panicked") /\ UNCHANGED <<pidFile, idle, activeConns, target>>
    BY <1>3 DEF Shutdown, Check, Close, Unpid, Shut, stopVars
  <2> QED BY <2>1, SameCounted, DiesCounted DEF clientVars
<1>4. CASE Tick(d)
  <2>1. /\ UNCHANGED <<pidFile, activeConns, conn, at, target>>
        /\ idle[d] <= Timeout /\ idle' = [idle EXCEPT ![d] = @ + 1]
    BY <1>4 DEF Tick, daemonVars, stopVars
  <2>2. idle' \in [Daemon -> 0..(Timeout + 1)]
    <3>1. Timeout \in Nat /\ idle[d] \in 0..(Timeout + 1)
      BY DaemonAssumption
    <3>2. idle[d] + 1 \in 0..(Timeout + 1)
      BY <2>1, <3>1
    <3> QED BY <2>1, <3>2
  <2> QED BY <2>1, <2>2, SameCounted
<1> QED BY <1>1, <1>2, <1>3, <1>4 DEF Process

\* Every reachable state of ProxyDaemon is well typed; in particular the
\* counter of connections, which only a failed handshake lowers, never falls
\* below 0 (proxy.go:248-249), for any number of daemons and connections.
THEOREM DaemonTypes == Spec => []TypeOK
<1>1. Init => CountInv
  <2> SUFFICES ASSUME Init PROVE CountInv
    OBVIOUS
  <2>1. Types
    BY InitInv DEF Inv
  <2>2. ClientTypes /\ Placed
    BY DaemonAssumption DEF Init, ClientTypes, ConnStates, Placed
  <2>3. \A d \in Daemon : Shaking(d) = {} /\ activeConns[d] = 0
    BY DEF Init, Shaking
  <2>4. Counted
    BY <2>3, FS_EmptySet DEF Counted
  <2> QED BY <2>1, <2>2, <2>4 DEF CountInv
<1>2. CountInv /\ [Next]_vars => CountInv'
  <2> SUFFICES ASSUME CountInv, [Next]_vars
               PROVE  CountInv'
    OBVIOUS
  <2>1. Types'
    BY TypesStep DEF CountInv
  <2>2. CASE UNCHANGED vars
    BY <2>1, <2>2, SameCounted DEF CountInv, ClientTypes, vars, daemonVars, clientVars, stopVars
  <2>3. CASE Next
    BY <2>1, <2>3, DaemonCounted, ClientCounted, StopCounted, DaemonAssumption DEF CountInv, Next
  <2> QED BY <2>2, <2>3
<1>3. CountInv => TypeOK
  BY DEF CountInv, Types, ClientTypes, TypeOK
<1> QED BY <1>1, <1>2, <1>3, PTL DEF Spec
=============================================================================
