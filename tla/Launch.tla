------------------------------- MODULE Launch -------------------------------
(***************************************************************************)
(* What a launch of agy does with the settings: `prelaunch` starts a       *)
(* daemon at the port that is configured, and the shim then points agy at  *)
(* the one that it was installed with.                                     *)
(***************************************************************************)
EXTENDS Settings

Direct == 0         \* no proxy
ShimPort == 8999    \* in the text of the shim

VARIABLES
    ca,         \* is there a ca.pem?
    serving,    \* ports at which a daemon serves
    phase,      \* "none", "prelaunched" or "running"
    asked,      \* the port configured for this launch, or Direct
    env         \* the port that agy was pointed at, or Direct

launchVars == <<raw, ca, serving, phase, asked, env>>

Init ==
    /\ SettingsInit
    /\ ca = FALSE /\ serving = {}
    /\ phase = "none" /\ asked = Direct /\ env = Direct

Configures == Configure /\ UNCHANGED <<ca, serving, phase, asked, env>>

\* EnsureRunning: nothing if the proxy is disabled or running; otherwise the CA
\* and then the daemon, either of which may fail.  Its errors are ignored.
Prelaunch ==
    LET port == Effective("proxy_port")
    IN /\ phase = "none"
       /\ phase' = "prelaunched"
       /\ IF Effective("proxy_enabled") = 0
          THEN asked' = Direct /\ UNCHANGED <<ca, serving>>
          ELSE /\ asked' = port
               /\ \/ ca' = TRUE /\ serving' = serving \union {port}
                  \/ ca' = TRUE /\ UNCHANGED serving
                  \/ UNCHANGED <<ca, serving>>
       /\ UNCHANGED <<raw, env>>

\* The shim looks for ca.pem and for the two variables with which the user
\* turns it off for one launch.
Shim ==
    /\ phase = "prelaunched"
    /\ phase' = "running"
    /\ env' \in IF ca THEN {ShimPort, Direct} ELSE {Direct}
    /\ UNCHANGED <<raw, ca, serving, asked>>

AgyEnds ==
    /\ phase = "running"
    /\ phase' = "none" /\ asked' = Direct /\ env' = Direct
    /\ UNCHANGED <<raw, ca, serving>>

DaemonEnds ==
    /\ \E p \in serving : serving' = serving \ {p}
    /\ UNCHANGED <<raw, ca, phase, asked, env>>

Next == Configures \/ Prelaunch \/ Shim \/ AgyEnds \/ DaemonEnds
Spec == Init /\ [][Next]_launchVars
-----------------------------------------------------------------------------
\* The documented behaviour: proxy_port is the "local proxy port (default 8999)"
\* (store.go:73) and the user may set it (README.md:240), and
\* proxy_enabled switches the proxy: an agy that is pointed at a proxy is
\* pointed at the port that was configured when it was launched.
LaunchFollowsSettings == phase = "running" => env \in {Direct, asked}
=============================================================================
