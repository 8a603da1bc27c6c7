------------------------------ MODULE Settings ------------------------------
(***************************************************************************)
(* config.json: what users write into it by hand, what `config set` and    *)
(* `set-mode` write, and which values the program then works with.  Values *)
(* are integers: a mode, a threshold in parts of Whole, a port, seconds, or *)
(* 0 and 1 for a Boolean.                                                  *)
(***************************************************************************)
EXTENDS Integers, FiniteSets

CONSTANTS
    Whole,      \* the fraction 1
    Tenth,      \* the fraction 0.10
    Typed,      \* key -> what users may write for it
    Garbage,    \* a text that is no duration
    Empty,      \* the empty text
    NoValue,    \* not in the file, or not of the type that the key has
    MaxOwn      \* bound on the keys that have a value of the user's own

Durations == {"quota_poll_interval", "proxy_idle_timeout"}
Switches == {"notifications", "proxy_enabled"}
Keys == {"mode", "preempt_threshold", "proxy_port"} \union Durations \union Switches

ASSUME SettingsAssumption ==
    /\ Whole \in Nat /\ Tenth \in 1 .. Whole - 1
    /\ {Garbage, Empty, NoValue} \subseteq {v \in Int : v < 0}
    /\ Garbage # Empty /\ Garbage # NoValue /\ Empty # NoValue
    /\ Typed \in [Keys -> SUBSET Int]
    /\ MaxOwn \in Nat

VARIABLE raw    \* key -> what the file gives for it

\* Round-robin mode, and both switches on.
Default == [k \in Keys |->
    IF k = "preempt_threshold" THEN Tenth
    ELSE IF k = "quota_poll_interval" THEN 300
    ELSE IF k = "proxy_port" THEN 8999
    ELSE IF k = "proxy_idle_timeout" THEN 3600
    ELSE 1]

\* There is no file: the same as one that cannot be parsed.
SettingsInit == raw = [k \in Keys |-> NoValue]

-----------------------------------------------------------------------------
\* The round-robin, sticky and smart modes, and the ports that exist.
Modes == 1 .. 3
Ports == 1 .. 65535

\* What LoadConfig keeps of the file; the rest becomes the default.
Fits(k, v) ==
    /\ k = "mode" => v \in Modes
    /\ k = "proxy_port" => v \in Ports
    /\ k \in Durations => v # Empty /\ v # NoValue
    /\ k \in Switches => v \in {0, 1}

\* A slip: a threshold of 0 is kept.
KeepsZero(k, v) == Fits(k, v) /\ (k = "preempt_threshold" => v \in 0 .. Whole)
Keeps(k, v) == Fits(k, v) /\ (k = "preempt_threshold" => v \in 1 .. Whole)

LoadConfig == [k \in Keys |-> IF Keeps(k, raw[k]) THEN raw[k] ELSE Default[k]]

\* The poller and the daemon have their own defaults for durations of no use.
Interval(v) == IF v = Garbage \/ v < 60 THEN 300 ELSE v
IdleTimeout(v) == IF v = Garbage \/ v <= 0 THEN 3600 ELSE v

Effective(k) ==
    IF k = "quota_poll_interval" THEN Interval(LoadConfig[k])
    ELSE IF k = "proxy_idle_timeout" THEN IdleTimeout(LoadConfig[k])
    ELSE LoadConfig[k]

\* What `config set` and `set-mode` accept.
Accepts(k, v) ==
    /\ Fits(k, v)
    /\ k = "preempt_threshold" => v \in 1 .. Whole - 1
    /\ k \in Durations => v # Garbage

\* A slip: the settings of the file are not loaded first.
SetAlone(k, v) ==
    /\ Accepts(k, v)
    /\ raw' = [Default EXCEPT ![k] = v]

\* The settings are loaded, one is changed, and all are saved.
Set(k, v) ==
    /\ Accepts(k, v)
    /\ raw' = [LoadConfig EXCEPT ![k] = v]

\* The user edits a value by hand, or leaves a file that cannot be parsed.
Edit(k, v) == raw' = [raw EXCEPT ![k] = v]
Spoil == raw' = [k \in Keys |-> NoValue]

Configure ==
    /\ Spoil \/ \E k \in Keys : \E v \in Typed[k] : Set(k, v) \/ Edit(k, v)
    /\ Cardinality({k \in Keys : raw'[k] \notin {NoValue, Default[k]}}) <= MaxOwn
-----------------------------------------------------------------------------
\* Whatever is in the file, the program works with a threshold above 0 and up
\* to 1, a port that exists, a mode it knows, a poll interval for which a ticker
\* can be made and an idle time that is not over at once (store.go:286-315,
\* watch.go:130-134, main.go:958-962).
EffectiveInRange ==
    /\ Effective("mode") \in Modes
    /\ Effective("preempt_threshold") \in 1 .. Whole
    /\ Effective("proxy_port") \in Ports
    /\ Effective("quota_poll_interval") >= 60
    /\ Effective("proxy_idle_timeout") > 0

\* Setting one key puts the value into effect, or the default where it is of no
\* use, and leaves what is in effect for every other key, although the whole
\* file is written anew and its bad values are replaced (main.go:845-929).
Usable(k, v) == (k = "quota_poll_interval" => v >= 60) /\ (k = "proxy_idle_timeout" => v > 0)
SetSetsOne ==
    [][\A k \in Keys : \A v \in Typed[k] : Set(k, v) =>
          \A j \in Keys : Effective(j)' =
              IF j # k THEN Effective(j) ELSE IF Usable(k, v) THEN v ELSE Default[k]]_raw
=============================================================================
