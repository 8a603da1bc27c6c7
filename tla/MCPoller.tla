------------------------------ MODULE MCPoller ------------------------------
(***************************************************************************)
(* Two models, fractions in quarters, and values of every kind that the    *)
(* code tells apart.                                                       *)
(***************************************************************************)
EXTENDS Poller

MCGarbage == -1000001
MCEmpty == -1000002
MCNoValue == -1000003

\* The two switches are alike; one of them is enough.
MCTyped == [k \in Keys |->
    CASE k = "mode" -> {4}
      [] k = "preempt_threshold" -> {0, 2}
      [] k = "quota_poll_interval" -> {0, MCGarbage}
      [] k = "proxy_port" -> {0, 9000}
      [] k = "proxy_idle_timeout" -> {-300, MCEmpty}
      [] k = "notifications" -> {0}
      [] k = "proxy_enabled" -> {}]

Sample(w, f, r) == [words |-> w, quota |-> TRUE, fraction |-> f, reset |-> r]
MCSamples == {
    Sample({"claude"}, 3, 2),
    Sample({"claude"}, 5, 1),
    Sample({"claude"}, 2, BadReset),
    Sample({"claude", "gemini-3"}, 2, 1),
    [words |-> {"gemini 3", "flash"}, quota |-> FALSE, fraction |-> 0, reset |-> 1],
    Sample({"flash"}, 1, 1)}
=============================================================================
