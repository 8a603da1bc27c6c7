------------------------------ MODULE MCLaunch ------------------------------
(* A small instance of Launch for TLC. *)
EXTENDS Launch

MCGarbage == -1000001
MCEmpty == -1000002
MCNoValue == -1000003

MCTyped == [k \in Keys |->
    CASE k = "proxy_port" -> {9000}
      [] k = "proxy_enabled" -> {0}
      [] OTHER -> {}]
=============================================================================
