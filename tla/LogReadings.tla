----------------------------- MODULE LogReadings -----------------------------
(***************************************************************************)
(* The tail of the logs over several readings: what a log is opened for    *)
(* again when it becomes the newest a second time, as it does when two     *)
(* sessions of agy write in turn, or the newer log is removed.             *)
(***************************************************************************)
EXTENDS LogTail

VARIABLE before     \* history: lines struck in an earlier reading of their log

Opens == Find /\ cur' # cur

SpecReadings ==
    /\ Init /\ before = {}
    /\ [][/\ Next
          /\ before' = IF Opens THEN before \union {n \in LinesOf(Newest) : strikes[n] > 0}
                       ELSE before]_<<vars, before>>

\* The watcher tails the logs (README.md:135) to count the consecutive failures
\* of an account (detect.go:72): a line that was struck is not struck in a later
\* reading of its log.  It is: a log that becomes the newest again is read from
\* its start (watch.go:87-99).
StruckNoMore == \A n \in before : strikes[n] = 0
=============================================================================
