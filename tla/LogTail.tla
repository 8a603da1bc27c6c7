------------------------------- MODULE LogTail -------------------------------
(***************************************************************************)
(* watch.go: how the watcher follows the logs of agy.  It reads the newest *)
(* one from its start, line by line, opens another one when that becomes   *)
(* the newest, and starts again when the log was truncated or is gone.     *)
(* What a failure line does to the accounts is in Rotation; here it counts *)
(* as a strike against the account that is active.                         *)
(*                                                                         *)
(* A line is written in two halves, which may arrive apart; the newline    *)
(* ends the second.                                                        *)
(***************************************************************************)
EXTENDS Naturals, Sequences, FiniteSets, SequencesExt

CONSTANTS
    Logs,       \* the log files, one per session of agy
    Accounts,   \* those that may be active
    NoAccount,  \* none is
    NoLog,      \* no log is being read
    Kinds,      \* where Classify finds a failure in a line: nowhere, in either
                \* half, in each of them, or only in both together
    MaxLines    \* bound on the lines ever written

ASSUME LogAssumption == NoLog \notin Logs /\ NoAccount \notin Accounts /\ MaxLines \in Nat
ASSUME KindsAssumption ==
    "ok" \in Kinds /\ Kinds \subseteq {"ok", "first", "second", "each", "across"}

Lines == 1 .. MaxLines

VARIABLES
    text,       \* log -> the half lines <<line, half>> in it
    kind,       \* line -> its kind
    written,    \* lines written so far, in all logs
    order,      \* the logs in the directory, by time of modification
    deleted,    \* the logs that were removed from it
    active,     \* active_email
    pc,         \* the watcher: "find", "read", "stat"
    cur,        \* curPath
    shut,       \* has the file of the reader been closed?
    off,        \* offset of the reader in the file of cur
    buf,        \* what the reader has buffered
    lastSize,   \* lastSize
    strikes,    \* history: line -> strikes since its log was last opened
    split,      \* history: lines whose halves were read apart since then
    unmanned,   \* history: lines read since then with nobody active
    skipped     \* history: was the log truncated since it was opened?

logVars == <<text, kind, written, order, deleted>>
readVars == <<pc, cur, shut, off, buf, lastSize>>
history == <<strikes, split, unmanned, skipped>>
vars == <<logVars, active, readVars, history>>

Newest == IF order = <<>> THEN NoLog ELSE Last(order)

Init ==
    /\ text = [l \in Logs |-> <<>>]
    /\ kind = [n \in Lines |-> "ok"]
    /\ written = 0
    /\ order = <<>> /\ deleted = {}
    /\ active \in Accounts \union {NoAccount}
    /\ pc = "find" /\ cur = NoLog /\ shut = TRUE
    /\ off = 0 /\ buf = <<>> /\ lastSize = 0
    /\ strikes = [n \in Lines |-> 0]
    /\ split = {} /\ unmanned = {} /\ skipped = FALSE

-----------------------------------------------------------------------------
\* The logs.  A session writes half a line, the rest of one, or a whole line;
\* whatever it writes makes its log the newest.
Writes(l, units) ==
    /\ l \notin deleted
    /\ text' = [text EXCEPT ![l] = @ \o units]
    /\ order' = Append(RemoveFirst(order, l), l)
    /\ UNCHANGED <<deleted, active, readVars, history>>

HalfOpen(l) == text[l] # <<>> /\ Last(text[l])[2] = 1

AddLine(l, k) ==
    /\ written < MaxLines /\ ~HalfOpen(l)
    /\ written' = written + 1
    /\ kind' = [kind EXCEPT ![written'] = k]
    /\ \/ Writes(l, << <<written', 1>>, <<written', 2>> >>)
       \/ Writes(l, << <<written', 1>> >>)

EndLine(l) ==
    /\ HalfOpen(l)
    /\ Writes(l, << <<Last(text[l])[1], 2>> >>)
    /\ UNCHANGED <<kind, written>>

Truncate(l) ==
    /\ text[l] # <<>> /\ l \notin deleted
    /\ text' = [text EXCEPT ![l] = <<>>]
    /\ order' = Append(RemoveFirst(order, l), l)
    /\ skipped' = (skipped \/ cur = l)
    /\ UNCHANGED <<kind, written, deleted, active, readVars, strikes, split, unmanned>>

Delete(l) ==
    /\ \E i \in DOMAIN order : order[i] = l
    /\ order' = RemoveFirst(order, l)
    /\ deleted' = deleted \union {l}
    /\ UNCHANGED <<text, kind, written, active, readVars, history>>

\* A launch or a command makes another account the active one.
Switch(a) ==
    /\ active' = a
    /\ UNCHANGED <<logVars, readVars, history>>

-----------------------------------------------------------------------------
\* The watcher.  A newer log is opened from its start, and the strikes of its
\* lines are counted anew; when it cannot be opened, the old one is closed.
LinesOf(l) == {u[1] : u \in {text[l][i] : i \in DOMAIN text[l]}}

\* A slip: a newer log is read on from where the old one was.
FindReadsOn ==
    /\ pc = "find" /\ Newest # NoLog
    /\ pc' = "read" /\ cur' = Newest /\ shut' = FALSE
    /\ UNCHANGED <<off, buf, lastSize, history, logVars, active>>

\* A slip: no newer log is looked for.
FindOnce ==
    /\ pc = "find" /\ Newest # NoLog
    /\ pc' = "read"
    /\ cur' = IF cur = NoLog THEN Newest ELSE cur
    /\ shut' = FALSE
    /\ UNCHANGED <<off, buf, lastSize, history, logVars, active>>

Find ==
    /\ pc = "find" /\ Newest # NoLog
    /\ \/ /\ Newest = cur
          /\ pc' = "read"
          /\ UNCHANGED <<cur, shut, off, buf, lastSize, history>>
       \/ /\ Newest # cur
          /\ pc' = "read" /\ cur' = Newest /\ shut' = FALSE
          /\ off' = 0 /\ buf' = <<>> /\ lastSize' = 0
          /\ strikes' = [n \in Lines |-> IF n \in LinesOf(Newest) THEN 0 ELSE strikes[n]]
          /\ split' = split \ LinesOf(Newest) /\ unmanned' = unmanned \ LinesOf(Newest)
          /\ skipped' = FALSE
       \/ /\ Newest # cur
          /\ shut' = TRUE
          /\ UNCHANGED <<pc, cur, off, buf, lastSize, history>>
    /\ UNCHANGED <<logVars, active>>

\* The reader gets everything between its offset and the end of the file.
Rest == IF shut THEN <<>> ELSE SubSeq(text[cur], off + 1, Len(text[cur]))
Ends == {i \in DOMAIN buf : buf[i][2] = 2}

Fill ==
    /\ pc = "read" /\ Ends = {} /\ Rest # <<>>
    /\ buf' = buf \o Rest
    /\ off' = Len(text[cur])
    /\ UNCHANGED <<logVars, active, pc, cur, shut, lastSize, history>>

\* Classify on a piece of the log.
Fails(piece) ==
    LET units == {piece[i] : i \in DOMAIN piece}
    IN \/ \E u \in units : \/ kind[u[1]] = "each"
                           \/ kind[u[1]] = IF u[2] = 1 THEN "first" ELSE "second"
       \/ \E n \in Lines : kind[n] = "across" /\ {<<n, 1>>, <<n, 2>>} \subseteq units

\* scan: a failure strikes the active account, and the engine may pick another.
Scan(piece) ==
    LET n == piece[Len(piece)][1]
    IN /\ split' = IF Len(piece) = 1 THEN split \union {n} ELSE split
       /\ unmanned' = IF active = NoAccount THEN unmanned \union {n} ELSE unmanned
       /\ IF Fails(piece) /\ active # NoAccount
          THEN /\ strikes' = [strikes EXCEPT ![n] = @ + 1]
               /\ active' \in Accounts
          ELSE UNCHANGED <<strikes, active>>
       /\ UNCHANGED skipped

ReadLine ==
    LET n == CHOOSE i \in Ends : \A j \in Ends : i <= j
    IN /\ pc = "read" /\ Ends # {}
       /\ Scan(SubSeq(buf, 1, n))
       /\ buf' = SubSeq(buf, n + 1, Len(buf))
       /\ UNCHANGED <<logVars, pc, cur, shut, off, lastSize>>

\* At the end of the file what there is of a line is scanned too.
AtEOF ==
    /\ pc = "read" /\ Ends = {} /\ Rest = <<>>
    /\ pc' = "stat"
    /\ IF buf = <<>> THEN UNCHANGED <<active, history>> ELSE Scan(buf)
    /\ buf' = <<>>
    /\ UNCHANGED <<logVars, cur, shut, off, lastSize>>

\* A slip: a log that is gone is still read.
StatReads ==
    LET there == \E i \in DOMAIN order : order[i] = cur
    IN /\ pc = "stat"
       /\ pc' = IF there THEN "find" ELSE "read"
       /\ cur' = IF there THEN cur ELSE NoLog
       /\ UNCHANGED <<logVars, active, shut, off, buf, lastSize, history>>

\* A log that is gone or has shrunk is opened again.
Stat ==
    LET there == \E i \in DOMAIN order : order[i] = cur
        size == Len(text[cur])
    IN /\ pc = "stat"
       /\ pc' = "find"
       /\ cur' = IF there /\ size >= lastSize THEN cur ELSE NoLog
       /\ lastSize' = IF there /\ size >= lastSize THEN size ELSE lastSize
       /\ UNCHANGED <<logVars, active, shut, off, buf, history>>

Watch == Find \/ Fill \/ ReadLine \/ AtEOF \/ Stat
Agy(l) == (\E k \in Kinds : AddLine(l, k)) \/ EndLine(l)

Next ==
    \/ Watch
    \/ \E l \in Logs : Agy(l) \/ Truncate(l) \/ Delete(l)
    \/ \E a \in Accounts \union {NoAccount} : Switch(a)

Spec == Init /\ [][Next]_vars
\* The watcher runs, and a log that can be opened is opened in the end.
FairSpec == Spec /\ WF_vars(Watch) /\ SF_vars(Find /\ shut' = FALSE)

-----------------------------------------------------------------------------
Units == Lines \X {1, 2}

TypeOK ==
    /\ \A l \in Logs : text[l] \in Seq(Units)
    /\ kind \in [Lines -> Kinds]
    /\ written \in 0 .. MaxLines
    /\ ToSet(order) \subseteq Logs \ deleted
    /\ active \in Accounts \union {NoAccount}
    /\ pc \in {"find", "read", "stat"}
    /\ cur \in Logs \union {NoLog}
    /\ (pc # "find" => cur # NoLog)
    /\ shut \in BOOLEAN
    /\ off \in Nat /\ lastSize \in Nat
    /\ buf \in Seq(Units)
    /\ strikes \in [Lines -> 0 .. 2]
    /\ split \subseteq Lines /\ unmanned \subseteq Lines
    /\ skipped \in BOOLEAN

\* What a line is struck for in one reading of its log: read at once, for a
\* failure anywhere in it; in two pieces, for a failure in each of them.
FirstDue(k) == IF k \in {"first", "each"} THEN 1 ELSE 0
SecondDue(k) == IF k \in {"second", "each"} THEN 1 ELSE 0
Due(k, apart) == IF apart THEN FirstDue(k) + SecondDue(k)
                 ELSE IF k = "ok" THEN 0 ELSE 1

\* How much of its log the reader has passed.
Passed == off - Len(buf)

\* In one reading of a log every line is struck as it is due, neither less nor
\* more, once the reader has passed it, for its first half once it has passed
\* that, and not before: nothing is dropped or struck again when data arrives
\* between two reads or the log is polled again (watch.go:105-125).  A line read
\* in two pieces may be struck twice, or not at all; those read while nobody was
\* active are left out, and a log that is truncated while it is read.  A log that
\* is opened again is another reading, see LogReadings.
StruckAsDue ==
    cur # NoLog /\ ~skipped =>
        \A i \in DOMAIN text[cur] :
            LET n == text[cur][i][1]
                half == text[cur][i][2]
            IN /\ half = 1 /\ i > Passed => strikes[n] = 0
               /\ n \notin unmanned =>
                     /\ half = 1 /\ i = Passed => strikes[n] = FirstDue(kind[n])
                     /\ half = 2 /\ i <= Passed => strikes[n] = Due(kind[n], n \in split)

\* Once nobody writes any more, the watcher has read the newest log to its end,
\* unless that was truncated while it read it and grew again, or the watcher
\* has closed it because the one after could not be opened (watch.go:75-126).
CaughtUp == cur = Newest /\ off = Len(text[cur]) /\ buf = <<>>
CatchesUp == <>[](Newest = NoLog \/ skipped \/ shut \/ CaughtUp)
=============================================================================
