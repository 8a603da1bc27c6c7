----------------------------- MODULE MCRotation -----------------------------
(* Small instances of Rotation for TLC. *)
EXTENDS Rotation

\* Two rungs are enough to tell an escalated cooldown from a first one.
MCLadder == <<2, 3>>
MCOneRung == <<2>>

\* A backup of one account, and one of two added at the same instant.
MCBackupsTwo == {[a \in {2} |-> 1], [a \in {1, 2} |-> 1]}

\* Every address has a file of its own, or two of them share one.
MCOwnFile == [a \in Account |-> a]
MCShared == [a \in Account |-> IF a = 2 THEN 1 ELSE a]

\* Backups of one account, and of one and the account beside the shared file.
MCBackupsShared == {[a \in {2} |-> 1], [a \in {1, 3} |-> 1]}
=============================================================================
