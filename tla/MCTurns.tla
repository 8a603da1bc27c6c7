------------------------------ MODULE MCTurns ------------------------------
(* A small instance of RotationTurns, and so of Rotation, for TLC. *)
EXTENDS RotationTurns

\* All accounts cool equally long.
MCOneRung == <<1>>

\* Addresses 1 and 2 are two spellings of one file's name.
MCShared == [a \in Account |-> IF a = 2 THEN 1 ELSE a]

\* A backup of one account, and of two added at the same instant.
MCBackups == {[a \in {2} |-> 1], [a \in {1, 3} |-> 1]}
=============================================================================
